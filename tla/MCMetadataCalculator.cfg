SPECIFICATION FairSpec
CONSTANTS
    Depth = 2
    Value = {1, 2}
    Genesis <- TwoWrites
    MaxBatchesPerIter = 1
    MaxBatches = 2
    MaxWrites = 2
    MaxCrashes = 1
INVARIANTS
    RootsAreOfState
    TreeIsRecoverable
    WitnessLeadsToRoot
    SavedIsComplete
PROPERTIES
    SealedIsEntered
