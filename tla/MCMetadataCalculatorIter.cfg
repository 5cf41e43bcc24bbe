SPECIFICATION Spec
CONSTANTS
    Depth = 2
    Value = {1, 2}
    Genesis <- TwoWrites
    MaxBatchesPerIter = 2
    MaxBatches = 2
    MaxWrites = 1
    MaxCrashes = 1
INVARIANTS
    RootsAreOfState
