SPECIFICATION FairSpec
CONSTANTS
    g1 = g1
    p1 = p1
    p2 = p2
    NumBatches = 2
    NumCircuits = 1
    Generators <- OneGenerator
    Provers <- OneProver
INVARIANT OneWorkerPerJob
INVARIANT SentWasReceived
PROPERTY ImplementsProofTask
 
