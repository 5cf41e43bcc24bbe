SPECIFICATION Spec
CONSTANTS
    Tx <- Mixed
    TransactionSlots = 3
    EncodingSpace = 4
    RejectBound = 3
    CloseBound = 3
    BatchDeadline = 1
    MiniblockDeadline = 1
    SealQueueCapacity = 1
    UpgradeAt = 5
    UpgradeHasTx = TRUE
    MaxCrashes = 0
    MaxClockBack = 0
INVARIANTS
    WitnessMatchesBatch
