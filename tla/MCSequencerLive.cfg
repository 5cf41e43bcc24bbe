SPECIFICATION FairSpec
CONSTANTS
    Tx <- Mixed
    TransactionSlots = 3
    EncodingSpace = 4
    RejectBound = 3
    CloseBound = 3
    BatchDeadline = 1
    MiniblockDeadline = 1
    SealQueueCapacity = 1
    UpgradeAt = 5
    UpgradeHasTx = TRUE
    MaxCrashes = 1
    MaxClockBack = 1
INVARIANTS
    SizeRespected
PROPERTIES
    OfferedIsSettled
