SPECIFICATION FairPoolSpec
CONSTANTS
    Account = {1, 2}
    Transaction <- WithResubmission
    DbNonce = {0, 1, 2}
    Capacity = 10
    NoTx = NoTx
    MaxNonceAhead = 1
    SyncBatchSize = 2
    SealQueueCapacity = 1
    RemoveStuckTxs = FALSE
    MaxSubmissions = 3
    MaxRestarts = 0
INVARIANTS
    InMempoolIsHeld
PROPERTIES
    HeadsAreSettled
