SPECIFICATION PoolSpec
CONSTANTS
    Account = {1, 2}
    Transaction <- WithReplacement
    DbNonce = {0, 1, 2}
    Capacity = 1
    NoTx = NoTx
    MaxNonceAhead = 1
    SyncBatchSize = 2
    SealQueueCapacity = 1
    RemoveStuckTxs = TRUE
    MaxSubmissions = 3
    MaxRestarts = 0
INVARIANTS
    PendingBatchComplete
