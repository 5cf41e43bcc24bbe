SPECIFICATION Spec
CONSTANTS
    NONE = NONE
    ChainId = 1
    MaxNonce = 10
    ValidCode = {"code"}
    Client = {1, 2}
    Payload <- Payloads
    Account = {"alice"}
    Nonce = {0, 1, 2}
    BlockId <- BlockIds
    PoolSize = 1
    MaxVm = 1
    MaxNonceAhead = 1
    MaxNewFactoryDeps = 1
    Workload <- Workloads
    Subscriber = {1, 2}
    Topic = {"l1_batch_proofs", "syncing", "unknown"}
    Deployment <- Deployments
    SealQueueCapacity = 1
    ChannelCapacity = 1
    MaxProofs = 3
INVARIANTS
    WaitingIsAdmissible
    ReceiptsAreWhole
    PendingNonceIsAtomic
    SubscriberSeesNoGap
PROPERTIES
    RequestsAreAnswered
    StopsEventually
CHECK_DEADLOCK FALSE
