SPECIFICATION Spec
CONSTANTS
    Account = {1, 2}
    Transaction <- MCTransaction
    Capacity = 3
    NoTx = NoTx
    DbNonce = {0, 1}
INVARIANTS
    TypeOK
    NoDanglingPointer
    HeadsQueued
    SizeExact
PROPERTIES
    OldestFirst
    GcKeepsExecutable
