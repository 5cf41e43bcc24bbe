SPECIFICATION Spec
CONSTANTS
    d0 = d0
    d1 = d1
    NumKeys = 3
    Values <- MCValues
    Txs <- MCTxs
    Tips <- MCTips
    GenesisOps <- MCGenesisOps
    GenesisDeps <- MCGenesisDeps
    MaxBatches = 2
    MaxTxs = 2
    MaxExcluded = 1
INVARIANT DedupAgrees
INVARIANT IndicesMatchTree
INVARIANT RocksdbIsSealedState
INVARIANT VmSeesState
