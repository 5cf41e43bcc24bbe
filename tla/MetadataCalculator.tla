------------------------- MODULE MetadataCalculator -------------------------
(***************************************************************************)
(* The metadata calculator (metadata_calculator/updater.rs): for every     *)
(* sealed L1 batch it brings the Merkle tree up to date, completes the     *)
(* batch's witness in the object store, stores the root hash in Postgres   *)
(* and enters the batch for proving.  Afterwards the tree is saved.        *)
(*                                                                         *)
(* The tree lives in RocksDB, which is written without sync: a crash may   *)
(* lose the last writes, and the calculator then processes again batches   *)
(* whose metadata Postgres already has.  The sequencer seals one batch     *)
(* after the other, each only when its predecessor has a root hash, and    *)
(* does not wait for the tree.                                             *)
(*                                                                         *)
(* The witness is a file that the object store rewrites in place: a crash  *)
(* in between leaves it torn, and the calculator, which reads the file     *)
(* before it completes it, can then never get past its batch.              *)
(*                                                                         *)
(* This is the calculator in full mode, with an object store.              *)
(***************************************************************************)
EXTENDS MerkleTree

CONSTANTS
    Genesis,            \* writes of batch 0
    MaxBatchesPerIter,  \* `max_l1_batches_per_iter'
    MaxBatches,         \* bound on the number of batches
    MaxWrites,          \* bound on the number of writes of a batch
    MaxCrashes          \* bound on crashes

Op == [key : Key, value : Value]

\* Logs of a batch: at least one write (a transaction bumps a nonce), one per key.
IsLog(ops) == ops # <<>> /\ \A i, j \in 1..Len(ops) : ops[i].key = ops[j].key => i = j

ASSUME MetadataCalculatorAssumption ==
    /\ Genesis \in Seq(Op) /\ IsLog(Genesis)
    /\ MaxBatchesPerIter \in Nat \ {0}  \* asserted by MetadataCalculator::new
    /\ {MaxBatches, MaxWrites, MaxCrashes} \subseteq Nat

VARIABLES
    logs,      \* writes of each sealed batch
    metadata,  \* the columns of `l1_batches' that the calculator fills, by batch
    witness,   \* `PrepareBasicCircuitsJob' in the object store, once it is complete
    torn,      \* batches whose file in the object store is cut off
    producer_jobs,  \* batches in `basic_witness_input_producer_jobs'
    details,   \* batches in `proof_generation_details'
    rocksdb,   \* states of the tree's RocksDB, one per write; a crash may bring back an older one
    tree,      \* `AccountTree' in memory
    pc,        \* where the calculator is
    batch,     \* the batch being processed, or `next_l1_batch_to_seal'
    last,      \* the last batch of this iteration
    processed, \* what process_l1_batch returned, with the root hash before
    crashes

storedVars == <<metadata, witness, torn, producer_jobs, details>>
vars == <<logs, storedVars, rocksdb, tree, pc, batch, last, processed, crashes>>

-----------------------------------------------------------------------------
\* The entries of f, and those of g elsewhere.
Over(f, g) == [x \in DOMAIN f \cup DOMAIN g |-> IF x \in DOMAIN f THEN f[x] ELSE g[x]]

Put(f, k, v) == [x \in DOMAIN f \cup {k} |-> IF x = k THEN v ELSE f[x]]

Sealed == Max(DOMAIN logs)

Empty == [x \in {} |-> 0]
NewRocksdb == [nodes |-> Empty, indices |-> Empty, leaf_index |-> 1, block_number |-> 0]
Disk == rocksdb[Len(rocksdb)]

\* Root hash and block number, as they were saved.
fetch_metadata == [root |-> Stored(Disk.nodes, 0, 0), block_number |-> Disk.block_number]

\* AccountTree::new_with_db.
LoadTree == [root |-> fetch_metadata.root, block_number |-> fetch_metadata.block_number,
             nodes |-> Empty, indices |-> Empty, leaf_index |-> 1]

\* process_leaf_indices: the writes of keys that RocksDB does not know get the
\* next indices, in their order.
NewWrites(ops) == {j \in 1..Len(ops) : ops[j].key \notin DOMAIN Disk.indices}
NewIndices(ops) ==
    [k \in {ops[j].key : j \in NewWrites(ops)} |->
        Disk.leaf_index + Cardinality({i \in NewWrites(ops) : \E j \in NewWrites(ops) : i < j /\ ops[j].key = k})]

\* prepare_batch_update: the nodes around the written leaves' paths are read
\* from RocksDB, and the hashes above every write computed.
PrepareBatchUpdate(ops) == Calculate(Disk.nodes, ops)

\* AccountTree::process_block: nodes and leaf indices are read from RocksDB;
\* the changes are added to the pending patch.
ProcessBlock(t, ops) ==
    LET patch == Patch(ops, PrepareBatchUpdate(ops))
    IN  [root         |-> patch[<<0, 0>>],
         block_number |-> t.block_number + 1,
         nodes        |-> Over(patch, t.nodes),
         indices      |-> Over(NewIndices(ops), t.indices),
         leaf_index   |-> Disk.leaf_index + Cardinality(NewWrites(ops))]

\* Storage::save: one write batch.  The pending patch is kept.
Saved(t) ==
    [nodes |-> Over(t.nodes, Disk.nodes), indices |-> Over(t.indices, Disk.indices),
     leaf_index |-> t.leaf_index, block_number |-> t.block_number]

-----------------------------------------------------------------------------
(* The calculator. *)

NoTree == [root |-> EmptyTree[0], block_number |-> 0,
           nodes |-> Empty, indices |-> Empty, leaf_index |-> 1]
NothingProcessed == [pre_root |-> EmptyTree[0], root |-> EmptyTree[0], last_index |-> 1, traces |-> <<>>]

\* Everything in memory is lost.
Reset ==
    /\ pc' = "start"
    /\ tree' = NoTree /\ batch' = 0 /\ last' = 0 /\ processed' = NothingProcessed

\* Start of loop_updating_tree: an empty tree gets the genesis batch.
Start ==
    /\ pc = "start" /\ pc' = "idle"
    /\ IF LoadTree.root = EmptyTree[0]
       THEN tree' = ProcessBlock(LoadTree, logs[0]) /\ rocksdb' = Append(rocksdb, Saved(tree'))
       ELSE tree' = LoadTree /\ UNCHANGED rocksdb
    /\ batch' = tree'.block_number
    /\ UNCHANGED <<logs, storedVars, last, processed, crashes>>

\* Mutant: the last sealed batch is left for later.
LastRequested_LeavesLast ==
    IF batch + MaxBatchesPerIter - 1 < Sealed THEN batch + MaxBatchesPerIter - 1 ELSE Sealed - 1

\* step: at most so many batches, and no more than are sealed.
LastRequested ==
    IF batch + MaxBatchesPerIter - 1 < Sealed THEN batch + MaxBatchesPerIter - 1 ELSE Sealed

Step ==
    /\ pc = "idle" /\ pc' = "process"
    /\ batch <= LastRequested
    /\ last' = LastRequested
    /\ UNCHANGED <<logs, storedVars, rocksdb, tree, batch, processed, crashes>>

\* No batch to process: poll again after a delay.
NoProgress ==
    /\ pc = "idle"
    /\ batch > LastRequested
    /\ UNCHANGED vars

\* The batch on top of the tree, and its storage traces.
Processed(pre_root) ==
    [pre_root |-> pre_root, root |-> tree'.root, last_index |-> tree'.leaf_index,
     traces |-> Traces(Disk.nodes, logs[batch], PrepareBatchUpdate(logs[batch]))]

\* Mutant: the root hash before the batch is read when the batch is processed.
ProcessL1Batch_LateRoot ==
    /\ pc = "process" /\ pc' = "put"
    /\ tree' = ProcessBlock(tree, logs[batch])
    /\ processed' = Processed(tree'.root)
    /\ torn' = torn \cup {batch}
    /\ witness' = [b \in DOMAIN witness \ {batch} |-> witness[b]]
    /\ UNCHANGED <<logs, metadata, producer_jobs, details, rocksdb, batch, last, crashes>>

\* process_l1_batch: the tree; then the file that the sequencer left is read,
\* a torn one being the end of the process, and truncated to be written anew.
ProcessL1Batch ==
    /\ pc = "process"
    /\ IF batch \in torn THEN Reset /\ UNCHANGED <<witness, torn>>
       ELSE /\ pc' = "put"
            /\ tree' = ProcessBlock(tree, logs[batch])
            /\ processed' = Processed(tree.root)
            /\ torn' = torn \cup {batch}
            /\ witness' = [b \in DOMAIN witness \ {batch} |-> witness[b]]
            /\ UNCHANGED <<batch, last>>
    /\ UNCHANGED <<logs, metadata, producer_jobs, details, rocksdb, crashes>>

\* put: the completed witness is in the file.
PutWitness ==
    /\ pc = "put" /\ pc' = "metadata"
    /\ witness' = Put(witness, batch,
          [pre_root |-> processed.pre_root, root |-> processed.root, traces |-> processed.traces])
    /\ torn' = torn \ {batch}
    /\ UNCHANGED <<logs, metadata, producer_jobs, details, rocksdb, tree, batch, last, processed, crashes>>

\* build_l1_batch_metadata.
BuildL1BatchMetadata ==
    [root |-> processed.root, parent |-> processed.pre_root, last_index |-> processed.last_index]

\* Mutant: a batch that has metadata is taken to have its jobs as well.
SaveL1BatchMetadata_SkipsJobs ==
    /\ pc = "metadata"
    /\ IF batch \in DOMAIN metadata
       THEN UNCHANGED metadata /\ pc' = "save"
       ELSE /\ metadata' = Put(metadata, batch, BuildL1BatchMetadata)
            /\ pc' = "producer_job"
    /\ UNCHANGED <<logs, witness, torn, producer_jobs, details, rocksdb, tree, batch, last, processed, crashes>>

\* save_l1_batch_metadata: UPDATE ... WHERE hash IS NULL.  Metadata that exists
\* must have the same hashes; otherwise the node panics.
SaveL1BatchMetadata ==
    /\ pc = "metadata"
    /\ IF batch \in DOMAIN metadata
       THEN /\ UNCHANGED metadata
            /\ IF metadata[batch].root = processed.root /\ metadata[batch].parent = processed.pre_root
               THEN pc' = "producer_job" /\ UNCHANGED <<tree, batch, last, processed>>
               ELSE Reset
       ELSE /\ metadata' = Put(metadata, batch, BuildL1BatchMetadata)
            /\ pc' = "producer_job" /\ UNCHANGED <<tree, batch, last, processed>>
    /\ UNCHANGED <<logs, witness, torn, producer_jobs, details, rocksdb, crashes>>

\* INSERT ... ON CONFLICT DO NOTHING.
CreateProducerJob ==
    /\ pc = "producer_job" /\ pc' = "details"
    /\ producer_jobs' = producer_jobs \cup {batch}
    /\ UNCHANGED <<logs, metadata, witness, torn, details, rocksdb, tree, batch, last, processed, crashes>>

\* INSERT ... ON CONFLICT DO NOTHING, and on to the next batch.
InsertProofGenerationDetails ==
    /\ pc = "details"
    /\ details' = details \cup {batch}
    /\ IF batch < last THEN batch' = batch + 1 /\ pc' = "process"
       ELSE UNCHANGED batch /\ pc' = "save"
    /\ UNCHANGED <<logs, metadata, witness, torn, producer_jobs, rocksdb, tree, last, processed, crashes>>

SaveTree ==
    /\ pc = "save" /\ pc' = "idle"
    /\ rocksdb' = Append(rocksdb, Saved(tree))
    /\ batch' = last + 1
    /\ UNCHANGED <<logs, storedVars, tree, last, processed, crashes>>

-----------------------------------------------------------------------------
(* The sequencer and crashes. *)

StateAfter(b) ==
    [k \in Key |->
        LET writers == {c \in 0..b : \E op \in Range(logs[c]) : op.key = k}
        IN  IF writers = {} THEN 0
            ELSE (CHOOSE op \in Range(logs[Max(writers)]) : op.key = k).value]

\* The sequencer seals the next batch; it was opened when the root hash of the
\* previous one was known.  Writes that change nothing are not among the logs.
SealBatch ==
    /\ Sealed < MaxBatches
    /\ Sealed \in DOMAIN metadata
    /\ \E n \in 1..MaxWrites : \E ops \in [1..n -> Op] :
          /\ IsLog(ops)
          /\ \A op \in Range(ops) : op.value # StateAfter(Sealed)[op.key]
          /\ logs' = Put(logs, Sealed + 1, ops)
    /\ UNCHANGED <<storedVars, rocksdb, tree, pc, batch, last, processed, crashes>>

\* The process stops; the writes to RocksDB that did not reach the disk, any
\* number of the last ones, are lost.
Crash ==
    /\ crashes < MaxCrashes
    /\ crashes' = crashes + 1
    /\ \E n \in 1..Len(rocksdb) : rocksdb' = SubSeq(rocksdb, 1, n)
    /\ Reset
    /\ UNCHANGED <<logs, storedVars>>

-----------------------------------------------------------------------------
KeysUpTo(b) == UNION {{op.key : op \in Range(logs[c])} : c \in 0..b}

\* process_genesis_batch computes the metadata of batch 0 on a tree of its own
\* and save_genesis_l1_batch_metadata stores it.
GenesisMetadata == [root |-> RootOf(StateAfter(0)), parent |-> EmptyTree[0],
                    last_index |-> 1 + Len(Genesis)]

\* The database after genesis.
Init ==
    /\ logs = [b \in {0} |-> Genesis]
    /\ metadata = [b \in {0} |-> GenesisMetadata]
    /\ witness = Empty /\ torn = {} /\ producer_jobs = {} /\ details = {}
    /\ rocksdb = <<NewRocksdb>>
    /\ pc = "start"
    /\ tree = NoTree /\ batch = 0 /\ last = 0 /\ processed = NothingProcessed
    /\ crashes = 0

Calculator == \/ Start \/ Step \/ NoProgress \/ ProcessL1Batch \/ PutWitness
              \/ SaveL1BatchMetadata \/ CreateProducerJob \/ InsertProofGenerationDetails \/ SaveTree

Next == Calculator \/ SealBatch \/ Crash

Spec == Init /\ [][Next]_vars

\* The calculator's task keeps running.
FairSpec == Spec /\ WF_vars(Calculator)

-----------------------------------------------------------------------------
(* Properties. *)

\* The metadata of a batch is that of the state after the batch, however the
\* batches were grouped, replayed and saved: its root hash, the root hash
\* before it and the next free leaf index.
RootsAreOfState ==
    \A b \in DOMAIN metadata :
        /\ metadata[b].root = RootOf(StateAfter(b))
        /\ b > 0 => metadata[b].parent = metadata[b - 1].root
        /\ metadata[b].last_index = 1 + Cardinality(KeysUpTo(b))

\* Whatever a crash leaves in RocksDB is the tree of the batches it counts,
\* node by node: "in case of process crash, tree state is recoverable".
TreeIsRecoverable ==
    \A i \in 1..Len(rocksdb) :
        LET db == rocksdb[i]
        IN  db.block_number > 0 =>
              /\ \A level \in 0..Depth : \A index \in Index(level) :
                    Stored(db.nodes, level, index) = NodeOf(StateAfter(db.block_number - 1))[level][index]
              /\ DOMAIN db.indices = KeysUpTo(db.block_number - 1)
              /\ {db.indices[k] : k \in DOMAIN db.indices} = 1..Cardinality(DOMAIN db.indices)
              /\ db.leaf_index = 1 + Cardinality(DOMAIN db.indices)

\* A batch that is entered for proving has a complete witness, which leads from
\* the root hash of the previous batch to its own, write by write.  Only a crash
\* takes it away again: the batch is then processed a second time.
WitnessLeadsToRoot ==
    \A b \in details :
        LET w == witness[b]
            n == Len(w.traces)
        IN  \/ b \in torn /\ crashes > 0
            \/ /\ b \in DOMAIN witness /\ b \in DOMAIN metadata
               /\ w.pre_root = metadata[b - 1].root /\ w.root = metadata[b].root
               /\ n = Len(logs[b])
               /\ w.traces[1].pre_hash = w.pre_root /\ w.traces[n].hash = w.root
               /\ \A j \in 2..n : w.traces[j].pre_hash = w.traces[j - 1].hash

\* A batch that is part of a saved tree is never processed again, so it has
\* its metadata, both of its jobs and a witness that is not torn.
SavedIsComplete ==
    \A i \in 1..Len(rocksdb) : \A b \in 1..(rocksdb[i].block_number - 1) :
        b \in DOMAIN metadata /\ b \in producer_jobs /\ b \in details /\ b \in DOMAIN witness

\* A crash tore the witness of batch b or of one before it.
Stuck(b) == crashes > 0 /\ \E c \in torn : c <= b /\ ~ (pc = "put" /\ batch = c)

\* Every sealed batch gets its root hash, which the sequencer waits for, and
\* is entered for proving, unless a crash while a witness was written has torn
\* it: the `expect' in process_l1_batch then stops the node at every start.
SealedIsEntered ==
    \A b \in 1..MaxBatches : b \in DOMAIN logs ~> b \in details \/ Stuck(b)
=============================================================================
