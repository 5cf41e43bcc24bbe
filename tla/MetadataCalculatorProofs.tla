---------------------- MODULE MetadataCalculatorProofs ----------------------
(***************************************************************************)
(* Proofs about the metadata calculator.  The first layer of the invariant *)
(* is about numbers: which batches are complete, and where the calculator  *)
(* is.  The second one is about contents: RocksDB, the tree in memory, the *)
(* metadata and the witnesses are those of the state after some batch.     *)
(* The second layer needs a calculator that keeps up: a batch is computed  *)
(* from what RocksDB holds, without the pending patch, so the contents are *)
(* right as long as no iteration has two batches.  Before the first crash  *)
(* none has, since the sequencer waits for the root hash of a batch.       *)
(***************************************************************************)
EXTENDS MetadataCalculator, MerkleTreeProofs, FiniteSetTheorems

-----------------------------------------------------------------------------
(* Sequences and functions. *)

IsSeq(s) == \E S : s \in Seq(S)

\* A state more of RocksDB.
LEMMA Appended ==
    ASSUME NEW s, IsSeq(s), NEW x
    PROVE  /\ IsSeq(Append(s, x)) /\ Len(s) \in Nat /\ Len(Append(s, x)) = Len(s) + 1
           /\ \A i \in 1..Len(s) : Append(s, x)[i] = s[i]
           /\ Append(s, x)[Len(s) + 1] = x
<1>1. PICK S : s \in Seq(S)
  BY DEF IsSeq
<1>2. s \in Seq(S \cup {x}) /\ x \in S \cup {x}
  BY <1>1
<1>3. PICK T : T = S \cup {x}
  OBVIOUS
<1>4. s \in Seq(T) /\ x \in T
  BY <1>2, <1>3
<1>5. Append(s, x) \in Seq(T)
  BY <1>4
<1> QED BY <1>4, <1>5 DEF IsSeq

\* What a crash leaves.
LEMMA Shortened ==
    ASSUME NEW s, IsSeq(s), NEW n \in 1..Len(s)
    PROVE  /\ IsSeq(SubSeq(s, 1, n)) /\ Len(SubSeq(s, 1, n)) = n
           /\ \A i \in 1..n : SubSeq(s, 1, n)[i] = s[i] /\ i \in 1..Len(s)
<1>1. PICK S : s \in Seq(S)
  BY DEF IsSeq
<1>2. SubSeq(s, 1, n) \in Seq(S)
  BY <1>1
<1> QED BY <1>1, <1>2 DEF IsSeq

\* The logs of a batch.
LogOk(ops) ==
    /\ Len(ops) \in Nat /\ Len(ops) > 0 /\ DOMAIN ops = 1..Len(ops)
    /\ \A j \in 1..Len(ops) : ops[j].key \in Key /\ ops[j].value \in Nat /\ ops[j].value # 0
    /\ \A i, j \in 1..Len(ops) : ops[i].key = ops[j].key => i = j

LEMMA LogIsOk ==
    ASSUME NEW ops \in Seq(Op), IsLog(ops)
    PROVE  LogOk(ops)
<1>1. ops # <<>> /\ \A i, j \in 1..Len(ops) : ops[i].key = ops[j].key => i = j
  BY DEF IsLog
<1>2. Len(ops) \in Nat /\ Len(ops) > 0 /\ DOMAIN ops = 1..Len(ops) /\ \A j \in 1..Len(ops) : ops[j] \in Op
  BY <1>1
<1>3. \A op \in Op : op.key \in Key /\ op.value \in Nat /\ op.value # 0
  BY MerkleTreeAssumption DEF Op
<1> QED BY <1>1, <1>2, <1>3 DEF LogOk

LEMMA LogIsWrites == ASSUME NEW ops, LogOk(ops) PROVE IsWrites(ops)
BY DEF LogOk, IsWrites

-----------------------------------------------------------------------------
(* Numbers: the batches before one are complete. *)

\* The batches that have metadata and both jobs.
Done == DOMAIN metadata \cap producer_jobs \cap details

AllIn(b, done) == \A c \in 1..b : c \in done
Complete(b) == AllIn(b, Done)

\* Batch b may be the next one: it is at most the one after batch n, and all
\* before it are complete.
IsNext(b, n, done) == b \in 1..(n + 1) /\ AllIn(b - 1, done)
Follows(a, b) == a = b + 1

LogsNum ==
    /\ Sealed \in Nat /\ DOMAIN logs = 0..Sealed
    /\ \A b \in 0..Sealed : LogOk(logs[b])

TablesNum ==
    /\ DOMAIN metadata \subseteq 0..Sealed /\ 0 \in DOMAIN metadata
    /\ \A b \in DOMAIN metadata : b # 0 => b - 1 \in DOMAIN metadata
    /\ producer_jobs \subseteq DOMAIN metadata
    /\ details \subseteq DOMAIN metadata /\ 0 \notin details

\* A saved tree counts complete batches only, and is not taken for an empty one.
DbNum(db, n, done) ==
    /\ db.block_number \in 0..(n + 1)
    /\ db.block_number = 0 => db = NewRocksdb
    /\ db.block_number # 0 => Stored(db.nodes, 0, 0) # EmptyTree[0]
    /\ AllIn(db.block_number - 1, done)

RocksdbNum ==
    /\ IsSeq(rocksdb) /\ Len(rocksdb) > 0
    /\ \A i \in 1..Len(rocksdb) : DbNum(rocksdb[i], Sealed, Done)

Computed == {"put", "metadata", "producer_job", "details", "save"}

LoopNum ==
    /\ pc \in {"start", "idle", "process"} \cup Computed
    /\ pc \in {"idle", "process"} =>
          batch = tree.block_number /\ IsNext(batch, Sealed, Done)
    /\ pc \in Computed =>
          /\ Follows(tree.block_number, batch) /\ batch \in 1..Sealed /\ IsNext(batch, Sealed, Done)
          /\ <<0, 0>> \in DOMAIN tree.nodes
    /\ pc \in Computed \cup {"process"} => last \in batch..Sealed
    /\ pc \in {"producer_job", "details"} => batch \in DOMAIN metadata
    /\ pc = "details" => batch \in producer_jobs
    /\ pc = "save" => batch = last /\ Complete(batch)
    /\ pc # "start" /\ <<0, 0>> \in DOMAIN tree.nodes => tree.nodes[<<0, 0>>] # EmptyTree[0]

NumInv == LogsNum /\ TablesNum /\ RocksdbNum /\ LoopNum

\* A tree that has processed a batch is not empty.
LEMMA ProcessedNum ==
    ASSUME NEW t, NEW ops, LogOk(ops)
    PROVE  /\ ProcessBlock(t, ops).block_number = t.block_number + 1
           /\ <<0, 0>> \in DOMAIN ProcessBlock(t, ops).nodes
           /\ ProcessBlock(t, ops).nodes[<<0, 0>>] # EmptyTree[0]
<1> DEFINE H == PrepareBatchUpdate(ops)
           patch == Patch(ops, H)
           E == Earlier(ops, Len(ops) + 1, 0, 0)
<1>0. Len(ops) \in Nat /\ 1 \in 1..Len(ops) /\ 0 \in 0..Depth
  BY MerkleTreeAssumption DEF LogOk
<1>1. \A j \in 1..Len(ops) : Ancestor(ops[j].key, 0) = 0
  BY Paths DEF LogOk
<1>2. E = 1..Len(ops)
  BY <1>0, <1>1 DEF Earlier
<1>3. Max(E) \in 1..Len(ops)
  <2>1. PICK n, S : n = Len(ops) /\ S = 1..Len(ops)
    OBVIOUS
  <2>2. n \in Int /\ S \in SUBSET Int /\ S # {} /\ \A y \in S : y <= n
    BY <1>0, <2>1
  <2>3. Max(S) \in S
    BY <2>2, MaxExists
  <2> QED BY <1>2, <2>1, <2>3
<1>4. <<0, 0>> \in DOMAIN patch /\ patch[<<0, 0>>] = H[0][Max(E)]
  <2> HIDE DEF H
  <2>1. <<0, 0>> \in {<<level, Ancestor(ops[j].key, level)>> : level \in 0..Depth, j \in 1..Len(ops)}
    BY <1>0, <1>1
  <2> QED BY <2>1 DEF Patch
<1>5. H[0][Max(E)] # EmptyTree[0]
  <2>1. PICK m : m = Max(E)
    OBVIOUS
  <2>2. m \in 1..Len(ops) /\ ops[m].value # 0
    BY <1>3, <2>1 DEF LogOk
  <2>3. \A l \in 0..Depth : Calculate(Disk.nodes, ops)[l][m] # EmptyTree[l]
    BY <2>2, CalculateIsNotEmpty
  <2> QED BY <1>0, <2>1, <2>3 DEF PrepareBatchUpdate
<1>6. ProcessBlock(t, ops).block_number = t.block_number + 1 /\ ProcessBlock(t, ops).nodes = Over(patch, t.nodes)
  BY DEF ProcessBlock
<1> HIDE DEF patch
<1> QED BY <1>4, <1>5, <1>6 DEF Over

\* Stored above a patch.
LEMMA StoredOver ==
    ASSUME NEW f, NEW g, NEW l, NEW i
    PROVE  Stored(Over(f, g), l, i) = IF <<l, i>> \in DOMAIN f THEN f[<<l, i>>] ELSE Stored(g, l, i)
BY DEF Stored, Over

\* Genesis.
LEMMA NumInit == Init => NumInv
<1> SUFFICES ASSUME Init PROVE NumInv
  OBVIOUS
<1>1. DOMAIN logs = {0} /\ logs[0] = Genesis
  BY DEF Init
<1>2. Sealed = 0
  BY <1>1, MaxIs DEF Sealed
<1>3. LogOk(Genesis)
  BY MetadataCalculatorAssumption, LogIsOk
<1>4. LogsNum
  BY <1>1, <1>2, <1>3 DEF LogsNum
<1>5. TablesNum
  BY <1>2 DEF Init, TablesNum
<1>6. RocksdbNum
  <2>1. rocksdb = <<NewRocksdb>> /\ IsSeq(<<NewRocksdb>>)
    <3>1. <<NewRocksdb>> \in Seq({NewRocksdb})
      OBVIOUS
    <3> QED BY <3>1 DEF Init, IsSeq
  <2>2. NewRocksdb.block_number = 0
    BY DEF NewRocksdb
  <2>3. DbNum(NewRocksdb, Sealed, Done)
    BY <1>2, <2>2 DEF DbNum, AllIn
  <2> QED BY <2>1, <2>3 DEF RocksdbNum
<1>7. LoopNum
  BY DEF Init, LoopNum, Computed
<1> QED BY <1>4, <1>5, <1>6, <1>7 DEF NumInv

\* Nothing is taken back.
Grows ==
    /\ Sealed \in Nat /\ Sealed' \in Nat /\ Sealed <= Sealed'
    /\ DOMAIN metadata \subseteq DOMAIN metadata'
    /\ producer_jobs \subseteq producer_jobs' /\ details \subseteq details'

LEMMA DoneGrows == Grows => Done \subseteq Done' /\ \A b : Complete(b) => AllIn(b, Done')
BY DEF Grows, Done, Complete, AllIn

LEMMA DbNumKept ==
    ASSUME Grows, NEW db, DbNum(db, Sealed, Done)
    PROVE  DbNum(db, Sealed', Done')
<1>1. AllIn(db.block_number - 1, Done')
  BY DoneGrows DEF DbNum, Complete
<1>2. db.block_number \in 0..(Sealed' + 1)
  BY DEF DbNum, Grows
<1> QED BY <1>1, <1>2 DEF DbNum

\* A batch more.
LEMMA SealedNext ==
    ASSUME LogsNum, SealBatch
    PROVE  Sealed' = Sealed + 1
<1>1. PICK n : n = Sealed + 1
  OBVIOUS
<1>2. DOMAIN logs' = 0..n /\ n \in Nat
  BY <1>1 DEF SealBatch, Put, LogsNum
<1>3. 0..n \subseteq Int /\ n \in 0..n /\ \A y \in 0..n : y <= n
  BY <1>2
<1>4. Max(0..n) = n
  BY <1>3, MaxIs
<1> QED BY <1>1, <1>2, <1>4 DEF Sealed

\* The logs are those of the sealed batches.
LEMMA LogsNumKept ==
    ASSUME NumInv, [Next]_vars
    PROVE  LogsNum' /\ Sealed <= Sealed' /\ \A b \in 0..Sealed : logs'[b] = logs[b]
<1> USE DEF NumInv
<1>1. CASE SealBatch
  <2>1. PICK n \in 1..MaxWrites : \E ops \in [1..n -> Op] : IsLog(ops) /\ logs' = Put(logs, Sealed + 1, ops)
    BY <1>1 DEF SealBatch
  <2>2. PICK ops \in [1..n -> Op] : IsLog(ops) /\ logs' = Put(logs, Sealed + 1, ops)
    BY <2>1
  <2>3. LogOk(ops)
    <3>1. ops \in Seq(Op)
      BY MetadataCalculatorAssumption
    <3> QED BY <2>2, <3>1, LogIsOk
  <2>4. /\ DOMAIN logs' = 0..(Sealed + 1) /\ logs'[Sealed + 1] = ops
        /\ \A b \in 0..Sealed : logs'[b] = logs[b]
    BY <2>2 DEF Put, LogsNum
  <2>5. Sealed' = Sealed + 1
    BY <1>1, SealedNext
  <2>6. \A b \in 0..(Sealed + 1) : LogOk(logs'[b])
    <3>1. \A b \in 0..(Sealed + 1) : b \in 0..Sealed \/ b = Sealed + 1
      BY DEF LogsNum
    <3> QED BY <2>3, <2>4, <3>1 DEF LogsNum
  <2> QED BY <2>4, <2>5, <2>6 DEF LogsNum
<1>2. CASE ~SealBatch
  <2>1. logs' = logs
    BY <1>2 DEF Next, Calculator, Start, Step, NoProgress, ProcessL1Batch, PutWitness, SaveL1BatchMetadata,
         CreateProducerJob, InsertProofGenerationDetails, SaveTree, Crash, vars
  <2> QED BY <2>1 DEF LogsNum, Sealed
<1> QED BY <1>1, <1>2

\* The tables only grow, batch after batch.
LEMMA TablesNumKept ==
    ASSUME NumInv, [Next]_vars
    PROVE  TablesNum' /\ Grows
<1> USE DEF NumInv
<1>0. Sealed \in Nat /\ Sealed' \in Nat /\ Sealed <= Sealed'
  BY LogsNumKept DEF LogsNum
<1>1. CASE SaveL1BatchMetadata
  <2>1. batch \in 1..Sealed /\ Complete(batch - 1)
    BY <1>1 DEF SaveL1BatchMetadata, LoopNum, Computed, IsNext, Complete
  <2>2. batch \in 0..Sealed' /\ (batch # 0 => batch - 1 \in DOMAIN metadata)
    BY <1>0, <2>1 DEF Complete, AllIn, Done, TablesNum
  <2>3. /\ UNCHANGED <<producer_jobs, details>>
        /\ metadata' = metadata \/ DOMAIN metadata' = DOMAIN metadata \cup {batch}
    BY <1>1 DEF SaveL1BatchMetadata, Put
  <2>4. DOMAIN metadata \subseteq 0..Sealed'
    BY <1>0 DEF TablesNum
  <2> QED BY <1>0, <2>2, <2>3, <2>4 DEF TablesNum, Grows
<1>2. CASE CreateProducerJob
  <2>1. batch \in DOMAIN metadata
    BY <1>2 DEF CreateProducerJob, LoopNum
  <2>2. /\ UNCHANGED <<metadata, details>> /\ producer_jobs' = producer_jobs \cup {batch}
    BY <1>2 DEF CreateProducerJob
  <2>3. DOMAIN metadata \subseteq 0..Sealed'
    BY <1>0 DEF TablesNum
  <2> QED BY <1>0, <2>1, <2>2, <2>3 DEF TablesNum, Grows
<1>3. CASE InsertProofGenerationDetails
  <2>1. batch \in DOMAIN metadata /\ batch # 0
    BY <1>3 DEF InsertProofGenerationDetails, LoopNum, Computed
  <2>2. /\ UNCHANGED <<metadata, producer_jobs>> /\ details' = details \cup {batch}
    BY <1>3 DEF InsertProofGenerationDetails
  <2>3. DOMAIN metadata \subseteq 0..Sealed'
    BY <1>0 DEF TablesNum
  <2> QED BY <1>0, <2>1, <2>2, <2>3 DEF TablesNum, Grows
<1>4. CASE ~SaveL1BatchMetadata /\ ~CreateProducerJob /\ ~InsertProofGenerationDetails
  <2>1. UNCHANGED <<metadata, producer_jobs, details>>
    BY <1>4 DEF Next, Calculator, Start, Step, NoProgress, ProcessL1Batch, PutWitness, SaveTree,
         SealBatch, Crash, storedVars, vars
  <2>2. DOMAIN metadata \subseteq 0..Sealed'
    BY <1>0 DEF TablesNum
  <2> QED BY <1>0, <2>1, <2>2 DEF TablesNum, Grows
<1> QED BY <1>1, <1>2, <1>3, <1>4

\* A write to RocksDB.
LEMMA RocksdbWritten ==
    ASSUME RocksdbNum, Grows, NEW db, DbNum(db, Sealed', Done'), rocksdb' = Append(rocksdb, db)
    PROVE  RocksdbNum' /\ Disk' = db
<1>1. /\ IsSeq(rocksdb') /\ Len(rocksdb) \in Nat /\ Len(rocksdb') = Len(rocksdb) + 1
      /\ \A i \in 1..Len(rocksdb) : rocksdb'[i] = rocksdb[i]
      /\ rocksdb'[Len(rocksdb) + 1] = db
  BY Appended DEF RocksdbNum
<1>2. ASSUME NEW i \in 1..Len(rocksdb') PROVE DbNum(rocksdb'[i], Sealed', Done')
  <2>1. CASE i \in 1..Len(rocksdb)
    BY <1>1, <2>1, DbNumKept DEF RocksdbNum
  <2>2. CASE i = Len(rocksdb) + 1
    BY <1>1, <2>2
  <2> QED BY <1>1, <2>1, <2>2
<1> QED BY <1>1, <1>2 DEF RocksdbNum, Disk

\* The start of the loop: the tree is empty exactly if RocksDB counts no batch.
LEMMA Starts ==
    ASSUME NumInv
    PROVE  /\ DbNum(Disk, Sealed, Done)
           /\ Stored(Disk.nodes, 0, 0) = EmptyTree[0] <=> Disk.block_number = 0
<1>1. Len(rocksdb) \in 1..Len(rocksdb)
  BY Appended DEF NumInv, RocksdbNum
<1>2. DbNum(Disk, Sealed, Done)
  BY <1>1 DEF NumInv, RocksdbNum, Disk
<1>3. Stored(NewRocksdb.nodes, 0, 0) = EmptyTree[0]
  BY DEF NewRocksdb, Stored, Empty
<1> QED BY <1>2, <1>3 DEF DbNum

\* RocksDB, step by step.
LEMMA RocksdbNumKept ==
    ASSUME NumInv, [Next]_vars
    PROVE  RocksdbNum'
<1> USE DEF NumInv
<1>0. Grows /\ TablesNum' /\ Sealed \in Nat
  BY TablesNumKept DEF Grows
<1>1. CASE Start
  <2>1. CASE LoadTree.root = EmptyTree[0]
    <3> DEFINE t == ProcessBlock(LoadTree, logs[0])
    <3>1. rocksdb' = Append(rocksdb, Saved(t))
      BY <1>1, <2>1 DEF Start
    <3>2. LoadTree.block_number = 0
      BY <2>1, Starts DEF LoadTree, fetch_metadata
    <3>3. LogOk(logs[0])
      BY DEF LogsNum
    <3>4. t.block_number = 1 /\ <<0, 0>> \in DOMAIN t.nodes /\ t.nodes[<<0, 0>>] # EmptyTree[0]
      BY <3>2, <3>3, ProcessedNum
    <3> HIDE DEF t
    <3>5. PICK db : db = Saved(t)
      OBVIOUS
    <3>6. db.block_number = 1 /\ db.nodes = Over(t.nodes, Disk.nodes)
      BY <3>4, <3>5 DEF Saved
    <3>7. Stored(db.nodes, 0, 0) # EmptyTree[0]
      BY <3>4, <3>6, StoredOver
    <3>8. DbNum(db, Sealed', Done')
      <4>1. PICK n, d : n = Sealed' /\ d = Done'
        OBVIOUS
      <4>2. n \in Nat
        BY <1>0, <4>1 DEF Grows
      <4>3. DbNum(db, n, d)
        BY <3>6, <3>7, <4>2 DEF DbNum, AllIn
      <4> QED BY <4>1, <4>3
    <3>9. rocksdb' = Append(rocksdb, db) /\ RocksdbNum
      BY <3>1, <3>5
    <3> QED BY <1>0, <3>8, <3>9, RocksdbWritten
  <2>2. CASE LoadTree.root # EmptyTree[0]
    <3>1. rocksdb' = rocksdb
      BY <1>1, <2>2 DEF Start
    <3> QED BY <1>0, <3>1, DbNumKept DEF RocksdbNum
  <2> QED BY <2>1, <2>2
<1>2. CASE SaveTree
  <2>1. rocksdb' = Append(rocksdb, Saved(tree)) /\ pc = "save"
    BY <1>2 DEF SaveTree
  <2>2. /\ tree.block_number = batch + 1 /\ batch \in 1..Sealed /\ Complete(batch)
        /\ <<0, 0>> \in DOMAIN tree.nodes /\ tree.nodes[<<0, 0>>] # EmptyTree[0]
    BY <2>1 DEF LoopNum, Computed, Follows
  <2>3. PICK db, b : db = Saved(tree) /\ b = batch
    OBVIOUS
  <2>4. db.block_number = b + 1 /\ db.nodes = Over(tree.nodes, Disk.nodes)
    BY <2>2, <2>3 DEF Saved
  <2>5. Stored(db.nodes, 0, 0) # EmptyTree[0]
    BY <2>2, <2>4, StoredOver
  <2>6. AllIn(b, Done')
    BY <1>0, <2>2, <2>3, DoneGrows
  <2>7. DbNum(db, Sealed', Done')
    <3>1. PICK m, n, d : m = Sealed /\ n = Sealed' /\ d = Done'
      OBVIOUS
    <3>2. m \in Nat /\ n \in Nat /\ m <= n /\ b \in 1..m /\ AllIn(b, d)
      BY <1>0, <2>2, <2>3, <2>6, <3>1 DEF Grows
    <3>3. b + 1 \in 0..(n + 1) /\ (b + 1) - 1 = b /\ b + 1 # 0
      BY <3>2
    <3>4. DbNum(db, n, d)
      BY <2>4, <2>5, <3>2, <3>3 DEF DbNum
    <3> QED BY <3>1, <3>4
  <2>8. rocksdb' = Append(rocksdb, db) /\ RocksdbNum
    BY <2>1, <2>3
  <2> QED BY <1>0, <2>7, <2>8, RocksdbWritten
<1>3. CASE Crash
  <2>1. PICK n \in 1..Len(rocksdb) : rocksdb' = SubSeq(rocksdb, 1, n)
    BY <1>3 DEF Crash
  <2>2. /\ IsSeq(rocksdb') /\ Len(rocksdb') = n
        /\ \A i \in 1..n : rocksdb'[i] = rocksdb[i] /\ i \in 1..Len(rocksdb)
    BY <2>1, Shortened DEF RocksdbNum
  <2>3. ASSUME NEW i \in 1..n PROVE DbNum(rocksdb'[i], Sealed', Done')
    <3>1. DbNum(rocksdb[i], Sealed, Done)
      BY <2>2 DEF RocksdbNum
    <3>2. DbNum(rocksdb[i], Sealed', Done')
      BY <1>0, <3>1, DbNumKept
    <3> QED BY <2>2, <3>2
  <2>4. n > 0
    OBVIOUS
  <2> QED BY <2>2, <2>3, <2>4 DEF RocksdbNum
<1>4. CASE ~Start /\ ~SaveTree /\ ~Crash
  <2>1. rocksdb' = rocksdb
    BY <1>4 DEF Next, Calculator, Step, NoProgress, ProcessL1Batch, PutWitness, SaveL1BatchMetadata,
         CreateProducerJob, InsertProofGenerationDetails, SealBatch, vars
  <2> QED BY <1>0, <2>1, DbNumKept DEF RocksdbNum
<1> QED BY <1>1, <1>2, <1>3, <1>4

LEMMA IsNextKept == ASSUME Grows, NEW b, IsNext(b, Sealed, Done) PROVE IsNext(b, Sealed', Done')
<1>1. PICK m, n, d : m = Sealed /\ n = Sealed' /\ d = Done'
  OBVIOUS
<1>2. m \in Nat /\ n \in Nat /\ m <= n /\ AllIn(b - 1, d) /\ IsNext(b, m, Done)
  BY <1>1, DoneGrows DEF Grows, IsNext, Complete
<1>3. IsNext(b, n, d)
  BY <1>2 DEF IsNext
<1> QED BY <1>1, <1>3

\* Where the calculator is.
LEMMA LoopNumKept ==
    ASSUME NumInv, [Next]_vars
    PROVE  LoopNum'
<1> USE DEF NumInv
<1>0. /\ Grows /\ Sealed \in Nat /\ Sealed' \in Nat /\ Sealed <= Sealed'
      /\ DOMAIN metadata \subseteq DOMAIN metadata' /\ producer_jobs \subseteq producer_jobs'
      /\ \A b : Complete(b) => AllIn(b, Done')
      /\ \A b : IsNext(b, Sealed, Done) => IsNext(b, Sealed', Done')
      /\ \A b, c : c \in b..Sealed => c \in b..Sealed'
  <2>1. Grows /\ Sealed \in Nat /\ Sealed' \in Nat /\ Sealed <= Sealed'
    BY TablesNumKept DEF Grows
  <2>2. \A b, c : c \in b..Sealed => c \in b..Sealed'
    <3>1. PICK m, n : m = Sealed /\ n = Sealed'
      OBVIOUS
    <3>2. m \in Int /\ n \in Int /\ m <= n
      BY <2>1, <3>1
    <3>3. \A b, c : c \in b..m => c \in b..n
      BY <3>2
    <3> QED BY <3>1, <3>3
  <2> QED BY <2>1, <2>2, DoneGrows, IsNextKept DEF Grows
<1>1. CASE Start
  <2>1. pc' = "idle" /\ batch' = tree'.block_number
    BY <1>1 DEF Start
  <2>2. /\ IsNext(tree'.block_number, Sealed', Done')
        /\ <<0, 0>> \in DOMAIN tree'.nodes => tree'.nodes[<<0, 0>>] # EmptyTree[0]
    <3>1. CASE LoadTree.root = EmptyTree[0]
      <4>1. tree' = ProcessBlock(LoadTree, logs[0])
        BY <1>1, <3>1 DEF Start
      <4>2. LoadTree.block_number = 0 /\ LogOk(logs[0])
        BY <3>1, Starts DEF LoadTree, fetch_metadata, LogsNum
      <4>3. tree'.block_number = 1 /\ tree'.nodes[<<0, 0>>] # EmptyTree[0]
        BY <4>1, <4>2, ProcessedNum
      <4>4. \A n \in Nat : \A d : IsNext(1, n, d)
        BY DEF IsNext, AllIn
      <4> QED BY <1>0, <4>3, <4>4
    <3>2. CASE LoadTree.root # EmptyTree[0]
      <4>1. tree'.block_number = Disk.block_number /\ tree'.nodes = Empty /\ Disk.block_number # 0
        BY <1>1, <3>2, Starts DEF Start, LoadTree, fetch_metadata
      <4>2. IsNext(Disk.block_number, Sealed, Done)
        BY <4>1, <1>0, Starts DEF DbNum, IsNext
      <4> QED BY <1>0, <4>1, <4>2 DEF Empty
    <3> QED BY <3>1, <3>2
  <2> QED BY <2>1, <2>2 DEF LoopNum, Computed
<1>2. CASE Step
  <2>1. /\ pc = "idle" /\ pc' = "process" /\ UNCHANGED <<tree, batch>>
        /\ batch <= LastRequested /\ last' = LastRequested
    BY <1>2 DEF Step
  <2>2. LastRequested \in batch..Sealed
    <3>1. batch \in Nat
      BY <2>1, <1>0 DEF LoopNum, IsNext
    <3>2. LastRequested <= Sealed /\ LastRequested \in Int
      BY <1>0, <3>1, MetadataCalculatorAssumption DEF LastRequested
    <3> QED BY <1>0, <2>1, <3>1, <3>2
  <2>3. last' \in batch..Sealed'
    BY <1>0, <2>1, <2>2
  <2>4. /\ batch = tree.block_number /\ IsNext(batch, Sealed', Done')
        /\ <<0, 0>> \in DOMAIN tree.nodes => tree.nodes[<<0, 0>>] # EmptyTree[0]
    BY <1>0, <2>1 DEF LoopNum
  <2> QED BY <2>1, <2>3, <2>4 DEF LoopNum, Computed
<1>3. CASE ProcessL1Batch
  <2>0. CASE pc' = "start"
    BY <2>0 DEF LoopNum, Computed
  <2> SUFFICES ASSUME pc' # "start" PROVE LoopNum'
    BY <2>0
  <2>1. /\ pc = "process" /\ pc' = "put" /\ UNCHANGED <<batch, last>>
        /\ tree' = ProcessBlock(tree, logs[batch])
    BY <1>3 DEF ProcessL1Batch, Reset
  <2>2. batch = tree.block_number /\ IsNext(batch, Sealed, Done) /\ last \in batch..Sealed
    BY <1>0, <2>1 DEF LoopNum
  <2>3. batch \in 1..Sealed /\ batch \in 0..Sealed
    BY <1>0, <2>2 DEF IsNext
  <2>4. LogOk(logs[batch])
    BY <2>3 DEF LogsNum
  <2>5. /\ Follows(tree'.block_number, batch)
        /\ <<0, 0>> \in DOMAIN tree'.nodes /\ tree'.nodes[<<0, 0>>] # EmptyTree[0]
    BY <2>1, <2>2, <2>4, ProcessedNum DEF Follows
  <2>6. IsNext(batch, Sealed', Done') /\ batch \in 1..Sealed' /\ last \in batch..Sealed'
    BY <1>0, <2>2, <2>3
  <2> QED BY <2>1, <2>5, <2>6 DEF LoopNum, Computed
<1>4. CASE /\ pc \in Computed /\ pc' \in Computed /\ UNCHANGED <<tree, batch, last>>
           /\ pc' \in {"producer_job", "details"} => batch \in DOMAIN metadata'
           /\ pc' = "details" => batch \in producer_jobs'
           /\ pc' = "save" => batch = last /\ AllIn(batch, Done')
  <2>1. /\ Follows(tree.block_number, batch) /\ batch \in 1..Sealed /\ IsNext(batch, Sealed, Done)
        /\ <<0, 0>> \in DOMAIN tree.nodes /\ last \in batch..Sealed /\ tree.nodes[<<0, 0>>] # EmptyTree[0]
    BY <1>4 DEF LoopNum, Computed
  <2>2. batch \in 1..Sealed' /\ last \in batch..Sealed' /\ IsNext(batch, Sealed', Done')
    BY <1>0, <2>1
  <2>3. pc' \notin {"start", "idle", "process"}
    BY <1>4 DEF Computed
  <2> QED BY <1>4, <2>1, <2>2, <2>3 DEF LoopNum, Computed, Complete
<1>12. CASE PutWitness
  <2>1. pc = "put" /\ pc' = "metadata" /\ UNCHANGED <<tree, batch, last>>
    BY <1>12 DEF PutWitness
  <2> QED BY <1>4, <2>1 DEF Computed
<1>5. CASE SaveL1BatchMetadata
  <2>1. CASE pc' = "start"
    BY <2>1 DEF LoopNum, Computed
  <2>2. CASE pc' # "start"
    <3>1. pc = "metadata" /\ pc' = "producer_job" /\ UNCHANGED <<tree, batch, last>>
      BY <1>5, <2>2 DEF SaveL1BatchMetadata, Reset
    <3>2. batch \in DOMAIN metadata'
      BY <1>5 DEF SaveL1BatchMetadata, Put
    <3> QED BY <1>4, <3>1, <3>2 DEF Computed
  <2> QED BY <2>1, <2>2
<1>6. CASE CreateProducerJob
  <2>1. /\ pc = "producer_job" /\ pc' = "details" /\ UNCHANGED <<metadata, tree, batch, last>>
        /\ batch \in producer_jobs'
    BY <1>6 DEF CreateProducerJob
  <2>2. batch \in DOMAIN metadata'
    BY <2>1 DEF LoopNum
  <2> QED BY <1>4, <2>1, <2>2 DEF Computed
<1>7. CASE InsertProofGenerationDetails
  <2>1. /\ pc = "details" /\ details' = details \cup {batch} /\ UNCHANGED <<metadata, producer_jobs, tree, last>>
    BY <1>7 DEF InsertProofGenerationDetails
  <2>2. /\ Follows(tree.block_number, batch) /\ batch \in 1..Sealed /\ IsNext(batch, Sealed, Done)
        /\ last \in batch..Sealed /\ batch \in DOMAIN metadata /\ batch \in producer_jobs
        /\ <<0, 0>> \in DOMAIN tree.nodes /\ tree.nodes[<<0, 0>>] # EmptyTree[0]
    BY <2>1 DEF LoopNum, Computed
  <2>3. AllIn(batch, Done')
    <3>1. AllIn(batch - 1, Done') /\ batch \in Done'
      BY <1>0, <2>1, <2>2 DEF Done, IsNext
    <3> QED BY <2>2, <3>1 DEF AllIn
  <2>4. CASE batch < last
    <3>1. Follows(batch', batch) /\ pc' = "process"
      BY <1>7, <2>4 DEF InsertProofGenerationDetails, Follows
    <3>2. PICK m, n, d, x : m = Sealed /\ n = Sealed' /\ d = Done' /\ x = batch'
      OBVIOUS
    <3>3. /\ m \in Nat /\ n \in Nat /\ m <= n /\ batch \in 1..m /\ last \in batch..m
          /\ x = batch + 1 /\ AllIn(batch, d)
      BY <1>0, <2>2, <2>3, <3>1, <3>2 DEF Follows
    <3>4. x = tree.block_number /\ x \in 1..(n + 1) /\ x - 1 = batch /\ last \in x..n
      BY <2>2, <2>4, <3>3 DEF Follows
    <3>5. IsNext(x, n, d)
      BY <3>3, <3>4 DEF IsNext
    <3>6. IsNext(batch', Sealed', Done') /\ last \in (batch')..Sealed' /\ batch' = tree.block_number
      BY <3>2, <3>4, <3>5
    <3> QED BY <2>1, <2>2, <3>1, <3>6 DEF LoopNum, Computed
  <2>5. CASE ~ (batch < last)
    <3>1. batch' = batch /\ pc' = "save" /\ batch = last
      BY <1>7, <2>2, <2>5 DEF InsertProofGenerationDetails
    <3> QED BY <1>4, <2>1, <2>3, <3>1 DEF Computed
  <2> QED BY <2>4, <2>5
<1>8. CASE SaveTree
  <2>1. pc = "save" /\ pc' = "idle" /\ batch' = last + 1 /\ UNCHANGED tree
    BY <1>8 DEF SaveTree
  <2>2. /\ Follows(tree.block_number, batch) /\ batch \in 1..Sealed /\ batch = last /\ Complete(batch)
        /\ <<0, 0>> \in DOMAIN tree.nodes => tree.nodes[<<0, 0>>] # EmptyTree[0]
    BY <2>1 DEF LoopNum, Computed
  <2>3. batch' = tree.block_number /\ IsNext(batch', Sealed', Done')
    <3>1. PICK m, n, d, x : m = Sealed /\ n = Sealed' /\ d = Done' /\ x = batch'
      OBVIOUS
    <3>2. m \in Nat /\ n \in Nat /\ m <= n /\ batch \in 1..m /\ x = batch + 1 /\ AllIn(batch, d)
      BY <1>0, <2>1, <2>2, <3>1
    <3>3. x = tree.block_number /\ x \in 1..(n + 1) /\ x - 1 = batch
      BY <2>2, <3>2 DEF Follows
    <3>4. IsNext(x, n, d)
      BY <3>2, <3>3 DEF IsNext
    <3> QED BY <3>1, <3>3, <3>4
  <2> QED BY <2>1, <2>2, <2>3 DEF LoopNum, Computed
<1>9. CASE Crash
  BY <1>9 DEF Crash, Reset, LoopNum, Computed
<1>10. CASE UNCHANGED <<tree, pc, batch, last>>
  <2>1. /\ pc \in {"idle", "process"} => IsNext(batch, Sealed', Done')
        /\ pc \in Computed => batch \in 1..Sealed' /\ IsNext(batch, Sealed', Done')
        /\ pc \in Computed \cup {"process"} => last \in batch..Sealed'
        /\ pc \in {"producer_job", "details"} => batch \in DOMAIN metadata'
        /\ pc = "details" => batch \in producer_jobs'
        /\ pc = "save" => AllIn(batch, Done')
    BY <1>0 DEF LoopNum
  <2> QED BY <1>10, <2>1 DEF LoopNum, Complete
<1>11. NoProgress \/ SealBatch \/ UNCHANGED vars => UNCHANGED <<tree, pc, batch, last>>
  BY DEF NoProgress, SealBatch, vars
<1> QED BY <1>1, <1>2, <1>3, <1>5, <1>6, <1>7, <1>8, <1>9, <1>10, <1>11, <1>12 DEF Next, Calculator

\* The numbers are right in every behaviour, however many batches an iteration has.
LEMMA NumInvariant == Spec => []NumInv
<1>1. NumInv /\ [Next]_vars => NumInv'
  BY LogsNumKept, TablesNumKept, RocksdbNumKept, LoopNumKept DEF NumInv
<1> QED BY <1>1, NumInit, PTL DEF Spec

-----------------------------------------------------------------------------
(* Torn witnesses: only of batches that no saved tree counts. *)

Sorted(dbs) == \A i, j \in 1..Len(dbs) : i <= j => dbs[i].block_number <= dbs[j].block_number

\* Batch c is torn: it is not before the current one, and either it is being
\* written or there was a crash.
IsTorn(c, p, b) ==
    /\ p # "start" => c >= b
    /\ p \in Computed => p = "put" \/ c # b

WitnessNum ==
    /\ DOMAIN witness \subseteq 1..Sealed /\ torn \subseteq 1..Sealed
    /\ details \subseteq DOMAIN witness \cup torn
    /\ pc \in Computed => pc = "put" \/ batch \in DOMAIN witness

TornInv ==
    /\ crashes \in Nat /\ Sorted(rocksdb)
    /\ WitnessNum
    /\ pc # "start" => batch >= Disk.block_number
    /\ \A c \in torn : /\ c >= Disk.block_number /\ IsTorn(c, pc, batch)
                       /\ crashes # 0 \/ (pc = "put" /\ c = batch)

\* A state more of RocksDB, which counts no fewer batches.
LEMMA SortedMore ==
    ASSUME NEW dbs, IsSeq(dbs), Len(dbs) > 0, Sorted(dbs), NEW db, db.block_number \in Int,
           \A i \in 1..Len(dbs) : dbs[i].block_number \in Int,
           dbs[Len(dbs)].block_number <= db.block_number
    PROVE  Sorted(Append(dbs, db))
<1>1. PICK s, n : s = Append(dbs, db) /\ n = Len(dbs)
  OBVIOUS
<1>2. /\ n \in Nat /\ n > 0 /\ Len(s) = n + 1 /\ s[n + 1] = db
      /\ \A i \in 1..n : s[i] = dbs[i] /\ s[i].block_number \in Int
  BY <1>1, Appended
<1>3. \A i, j \in 1..n : i <= j => s[i].block_number <= s[j].block_number
  BY <1>1, <1>2 DEF Sorted
<1>4. s[n].block_number <= db.block_number /\ n \in 1..n
  BY <1>1, <1>2
<1>5. ASSUME NEW i \in 1..(n + 1), NEW j \in 1..(n + 1), i <= j
      PROVE  s[i].block_number <= s[j].block_number
  <2>1. CASE j \in 1..n
    <3>1. i \in 1..n
      BY <1>2, <1>5, <2>1
    <3> QED BY <1>3, <1>5, <2>1, <3>1
  <2>2. CASE j = n + 1 /\ i \in 1..n
    <3>1. i <= n /\ s[i].block_number <= s[n].block_number /\ s[i].block_number \in Int
      BY <1>2, <1>3, <1>4, <2>2
    <3>2. s[n].block_number \in Int
      BY <1>2, <1>4
    <3> QED BY <1>2, <1>4, <2>2, <3>1, <3>2
  <2>3. CASE j = n + 1 /\ i = n + 1
    BY <1>2, <2>3
  <2> QED BY <1>2, <2>1, <2>2, <2>3
<1> QED BY <1>1, <1>2, <1>5 DEF Sorted

\* Batch numbers of RocksDB's states.
LEMMA DbNumbers ==
    ASSUME NumInv
    PROVE  /\ Len(rocksdb) \in 1..Len(rocksdb) /\ IsSeq(rocksdb) /\ Len(rocksdb) > 0
           /\ \A i \in 1..Len(rocksdb) : rocksdb[i].block_number \in Nat
           /\ Disk.block_number \in Nat
<1>1. IsSeq(rocksdb) /\ Len(rocksdb) > 0 /\ Len(rocksdb) \in 1..Len(rocksdb)
  BY Appended DEF NumInv, RocksdbNum
<1>2. \A i \in 1..Len(rocksdb) : rocksdb[i].block_number \in Nat
  BY DEF NumInv, RocksdbNum, DbNum, LogsNum
<1> QED BY <1>1, <1>2 DEF Disk

\* What RocksDB counts, step by step.
LEMMA SortedKept ==
    ASSUME NumInv, TornInv, [Next]_vars
    PROVE  /\ Sorted(rocksdb')
           /\ Crash => Disk'.block_number <= Disk.block_number
           /\ Start => /\ batch' = Disk'.block_number
                       /\ Disk'.block_number = Disk.block_number \/ Disk'.block_number = 1
           /\ SaveTree => batch' = Disk'.block_number /\ Disk'.block_number = batch + 1
           /\ ~Crash /\ ~Start /\ ~SaveTree => rocksdb' = rocksdb /\ Disk' = Disk
<1>0. /\ Sorted(rocksdb) /\ IsSeq(rocksdb) /\ Len(rocksdb) > 0 /\ Len(rocksdb) \in 1..Len(rocksdb)
      /\ \A i \in 1..Len(rocksdb) : rocksdb[i].block_number \in Nat
      /\ Disk.block_number \in Nat /\ Disk = rocksdb[Len(rocksdb)]
  BY DbNumbers DEF TornInv, Disk
<1>1. ASSUME NEW db, db.block_number \in Int, Disk.block_number <= db.block_number, rocksdb' = Append(rocksdb, db)
      PROVE  Sorted(rocksdb') /\ Disk' = db
  <2>1. Sorted(Append(rocksdb, db))
    BY <1>0, <1>1, SortedMore
  <2>2. Append(rocksdb, db)[Len(rocksdb) + 1] = db /\ Len(Append(rocksdb, db)) = Len(rocksdb) + 1
    BY <1>0, Appended
  <2> QED BY <1>1, <2>1, <2>2 DEF Disk
<1>2. CASE Start /\ LoadTree.root = EmptyTree[0]
  <2>1. PICK t : t = ProcessBlock(LoadTree, logs[0])
    OBVIOUS
  <2>2. rocksdb' = Append(rocksdb, Saved(t)) /\ batch' = t.block_number /\ pc = "start" /\ pc' = "idle"
    BY <1>2, <2>1 DEF Start
  <2>3. LoadTree.block_number = 0 /\ Disk.block_number = 0 /\ LogOk(logs[0])
    BY <1>2, Starts DEF LoadTree, fetch_metadata, NumInv, LogsNum
  <2>4. t.block_number = 1
    BY <2>1, <2>3, ProcessedNum
  <2>5. PICK db : db = Saved(t)
    OBVIOUS
  <2>6. db.block_number = 1
    BY <2>4, <2>5 DEF Saved
  <2>7. Sorted(rocksdb') /\ Disk' = db
    BY <1>1, <2>2, <2>3, <2>5, <2>6
  <2>8. ~Crash /\ ~SaveTree
    BY <2>2 DEF Crash, Reset, SaveTree
  <2> QED BY <1>2, <2>2, <2>4, <2>6, <2>7, <2>8
<1>3. CASE Start /\ LoadTree.root # EmptyTree[0]
  <2>1. rocksdb' = rocksdb /\ batch' = Disk.block_number /\ pc = "start" /\ pc' = "idle"
    BY <1>3 DEF Start, LoadTree, fetch_metadata
  <2>2. Disk' = Disk /\ ~Crash /\ ~SaveTree
    BY <2>1 DEF Disk, Crash, Reset, SaveTree
  <2> QED BY <1>0, <1>3, <2>1, <2>2
<1>4. CASE SaveTree
  <2>1. /\ pc = "save" /\ pc' = "idle" /\ rocksdb' = Append(rocksdb, Saved(tree)) /\ batch' = last + 1
    BY <1>4 DEF SaveTree
  <2>2. tree.block_number = batch + 1 /\ batch = last /\ batch \in Nat
    BY <2>1 DEF NumInv, LoopNum, LogsNum, Computed, Follows
  <2>3. PICK db : db = Saved(tree)
    OBVIOUS
  <2>4. db.block_number = batch + 1
    BY <2>2, <2>3 DEF Saved
  <2>5. Disk.block_number <= batch + 1
    BY <1>0, <2>1, <2>2 DEF TornInv
  <2>6. Sorted(rocksdb') /\ Disk' = db
    BY <1>1, <2>1, <2>2, <2>3, <2>4, <2>5
  <2>7. ~Crash /\ ~Start
    BY <2>1 DEF Crash, Reset, Start
  <2> QED BY <1>4, <2>1, <2>2, <2>4, <2>6, <2>7
<1>5. CASE Crash
  <2>1. PICK n \in 1..Len(rocksdb) : rocksdb' = SubSeq(rocksdb, 1, n)
    BY <1>5 DEF Crash
  <2>2. /\ IsSeq(rocksdb') /\ Len(rocksdb') = n
        /\ \A i \in 1..n : rocksdb'[i] = rocksdb[i] /\ i \in 1..Len(rocksdb)
    BY <1>0, <2>1, Shortened
  <2>3. Sorted(rocksdb')
    BY <1>0, <2>2 DEF Sorted
  <2>4. n \in 1..n /\ n <= Len(rocksdb)
    BY <1>0
  <2>5. Disk' = rocksdb[n] /\ rocksdb[n].block_number <= rocksdb[Len(rocksdb)].block_number
    BY <1>0, <2>2, <2>4 DEF Disk, Sorted
  <2>6. ~Start /\ ~SaveTree
    BY <1>5 DEF Crash, Reset, Start, SaveTree
  <2> QED BY <1>0, <1>5, <2>3, <2>5, <2>6
<1>6. CASE ~Start /\ ~SaveTree /\ ~Crash
  <2>1. rocksdb' = rocksdb
    BY <1>6 DEF Next, Calculator, Step, NoProgress, ProcessL1Batch, PutWitness, SaveL1BatchMetadata,
         CreateProducerJob, InsertProofGenerationDetails, SealBatch, vars
  <2> QED BY <1>0, <1>6, <2>1 DEF Disk
<1> QED BY <1>2, <1>3, <1>4, <1>5, <1>6

LEMMA TornInit == Init => TornInv
<1> SUFFICES ASSUME Init PROVE TornInv
  OBVIOUS
<1>1. rocksdb = <<NewRocksdb>> /\ DOMAIN witness = {} /\ torn = {} /\ details = {} /\ pc = "start" /\ crashes = 0
  BY DEF Init, Empty
<1>2. Len(rocksdb) = 1 /\ rocksdb[1].block_number = 0
  BY <1>1 DEF NewRocksdb
<1>3. Sorted(rocksdb)
  BY <1>2 DEF Sorted
<1> QED BY <1>1, <1>3 DEF TornInv, WitnessNum, Computed

\* The files and the tables, step by step.
LEMMA WitnessNumKept ==
    ASSUME NumInv, TornInv, [Next]_vars
    PROVE  WitnessNum'
<1> USE DEF NumInv
<1>0. DOMAIN witness \subseteq 1..Sealed' /\ torn \subseteq 1..Sealed' /\ Sealed \in Nat /\ 1..Sealed \subseteq 1..Sealed'
  <2>1. Sealed \in Nat /\ Sealed' \in Nat /\ Sealed <= Sealed'
    BY LogsNumKept DEF LogsNum
  <2> QED BY <2>1 DEF TornInv, WitnessNum
<1>1. details \subseteq DOMAIN witness \cup torn /\ (pc \in Computed => pc = "put" \/ batch \in DOMAIN witness)
  BY DEF TornInv, WitnessNum
<1>2. CASE ProcessL1Batch /\ pc' # "start"
  <2>1. /\ pc = "process" /\ pc' = "put" /\ torn' = torn \cup {batch} /\ UNCHANGED <<details, batch>>
        /\ witness' = [b \in DOMAIN witness \ {batch} |-> witness[b]]
    BY <1>2 DEF ProcessL1Batch, Reset
  <2>2. IsNext(batch, Sealed, Done) /\ last \in batch..Sealed
    BY <2>1 DEF LoopNum
  <2>3. batch \in 1..Sealed
    BY <1>0, <2>2 DEF IsNext
  <2> QED BY <1>0, <1>1, <2>1, <2>3 DEF WitnessNum
<1>3. CASE PutWitness
  <2>1. /\ pc = "put" /\ pc' = "metadata" /\ torn' = torn \ {batch} /\ UNCHANGED <<details, batch>>
        /\ DOMAIN witness' = DOMAIN witness \cup {batch}
    BY <1>3 DEF PutWitness, Put
  <2>2. batch \in 1..Sealed
    BY <2>1 DEF LoopNum, Computed
  <2> QED BY <1>0, <1>1, <2>1, <2>2 DEF WitnessNum
<1>4. CASE SaveL1BatchMetadata \/ CreateProducerJob
  <2>1. /\ UNCHANGED <<witness, torn, details>> /\ pc \in Computed /\ pc # "put"
        /\ pc' = "start" \/ batch' = batch
    BY <1>4 DEF SaveL1BatchMetadata, CreateProducerJob, Reset, Computed
  <2> QED BY <1>0, <1>1, <2>1 DEF WitnessNum, Computed
<1>5. CASE InsertProofGenerationDetails
  <2>1. /\ UNCHANGED <<witness, torn>> /\ pc \in Computed /\ pc # "put" /\ details' = details \cup {batch}
        /\ pc' = "process" \/ batch' = batch
    BY <1>5 DEF InsertProofGenerationDetails, Computed
  <2> QED BY <1>0, <1>1, <2>1 DEF WitnessNum, Computed
<1>6. CASE Start \/ Step \/ SaveTree \/ Crash \/ (ProcessL1Batch /\ pc' = "start")
  <2>1. UNCHANGED <<witness, torn, details>> /\ pc' \notin Computed
    BY <1>6 DEF Start, Step, SaveTree, Crash, Reset, ProcessL1Batch, Computed, storedVars
  <2> QED BY <1>0, <1>1, <2>1 DEF WitnessNum
<1>7. CASE NoProgress \/ SealBatch \/ UNCHANGED vars
  <2>1. UNCHANGED <<witness, torn, details, pc, batch>>
    BY <1>7 DEF NoProgress, SealBatch, storedVars, vars
  <2> QED BY <1>0, <1>1, <2>1 DEF WitnessNum
<1> QED BY <1>2, <1>3, <1>4, <1>5, <1>6, <1>7 DEF Next, Calculator

\* The torn files, step by step.
LEMMA TornKept ==
    ASSUME NumInv, TornInv, [Next]_vars
    PROVE  TornInv'
<1> USE DEF NumInv
<1>0. /\ Sorted(rocksdb') /\ WitnessNum' /\ crashes \in Nat /\ crashes' \in Nat /\ Disk.block_number \in Nat /\ Sealed \in Nat
      /\ torn \subseteq 1..Sealed
      /\ \A c \in torn : /\ c \in Nat /\ c >= 1 /\ c >= Disk.block_number /\ IsTorn(c, pc, batch)
                         /\ crashes # 0 \/ (pc = "put" /\ c = batch)
      /\ pc # "start" => batch >= Disk.block_number /\ batch \in Nat
  <2>1. torn \subseteq 1..Sealed /\ Sealed \in Nat
    BY DEF TornInv, WitnessNum, LogsNum
  <2>2. pc # "start" => batch \in Nat
    BY <2>1 DEF LoopNum, IsNext, Computed
  <2>3. crashes \in Nat /\ (crashes' = crashes \/ crashes' = crashes + 1)
    BY DEF TornInv, Next, Calculator, Start, Step, NoProgress, ProcessL1Batch, PutWitness, SaveL1BatchMetadata,
       CreateProducerJob, InsertProofGenerationDetails, SaveTree, SealBatch, Crash, vars
  <2>4. crashes' \in Nat
    BY <2>3
  <2> QED BY <2>1, <2>2, <2>3, <2>4, SortedKept, WitnessNumKept, DbNumbers DEF TornInv
<1> SUFFICES /\ pc' # "start" => batch' >= Disk'.block_number
             /\ \A c \in torn' : /\ c >= Disk'.block_number /\ IsTorn(c, pc', batch')
                                 /\ crashes' # 0 \/ (pc' = "put" /\ c = batch')
  BY <1>0 DEF TornInv
<1>1. CASE Start
  <2>1. /\ pc = "start" /\ pc' = "idle" /\ UNCHANGED <<torn, crashes>>
        /\ batch' = Disk'.block_number /\ (Disk'.block_number = Disk.block_number \/ Disk'.block_number = 1)
    BY <1>1, SortedKept DEF Start, storedVars
  <2> QED BY <1>0, <2>1 DEF IsTorn, Computed
<1>2. CASE SaveTree
  <2>1. /\ pc = "save" /\ pc' = "idle" /\ UNCHANGED <<torn, crashes>>
        /\ batch' = Disk'.block_number /\ Disk'.block_number = batch + 1
    BY <1>2, SortedKept DEF SaveTree, storedVars
  <2>2. batch \in Nat /\ \A c \in torn : c >= batch /\ c # batch
    BY <1>0, <2>1 DEF IsTorn, Computed
  <2>3. \A c \in torn : c >= batch + 1
    BY <1>0, <2>2
  <2> QED BY <1>0, <2>1, <2>2, <2>3 DEF IsTorn, Computed
<1>3. CASE Crash
  <2>1. /\ pc' = "start" /\ torn' = torn /\ crashes' = crashes + 1 /\ Disk'.block_number <= Disk.block_number
    BY <1>3, SortedKept DEF Crash, Reset, storedVars
  <2>2. crashes' # 0
    BY <1>0, <2>1
  <2>3. Disk'.block_number \in Nat
    <3>1. RocksdbNum' /\ LogsNum'
      BY RocksdbNumKept, LogsNumKept
    <3>2. PICK dbs, n, d : dbs = rocksdb' /\ n = Sealed' /\ d = Done'
      OBVIOUS
    <3>3. n \in Nat /\ IsSeq(dbs) /\ Len(dbs) > 0 /\ \A i \in 1..Len(dbs) : DbNum(dbs[i], n, d)
      BY <3>1, <3>2 DEF RocksdbNum, LogsNum
    <3>4. Len(dbs) \in 1..Len(dbs)
      BY <3>3, Appended
    <3>5. dbs[Len(dbs)].block_number \in Nat
      BY <3>3, <3>4 DEF DbNum
    <3> QED BY <3>2, <3>5 DEF Disk
  <2> QED BY <1>0, <2>1, <2>2, <2>3 DEF IsTorn, Computed
<1>4. ASSUME ~Crash, ~Start, ~SaveTree PROVE Disk' = Disk
  BY <1>4, SortedKept
<1>5. CASE Step \/ NoProgress \/ SealBatch \/ UNCHANGED vars
  <2>1. /\ UNCHANGED <<torn, crashes, batch>> /\ Disk' = Disk
        /\ pc' = pc \/ (pc = "idle" /\ pc' = "process")
    BY <1>5 DEF Step, NoProgress, SealBatch, storedVars, vars, Disk
  <2> QED BY <1>0, <2>1 DEF IsTorn, Computed
<1>6. CASE ProcessL1Batch
  <2>1. /\ pc = "process" /\ Disk' = Disk /\ crashes' = crashes
        /\ (pc' = "start" /\ torn' = torn) \/ (pc' = "put" /\ torn' = torn \cup {batch} /\ batch' = batch)
    BY <1>6 DEF ProcessL1Batch, Reset, Disk
  <2>2. CASE pc' = "start" /\ torn' = torn
    BY <1>0, <2>1, <2>2 DEF IsTorn, Computed
  <2>3. CASE pc' = "put" /\ torn' = torn \cup {batch} /\ batch' = batch
    <3>1. \A c \in torn : c >= batch /\ crashes # 0
      BY <1>0, <2>1 DEF IsTorn
    <3>2. batch \in Nat /\ batch >= Disk.block_number
      BY <1>0, <2>1
    <3>3. \A c \in torn' : c >= batch /\ c >= Disk.block_number /\ (crashes # 0 \/ c = batch)
      BY <1>0, <2>3, <3>1, <3>2
    <3> QED BY <2>1, <2>3, <3>2, <3>3 DEF IsTorn
  <2> QED BY <2>1, <2>2, <2>3
<1>7. CASE PutWitness
  <2>1. /\ pc = "put" /\ pc' = "metadata" /\ Disk' = Disk /\ UNCHANGED <<crashes, batch>>
        /\ torn' = torn \ {batch}
    BY <1>7 DEF PutWitness, Disk
  <2> QED BY <1>0, <2>1 DEF IsTorn, Computed
<1>8. CASE SaveL1BatchMetadata \/ CreateProducerJob
  <2>1. /\ pc \in {"metadata", "producer_job"} /\ Disk' = Disk /\ UNCHANGED <<crashes, torn>>
        /\ pc' = "start" \/ (pc' \in {"producer_job", "details"} /\ batch' = batch)
    BY <1>8 DEF SaveL1BatchMetadata, CreateProducerJob, Reset, Disk
  <2> QED BY <1>0, <2>1 DEF IsTorn, Computed
<1>9. CASE InsertProofGenerationDetails
  <2>1. /\ pc = "details" /\ Disk' = Disk /\ UNCHANGED <<crashes, torn>>
        /\ (pc' = "process" /\ batch' = batch + 1) \/ (pc' = "save" /\ batch' = batch)
    BY <1>9 DEF InsertProofGenerationDetails, Disk
  <2>2. batch \in Nat /\ \A c \in torn : c >= batch /\ c # batch
    BY <1>0, <2>1 DEF IsTorn, Computed
  <2>3. \A c \in torn : c >= batch + 1
    BY <1>0, <2>2
  <2> QED BY <1>0, <2>1, <2>2, <2>3 DEF IsTorn, Computed
<1> QED BY <1>1, <1>2, <1>3, <1>5, <1>6, <1>7, <1>8, <1>9 DEF Next, Calculator

-----------------------------------------------------------------------------
(* A calculator that keeps up. *)

\* No iteration has more than one batch.
KeepsUp == pc \in Computed \cup {"process"} => last = batch

\* The batch after the last one that has metadata.
Lead(p, b) == IF p = "start" THEN 1 ELSE IF p \in {"producer_job", "details", "save"} THEN b + 1 ELSE b

\* Before the first crash the sequencer is at most one batch ahead.
FreshInv ==
    /\ crashes = 0 => /\ pc = "start" => Disk.block_number = 0
                      /\ Sealed <= Lead(pc, batch)
                      /\ \A b \in DOMAIN metadata : b < Lead(pc, batch)
    /\ crashes = 0 \/ MaxBatchesPerIter = 1 => KeepsUp

LEMMA FreshInit == Init => FreshInv
<1> SUFFICES ASSUME Init PROVE FreshInv
  OBVIOUS
<1>1. /\ rocksdb = <<NewRocksdb>> /\ pc = "start" /\ DOMAIN metadata = {0} /\ DOMAIN logs = {0}
  BY DEF Init
<1>2. Disk.block_number = 0
  BY <1>1 DEF Disk, NewRocksdb
<1>3. Sealed = 0
  BY <1>1, MaxIs DEF Sealed
<1> QED BY <1>1, <1>2, <1>3 DEF FreshInv, Lead, KeepsUp, Computed

\* A step of the calculator before the first crash.
LEMMA FreshKept ==
    ASSUME NumInv, TornInv, FreshInv, [Next]_vars
    PROVE  FreshInv'
<1> USE DEF NumInv
<1>0. /\ crashes \in Nat /\ Sealed \in Nat /\ DOMAIN metadata \subseteq 0..Sealed
      /\ pc # "start" => batch \in Nat
      /\ crashes = 0 \/ MaxBatchesPerIter = 1 => KeepsUp
  <2>1. Sealed \in Nat
    BY DEF LogsNum
  <2>2. pc # "start" => batch \in Nat
    BY <2>1 DEF LoopNum, IsNext, Computed
  <2> QED BY <2>1, <2>2 DEF TornInv, FreshInv, TablesNum
<1>1. CASE Crash
  <2>1. crashes' = crashes + 1 /\ pc' = "start"
    BY <1>1 DEF Crash, Reset
  <2> QED BY <1>0, <2>1 DEF FreshInv, KeepsUp, Computed
<1>2. CASE SealBatch
  <2>1. /\ Sealed \in DOMAIN metadata /\ UNCHANGED <<metadata, rocksdb, pc, batch, last, crashes>>
    BY <1>2 DEF SealBatch, storedVars
  <2>2. Sealed' = Sealed + 1
    BY <1>2, SealedNext
  <2>3. Disk' = Disk /\ KeepsUp' = KeepsUp
    BY <2>1 DEF Disk, KeepsUp
  <2>4. Lead(pc, batch) \in Nat
    BY <1>0 DEF Lead
  <2>5. crashes = 0 => Sealed + 1 <= Lead(pc, batch)
    BY <1>0, <2>1, <2>4 DEF FreshInv
  <2> QED BY <2>1, <2>2, <2>3, <2>5 DEF FreshInv
<1>3. ASSUME ~SealBatch PROVE logs' = logs /\ Sealed' = Sealed
  <2>1. logs' = logs
    BY <1>3 DEF Next, Calculator, Start, Step, NoProgress, ProcessL1Batch, PutWitness, SaveL1BatchMetadata,
         CreateProducerJob, InsertProofGenerationDetails, SaveTree, Crash, vars
  <2> QED BY <2>1 DEF Sealed
<1>4. CASE Start
  <2>1. /\ pc = "start" /\ pc' = "idle" /\ UNCHANGED <<metadata, crashes>> /\ Sealed' = Sealed
    BY <1>3, <1>4 DEF Start, SealBatch, storedVars
  <2>2. crashes = 0 => batch' = 1
    <3>1. CASE crashes = 0
      <4>1. Disk.block_number = 0
        BY <2>1, <3>1 DEF FreshInv
      <4>2. LoadTree.root = EmptyTree[0] /\ LoadTree.block_number = 0 /\ LogOk(logs[0])
        BY <4>1, Starts DEF LoadTree, fetch_metadata, LogsNum
      <4>3. tree' = ProcessBlock(LoadTree, logs[0]) /\ batch' = tree'.block_number
        BY <1>4, <4>2 DEF Start
      <4> QED BY <4>2, <4>3, ProcessedNum
    <3> QED BY <3>1
  <2> QED BY <1>0, <2>1, <2>2 DEF FreshInv, Lead, KeepsUp, Computed
<1>5. CASE Step
  <2>1. /\ pc = "idle" /\ pc' = "process" /\ UNCHANGED <<metadata, crashes, batch>> /\ Sealed' = Sealed
        /\ batch <= LastRequested /\ last' = LastRequested
    BY <1>3, <1>5 DEF Step, SealBatch, storedVars
  <2>2. crashes = 0 => Sealed <= batch
    BY <2>1 DEF FreshInv, Lead
  <2>3. crashes = 0 \/ MaxBatchesPerIter = 1 => last' = batch
    BY <1>0, <2>1, <2>2, MetadataCalculatorAssumption DEF LastRequested
  <2> QED BY <1>0, <2>1, <2>2, <2>3 DEF FreshInv, Lead, KeepsUp
<1>6. CASE ProcessL1Batch
  <2>1. /\ pc = "process" /\ UNCHANGED <<metadata, crashes>> /\ Sealed' = Sealed
        /\ (pc' = "put" /\ UNCHANGED <<batch, last>>) \/ (pc' = "start" /\ batch \in torn)
    BY <1>3, <1>6 DEF ProcessL1Batch, SealBatch, Reset
  <2>2. crashes = 0 => pc' # "start"
    BY <2>1 DEF TornInv
  <2> QED BY <1>0, <2>1, <2>2 DEF FreshInv, Lead, KeepsUp, Computed
<1>7. CASE PutWitness
  <2>1. /\ pc = "put" /\ pc' = "metadata" /\ UNCHANGED <<metadata, crashes, batch, last>> /\ Sealed' = Sealed
    BY <1>3, <1>7 DEF PutWitness, SealBatch
  <2> QED BY <1>0, <2>1 DEF FreshInv, Lead, KeepsUp, Computed
<1>8. CASE SaveL1BatchMetadata
  <2>1. /\ pc = "metadata" /\ crashes' = crashes /\ Sealed' = Sealed
        /\ \/ pc' = "start" /\ batch \in DOMAIN metadata
           \/ /\ pc' = "producer_job" /\ UNCHANGED <<batch, last>>
              /\ DOMAIN metadata' \subseteq DOMAIN metadata \cup {batch}
    BY <1>3, <1>8 DEF SaveL1BatchMetadata, SealBatch, Reset, Put
  <2>2. crashes = 0 => Sealed <= batch /\ \A b \in DOMAIN metadata : b < batch
    BY <2>1 DEF FreshInv, Lead
  <2>3. crashes = 0 => pc' # "start"
    BY <1>0, <2>1, <2>2
  <2>4. CASE pc' = "start"
    BY <1>0, <2>1, <2>3, <2>4 DEF FreshInv, KeepsUp, Computed
  <2>5. CASE pc' # "start"
    <3>1. Lead(pc', batch') = batch + 1 /\ batch \in Nat
      BY <1>0, <2>1, <2>5 DEF Lead
    <3>2. crashes = 0 => Sealed <= batch + 1 /\ \A b \in DOMAIN metadata' : b < batch + 1
      BY <1>0, <2>1, <2>2, <2>5, <3>1
    <3> QED BY <1>0, <2>1, <2>5, <3>1, <3>2 DEF FreshInv, KeepsUp, Computed
  <2> QED BY <2>4, <2>5
<1>9. CASE CreateProducerJob
  <2>1. /\ pc = "producer_job" /\ pc' = "details" /\ UNCHANGED <<metadata, crashes, batch, last>> /\ Sealed' = Sealed
    BY <1>3, <1>9 DEF CreateProducerJob, SealBatch
  <2> QED BY <1>0, <2>1 DEF FreshInv, Lead, KeepsUp, Computed
<1>10. CASE InsertProofGenerationDetails
  <2>1. /\ pc = "details" /\ UNCHANGED <<metadata, crashes, last>> /\ Sealed' = Sealed
        /\ (pc' = "process" /\ batch < last) \/ (pc' = "save" /\ batch' = batch)
    BY <1>3, <1>10 DEF InsertProofGenerationDetails, SealBatch
  <2>2. crashes = 0 \/ MaxBatchesPerIter = 1 => pc' = "save" /\ last = batch
    BY <1>0, <2>1 DEF KeepsUp, Computed
  <2> QED BY <1>0, <2>1, <2>2 DEF FreshInv, Lead, KeepsUp
<1>11. CASE SaveTree
  <2>1. /\ pc = "save" /\ pc' = "idle" /\ UNCHANGED <<metadata, crashes>> /\ Sealed' = Sealed /\ batch' = last + 1
    BY <1>3, <1>11 DEF SaveTree, SealBatch, storedVars
  <2>2. last = batch
    BY <2>1 DEF LoopNum
  <2> QED BY <1>0, <2>1, <2>2 DEF FreshInv, Lead, KeepsUp, Computed
<1>12. CASE NoProgress \/ UNCHANGED vars
  <2>1. UNCHANGED <<logs, metadata, rocksdb, pc, batch, last, crashes>>
    BY <1>12 DEF NoProgress, vars, storedVars
  <2>2. Sealed' = Sealed /\ Disk' = Disk
    BY <2>1 DEF Sealed, Disk
  <2> QED BY <2>1, <2>2 DEF FreshInv, KeepsUp
<1> QED BY <1>1, <1>2, <1>4, <1>5, <1>6, <1>7, <1>8, <1>9, <1>10, <1>11, <1>12 DEF Next, Calculator

\* The numbers are right in every behaviour, however many batches an iteration has.
LEMMA TornInvariant == Spec => [](NumInv /\ TornInv /\ FreshInv)
<1>1. NumInv /\ TornInv /\ FreshInv /\ [Next]_vars => TornInv' /\ FreshInv'
  BY TornKept, FreshKept
<1> QED BY <1>1, NumInvariant, TornInit, FreshInit, PTL DEF Spec

\* No iteration of the calculator has more than one batch before the first
\* crash, whatever max_l1_batches_per_iter is: the sequencer opens a batch only
\* when its predecessor has a root hash.  With one batch per iteration this is
\* so after crashes as well.
THEOREM KeepsUpUnlessReplaying == Spec => [](crashes = 0 \/ MaxBatchesPerIter = 1 => KeepsUp)
<1>1. FreshInv => (crashes = 0 \/ MaxBatchesPerIter = 1 => KeepsUp)
  BY DEF FreshInv
<1> QED BY <1>1, TornInvariant, PTL

\* The calculator never processes a batch again that is part of a saved tree, so
\* such a batch has its metadata, is entered for both kinds of jobs and has a
\* complete witness; a crash between the tables and the tree (updater.rs), or in
\* the middle of a witness, with any number of batches per iteration, does not
\* change this.
THEOREM SavedAreComplete == Spec => []SavedIsComplete
<1>1. ASSUME NumInv, TornInv PROVE SavedIsComplete
  <2>1. ASSUME NEW i \in 1..Len(rocksdb), NEW b \in 1..(rocksdb[i].block_number - 1)
        PROVE  b \in DOMAIN metadata /\ b \in producer_jobs /\ b \in details /\ b \in DOMAIN witness
    <3>1. b \in DOMAIN metadata /\ b \in producer_jobs /\ b \in details
      BY <1>1, <2>1 DEF NumInv, RocksdbNum, DbNum, AllIn, Done
    <3>2. /\ rocksdb[i].block_number \in Nat /\ Disk.block_number \in Nat /\ Len(rocksdb) \in 1..Len(rocksdb)
          /\ Disk = rocksdb[Len(rocksdb)] /\ i <= Len(rocksdb)
      BY <1>1, DbNumbers DEF Disk
    <3>3. rocksdb[i].block_number <= Disk.block_number
      BY <1>1, <3>2 DEF TornInv, Sorted
    <3>4. b < Disk.block_number
      BY <3>2, <3>3
    <3>5. b \notin torn
      BY <1>1, <3>2, <3>4 DEF TornInv
    <3> QED BY <1>1, <3>1, <3>5 DEF TornInv, WitnessNum
  <2> QED BY <2>1 DEF SavedIsComplete
<1> QED BY <1>1, TornInvariant, PTL

-----------------------------------------------------------------------------
(* The states after the batches. *)

\* StateAfter and KeysUpTo with the logs as an argument.
StateOf(ls, b) ==
    [k \in Key |->
        LET writers == {c \in 0..b : \E op \in Range(ls[c]) : op.key = k}
        IN  IF writers = {} THEN 0
            ELSE (CHOOSE op \in Range(ls[Max(writers)]) : op.key = k).value]
KeysOf(ls, b) == UNION {{op.key : op \in Range(ls[c])} : c \in 0..b}

LEMMA StateForms == /\ \A b : StateAfter(b) = StateOf(logs, b)
                    /\ \A b : KeysUpTo(b) = KeysOf(logs, b)
BY DEF StateAfter, StateOf, KeysUpTo, KeysOf

\* The batches that write a key.
BatchesOf(ls, b, k) == {c \in 0..b : \E op \in Range(ls[c]) : op.key = k}

LEMMA StateAt ==
    ASSUME NEW ls, NEW b, NEW k \in Key
    PROVE  StateOf(ls, b)[k] = IF BatchesOf(ls, b, k) = {} THEN 0
                               ELSE (CHOOSE op \in Range(ls[Max(BatchesOf(ls, b, k))]) : op.key = k).value
BY DEF StateOf, BatchesOf

LEMMA KeysAre ==
    ASSUME NEW ls, NEW b, NEW k
    PROVE  k \in KeysOf(ls, b) <=> \E c \in 0..b : \E op \in Range(ls[c]) : op.key = k
BY DEF KeysOf

\* The logs up to a batch make the state after it.
LEMMA SameState ==
    ASSUME NEW ls, NEW lt, NEW b \in Int, \A c \in 0..b : ls[c] = lt[c]
    PROVE  StateOf(ls, b) = StateOf(lt, b) /\ KeysOf(ls, b) = KeysOf(lt, b)
<1>1. ASSUME NEW k \in Key PROVE StateOf(ls, b)[k] = StateOf(lt, b)[k]
  <2>1. BatchesOf(ls, b, k) = BatchesOf(lt, b, k)
    BY DEF BatchesOf
  <2>2. PICK W : W = BatchesOf(ls, b, k)
    OBVIOUS
  <2>3. W # {} => Max(W) \in 0..b
    <3>1. W \in SUBSET Int /\ \A y \in W : y <= b /\ y \in 0..b
      BY <2>2 DEF BatchesOf
    <3> QED BY <3>1, MaxExists
  <2>4. W # {} => ls[Max(W)] = lt[Max(W)]
    BY <2>3
  <2> QED BY <2>1, <2>2, <2>4, StateAt
<1>2. StateOf(ls, b) = StateOf(lt, b)
  <2>1. \A l : StateOf(l, b) = [k \in Key |-> StateOf(l, b)[k]]
    BY DEF StateOf
  <2> QED BY <1>1, <2>1, Zenon
<1>3. KeysOf(ls, b) = KeysOf(lt, b)
  <2>1. ASSUME NEW k PROVE k \in KeysOf(ls, b) <=> k \in KeysOf(lt, b)
    BY KeysAre
  <2> QED BY <2>1, Zenon
<1> QED BY <1>2, <1>3

\* The keys of a batch.
LogKeys(ops) == {ops[j].key : j \in 1..Len(ops)}

\* A batch's writes on top of the state before it are the state after it.
LEMMA NextState ==
    ASSUME NEW ls, NEW b \in Nat, LogOk(ls[b])
    PROVE  /\ After(StateOf(ls, b - 1), ls[b], Len(ls[b])) = StateOf(ls, b)
           /\ KeysOf(ls, b) = KeysOf(ls, b - 1) \cup LogKeys(ls[b])
<1> DEFINE ops == ls[b]
           N == Len(ops)
<1>0. N \in Nat /\ DOMAIN ops = 1..N /\ \A i, j \in 1..N : ops[i].key = ops[j].key => i = j
  BY DEF LogOk
<1>1. Range(ops) = {ops[j] : j \in 1..N}
  BY <1>0 DEF Range
<1>2. 0..b = (0..(b - 1)) \cup {b} /\ b \notin 0..(b - 1)
  OBVIOUS
<1> HIDE DEF ops, N
<1>3. ASSUME NEW k \in Key
      PROVE  After(StateOf(ls, b - 1), ops, N)[k] = StateOf(ls, b)[k]
  <2> DEFINE B == BatchesOf(ls, b, k)
             W == Writers(ops, N, k)
  <2>1. CASE \E j \in 1..N : ops[j].key = k
    <3>1. PICK j \in 1..N : ops[j].key = k
      BY <2>1
    <3>2. W = {j}
      BY <1>0, <3>1 DEF Writers
    <3>3. Max(W) = j
      BY <3>2, MaxIs
    <3>4. b \in B /\ B \subseteq Int /\ \A y \in B : y <= b
      BY <1>1, <3>1 DEF BatchesOf, ops
    <3>5. Max(B) = b
      <4> HIDE DEF B
      <4> QED BY <3>4, MaxIs
    <3>6. StateOf(ls, b)[k] = (CHOOSE op \in Range(ops) : op.key = k).value
      BY <3>4, <3>5, StateAt DEF ops
    <3>7. (CHOOSE op \in Range(ops) : op.key = k) = ops[j]
      <4>1. ops[j] \in Range(ops) /\ \A op \in Range(ops) : op.key = k => op = ops[j]
        BY <1>0, <1>1, <3>1
      <4> QED BY <3>1, <4>1
    <3>8. After(StateOf(ls, b - 1), ops, N)[k] = ops[j].value
      BY <3>2, <3>3 DEF After
    <3> QED BY <3>6, <3>7, <3>8
  <2>2. CASE ~ \E j \in 1..N : ops[j].key = k
    <3>1. W = {}
      BY <2>2 DEF Writers
    <3>2. B = BatchesOf(ls, b - 1, k)
      BY <1>1, <1>2, <2>2 DEF BatchesOf, ops
    <3>3. After(StateOf(ls, b - 1), ops, N)[k] = StateOf(ls, b - 1)[k]
      BY <3>1 DEF After
    <3> QED BY <3>2, <3>3, StateAt
  <2> QED BY <2>1, <2>2
<1>4. After(StateOf(ls, b - 1), ops, N) = StateOf(ls, b)
  <2>1. PICK f, g : f = After(StateOf(ls, b - 1), ops, N) /\ g = StateOf(ls, b)
    OBVIOUS
  <2>2. f = [k \in Key |-> f[k]] /\ g = [k \in Key |-> g[k]]
    BY <2>1 DEF After, StateOf
  <2> QED BY <1>3, <2>1, <2>2, Zenon
<1>5. KeysOf(ls, b) = KeysOf(ls, b - 1) \cup LogKeys(ops)
  <2>1. ASSUME NEW k PROVE k \in KeysOf(ls, b) <=> k \in KeysOf(ls, b - 1) \/ k \in LogKeys(ops)
    <3>1. k \in LogKeys(ops) <=> \E op \in Range(ops) : op.key = k
      BY <1>1 DEF LogKeys, N
    <3> QED BY <1>2, <3>1, KeysAre DEF ops
  <2> QED BY <2>1
<1> QED BY <1>4, <1>5 DEF ops, N

\* Before the first batch.
LEMMA NoState ==
    ASSUME NEW ls
    PROVE  StateOf(ls, 0 - 1) = [k \in Key |-> 0] /\ KeysOf(ls, 0 - 1) = {}
<1>1. \A k : BatchesOf(ls, 0 - 1, k) = {}
  BY DEF BatchesOf
<1>2. StateOf(ls, 0 - 1) = [k \in Key |-> 0]
  <2>1. StateOf(ls, 0 - 1) = [k \in Key |-> StateOf(ls, 0 - 1)[k]]
    BY DEF StateOf
  <2>2. ASSUME NEW k \in Key PROVE StateOf(ls, 0 - 1)[k] = 0
    BY <1>1, StateAt
  <2> QED BY <2>1, <2>2
<1>3. KeysOf(ls, 0 - 1) = {}
  <2>1. 0..(0 - 1) = {}
    OBVIOUS
  <2> QED BY <2>1 DEF KeysOf
<1> QED BY <1>2, <1>3


-----------------------------------------------------------------------------
(* Leaf indices. *)

\* The position of a member among the members of a set of numbers.
Before(N, j) == {i \in N : i < j}
Ranks(N) == {Cardinality(Before(N, j)) : j \in N}

\* The members of a finite set are numbered from 0 without gaps.
LEMMA RanksAre ==
    ASSUME NEW n \in Nat, NEW N \in SUBSET (1..n)
    PROVE  /\ IsFiniteSet(N) /\ Cardinality(N) \in Nat
           /\ Ranks(N) = 0..(Cardinality(N) - 1)
<1> DEFINE Upto(m) == {i \in N : i <= m}
           Good(M) == IsFiniteSet(M) /\ Cardinality(M) \in Nat /\ Ranks(M) = 0..(Cardinality(M) - 1)
           S == {m \in 0..n : Good(Upto(m))}
<1>0. \A i \in N : i \in Int /\ 1 <= i /\ i <= n
  OBVIOUS
<1>1. 0 \in S
  <2>1. Upto(0) = {}
    <3> HIDE DEF Good, S
    <3>1. \A i \in N : ~ (i <= 0)
      BY <1>0
    <3> QED BY <3>1
  <2>2. Good({})
    BY FS_EmptySet DEF Ranks
  <2> HIDE DEF Upto, Good
  <2> QED BY <2>1, <2>2
<1>2. ASSUME NEW m \in 0..(n - 1), m \in S PROVE m + 1 \in S
  <2>1. PICK M, q : M = Upto(m) /\ q = m + 1
    OBVIOUS
  <2>2. Good(M)
    BY <1>2, <2>1
  <2>3. CASE q \notin N
    <3>1. Upto(q) = M
      <4> HIDE DEF Good, S
      <4>1. \A i \in N : i <= q <=> i <= m
        BY <1>0, <2>1, <2>3
      <4> QED BY <2>1, <4>1
    <3>2. q \in 0..n
      BY <2>1
    <3> HIDE DEF Upto, Good
    <3> QED BY <2>1, <2>2, <3>1, <3>2
  <2>4. CASE q \in N
    <3>1. Upto(q) = M \cup {q} /\ q \notin M /\ q \in 0..n /\ \A i \in M : i \in Int /\ i < q
      <4> HIDE DEF Good, S
      <4>1. \A i \in N : i <= q <=> i <= m \/ i = q
        BY <1>0, <2>1, <2>4
      <4>2. q \in 0..n /\ ~ (q <= m) /\ \A i \in N : i <= m => i \in Int /\ i < q
        BY <1>0, <2>1, <2>4
      <4> QED BY <2>1, <2>4, <4>1, <4>2
    <3>2. PICK T, c : T = M \cup {q} /\ c = Cardinality(M)
      OBVIOUS
    <3>3. IsFiniteSet(T) /\ Cardinality(T) = c + 1 /\ c \in Nat
      BY <2>2, <3>1, <3>2, FS_AddElement
    <3>4. Before(T, q) = M
      <4>1. q \in Int
        BY <2>1
      <4> HIDE DEF Good
      <4> QED BY <3>1, <3>2, <4>1 DEF Before
    <3>5. \A j \in M : Before(T, j) = Before(M, j)
      <4>1. q \in Int
        BY <2>1
      <4> HIDE DEF Good
      <4> QED BY <3>1, <3>2, <4>1 DEF Before
    <3>6. Ranks(T) = Ranks(M) \cup {c}
      BY <3>2, <3>4, <3>5 DEF Ranks
    <3>7. Ranks(T) = 0..c
      <4>1. Ranks(M) = 0..(c - 1)
        BY <2>2, <3>2
      <4> QED BY <3>3, <3>6, <4>1
    <3>8. Good(T)
      BY <3>3, <3>7
    <3> HIDE DEF Upto, Good
    <3> QED BY <2>1, <3>1, <3>2, <3>8
  <2> QED BY <2>3, <2>4
<1>3. n \in S
  <2> HIDE DEF S
  <2>1. \A m \in 0..n : m \in S
    BY <1>1, <1>2, Upward
  <2> QED BY <2>1
<1>4. Upto(n) = N
  BY <1>0
<1> QED BY <1>3, <1>4

\* A pending function that RocksDB has already.
Within(g, h) == DOMAIN g \subseteq DOMAIN h /\ \A x \in DOMAIN g : g[x] = h[x]

\* What a save adds is what the last batch changed.
LEMMA OverPending ==
    ASSUME NEW f, NEW g, NEW h, Within(g, h)
    PROVE  Over(Over(f, g), h) = Over(f, h) /\ Within(Over(f, g), Over(f, h))
<1>1. DOMAIN Over(f, g) = DOMAIN f \cup DOMAIN g /\ DOMAIN Over(f, h) = DOMAIN f \cup DOMAIN h
  BY DEF Over
<1>2. \A x \in DOMAIN f \cup DOMAIN g : Over(f, g)[x] = IF x \in DOMAIN f THEN f[x] ELSE g[x]
  BY DEF Over
<1>3. \A x \in DOMAIN f \cup DOMAIN h : Over(f, h)[x] = IF x \in DOMAIN f THEN f[x] ELSE h[x]
  BY DEF Over
<1>4. \A x \in DOMAIN f \cup DOMAIN g : Over(f, g)[x] = Over(f, h)[x]
  BY <1>2, <1>3 DEF Within
<1>5. PICK p : p = Over(f, g)
  OBVIOUS
<1>6. DOMAIN p \cup DOMAIN h = DOMAIN f \cup DOMAIN h
  BY <1>1, <1>5 DEF Within
<1>7. \A x \in DOMAIN f \cup DOMAIN h : Over(p, h)[x] = Over(f, h)[x]
  BY <1>1, <1>3, <1>4, <1>5, <1>6 DEF Over, Within
<1>8. Over(p, h) = Over(f, h)
  <2>1. Over(p, h) = [x \in DOMAIN f \cup DOMAIN h |-> Over(p, h)[x]]
    BY <1>6 DEF Over
  <2>2. Over(f, h) = [x \in DOMAIN f \cup DOMAIN h |-> Over(f, h)[x]]
    BY DEF Over
  <2> QED BY <1>7, <2>1, <2>2, Zenon
<1>9. Within(Over(f, g), Over(f, h))
  BY <1>1, <1>4 DEF Within
<1> QED BY <1>5, <1>8, <1>9

\* Leaf indices of a set of keys, and the next free one.
IndicesOk(ix, next, keys) ==
    /\ IsFiniteSet(keys) /\ Cardinality(keys) \in Nat
    /\ DOMAIN ix = keys
    /\ {ix[k] : k \in keys} = 1..Cardinality(keys)
    /\ next = 1 + Cardinality(keys)

\* process_leaf_indices numbers the new keys on from the next index.
LEMMA NewIndicesAre ==
    ASSUME NEW keys, NEW ops, LogOk(ops), IndicesOk(Disk.indices, Disk.leaf_index, keys)
    PROVE  IndicesOk(Over(NewIndices(ops), Disk.indices),
                     Disk.leaf_index + Cardinality(NewWrites(ops)), keys \cup LogKeys(ops))
<1>1. PICK N, ix, L, n, new : /\ N = NewWrites(ops) /\ ix = Disk.indices /\ L = Disk.leaf_index
                              /\ n = Len(ops) /\ new = NewIndices(ops)
  OBVIOUS
<1>2. /\ n \in Nat /\ N \in SUBSET (1..n) /\ N = {j \in 1..n : ops[j].key \notin keys}
      /\ \A i, j \in 1..n : ops[i].key = ops[j].key => i = j
      /\ IsFiniteSet(keys) /\ Cardinality(keys) \in Nat /\ DOMAIN ix = keys
      /\ {ix[k] : k \in keys} = 1..Cardinality(keys) /\ L = 1 + Cardinality(keys)
  BY <1>1 DEF NewWrites, LogOk, IndicesOk
<1>3. IsFiniteSet(N) /\ Cardinality(N) \in Nat /\ Ranks(N) = 0..(Cardinality(N) - 1)
  BY <1>2, RanksAre
<1>4. PICK K : K = {ops[j].key : j \in N}
  OBVIOUS
<1>5. /\ new = [k \in K |-> L + Cardinality({i \in N : \E j \in N : i < j /\ ops[j].key = k})]
  BY <1>1, <1>4 DEF NewIndices
<1>6. ASSUME NEW j \in N PROVE ops[j].key \in K /\ new[ops[j].key] = L + Cardinality(Before(N, j))
  <2>1. {i \in N : \E jj \in N : i < jj /\ ops[jj].key = ops[j].key} = Before(N, j)
    BY <1>2 DEF Before
  <2> QED BY <1>4, <1>5, <2>1
<1>7. DOMAIN new = K
  BY <1>5
<1>8. IsFiniteSet(K) /\ Cardinality(K) = Cardinality(N)
  <2> DEFINE f == [j \in N |-> ops[j].key]
  <2>1. f \in [N -> K] /\ (\A i, j \in N : f[i] = f[j] => i = j) /\ \A k \in K : \E j \in N : f[j] = k
    BY <1>2, <1>4
  <2>2. ExistsBijection(N, K)
    <3> HIDE DEF f
    <3>1. f \in Bijection(N, K)
      BY <2>1 DEF Bijection, Injection, Surjection, IsInjective
    <3> QED BY <3>1 DEF ExistsBijection
  <2> QED BY <1>3, <2>2, FS_Bijection
<1>9. K \cap keys = {} /\ keys \cup K = keys \cup LogKeys(ops)
  BY <1>1, <1>2, <1>4 DEF LogKeys
<1>10. PICK a, c : a = Cardinality(keys) /\ c = Cardinality(N)
  OBVIOUS
<1>11. /\ IsFiniteSet(keys \cup K) /\ Cardinality(keys \cup K) = a + c /\ a \in Nat /\ c \in Nat
  <2>1. keys \cap K = {} /\ Cardinality({}) = 0
    BY <1>9, FS_EmptySet
  <2>2. Cardinality(keys \cup K) = Cardinality(keys) + Cardinality(K) - Cardinality(keys \cap K)
    BY <1>2, <1>8, FS_Union
  <2>3. IsFiniteSet(keys \cup K)
    BY <1>2, <1>8, FS_Union
  <2>4. a \in Nat /\ c \in Nat /\ Cardinality(K) = c
    BY <1>2, <1>3, <1>8, <1>10
  <2>5. Cardinality(keys \cup K) = a + c - 0
    BY <1>10, <2>1, <2>2, <2>4
  <2> QED BY <2>3, <2>4, <2>5
<1>12. {new[k] : k \in K} = (a + 1)..(a + c)
  <2>1. {new[k] : k \in K} = {L + r : r \in Ranks(N)}
    BY <1>4, <1>6 DEF Ranks
  <2>2. {L + r : r \in 0..(c - 1)} = (a + 1)..(a + c)
    <3>1. ASSUME NEW x \in (a + 1)..(a + c) PROVE x \in {L + r : r \in 0..(c - 1)}
      <4>1. x - L \in 0..(c - 1) /\ x = L + (x - L)
        BY <1>2, <1>10, <1>11
      <4> QED BY <4>1
    <3>2. ASSUME NEW r \in 0..(c - 1) PROVE L + r \in (a + 1)..(a + c)
      BY <1>2, <1>10, <1>11
    <3> QED BY <3>1, <3>2
  <2> QED BY <1>3, <1>10, <2>1, <2>2
<1>13. PICK o : o = Over(new, ix)
  OBVIOUS
<1>14. /\ DOMAIN o = keys \cup K
       /\ \A k \in K : o[k] = new[k]
       /\ \A k \in keys : o[k] = ix[k]
  BY <1>2, <1>7, <1>9, <1>13 DEF Over
<1>15. {o[k] : k \in keys \cup K} = {ix[k] : k \in keys} \cup {new[k] : k \in K}
  BY <1>14
<1>16. {o[k] : k \in keys \cup K} = 1..(a + c)
  <2>1. 1..(a + c) = (1..a) \cup ((a + 1)..(a + c))
    BY <1>11
  <2> QED BY <1>2, <1>10, <1>12, <1>15, <2>1
<1>17. IndicesOk(o, L + c, keys \cup K)
  <2>1. L + c = 1 + (a + c) /\ a + c \in Nat
    BY <1>2, <1>10, <1>11
  <2>2. PICK S : S = keys \cup K
    OBVIOUS
  <2>3. IsFiniteSet(S) /\ Cardinality(S) = a + c /\ DOMAIN o = S /\ {o[k] : k \in S} = 1..(a + c)
    BY <1>11, <1>14, <1>16, <2>2
  <2>4. IndicesOk(o, L + c, S)
    BY <2>1, <2>3 DEF IndicesOk
  <2> QED BY <2>2, <2>4
<1> QED BY <1>1, <1>9, <1>10, <1>13, <1>17


-----------------------------------------------------------------------------
(* Processing a batch. *)

\* Nodes and leaf indices are those after batch b.
TreeOk(nodes, indices, next, ls, b) ==
    IsTreeOf(nodes, StateOf(ls, b)) /\ IndicesOk(indices, next, KeysOf(ls, b))

DbOk(db, ls) == TreeOk(db.nodes, db.indices, db.leaf_index, ls, db.block_number - 1)

\* The patch on top of the tree before a batch is the tree after it.
LEMMA PatchedTree ==
    ASSUME NEW nodes, NEW state, IsTreeOf(nodes, state), NEW ops, IsWrites(ops)
    PROVE  IsTreeOf(Over(Patch(ops, Calculate(nodes, ops)), nodes), After(state, ops, Len(ops)))
<1>1. PICK patch, tr : patch = Patch(ops, Calculate(nodes, ops)) /\ tr = NodeOf(After(state, ops, Len(ops)))
  OBVIOUS
<1>2. /\ DOMAIN patch = Touched(ops)
      /\ \A l \in 0..Depth : \A i \in Index(l) :
            IF <<l, i>> \in Touched(ops) THEN patch[<<l, i>>] = tr[l][i]
            ELSE NodeOf(state)[l][i] = tr[l][i]
  BY <1>1, PatchIs
<1>3. ASSUME NEW l \in 0..Depth, NEW i \in Index(l)
      PROVE  Stored(Over(patch, nodes), l, i) = tr[l][i]
  <2>1. Stored(Over(patch, nodes), l, i) = IF <<l, i>> \in DOMAIN patch THEN patch[<<l, i>>] ELSE Stored(nodes, l, i)
    BY StoredOver
  <2>2. Stored(nodes, l, i) = NodeOf(state)[l][i]
    BY DEF IsTreeOf
  <2> QED BY <1>2, <2>1, <2>2
<1> QED BY <1>1, <1>3 DEF IsTreeOf

\* The root hash is in the patch.
LEMMA PatchedRoot ==
    ASSUME NEW nodes, NEW state, IsTreeOf(nodes, state), NEW ops, IsWrites(ops), Len(ops) > 0
    PROVE  Patch(ops, Calculate(nodes, ops))[<<0, 0>>] = RootOf(After(state, ops, Len(ops)))
<1>1. 0 \in 0..Depth /\ 0 \in Index(0) /\ 1 \in 1..Len(ops)
  BY MerkleTreeAssumption, Widths DEF Index, IsWrites
<1>2. Ancestor(ops[1].key, 0) = 0
  BY <1>1, Paths DEF IsWrites
<1>3. <<0, 0>> \in Touched(ops)
  BY <1>1, <1>2 DEF Touched
<1> QED BY <1>1, <1>3, PatchIs DEF RootOf

\* process_block on a tree whose pending changes RocksDB has.
LEMMA Processes ==
    ASSUME NEW ls, NEW b \in Nat, LogOk(ls[b]),
           TreeOk(Disk.nodes, Disk.indices, Disk.leaf_index, ls, b - 1),
           NEW t, Within(t.nodes, Disk.nodes), Within(t.indices, Disk.indices)
    PROVE  LET p == ProcessBlock(t, ls[b])
           IN  /\ TreeOk(Over(p.nodes, Disk.nodes), Over(p.indices, Disk.indices), p.leaf_index, ls, b)
               /\ p.root = RootOf(StateOf(ls, b))
               /\ p.leaf_index = 1 + Cardinality(KeysOf(ls, b))
               /\ p.block_number = t.block_number + 1
<1> DEFINE p == ProcessBlock(t, ls[b])
<1>1. PICK ops, s : ops = ls[b] /\ s = StateOf(ls, b - 1)
  OBVIOUS
<1>2. PICK patch : patch = Patch(ops, Calculate(Disk.nodes, ops))
  OBVIOUS
<1>3. /\ p.root = patch[<<0, 0>>] /\ p.block_number = t.block_number + 1
      /\ p.nodes = Over(patch, t.nodes) /\ p.indices = Over(NewIndices(ops), t.indices)
      /\ p.leaf_index = Disk.leaf_index + Cardinality(NewWrites(ops))
  BY <1>1, <1>2 DEF ProcessBlock, PrepareBatchUpdate
<1> HIDE DEF p
<1>4. LogOk(ops) /\ IsWrites(ops) /\ Len(ops) > 0 /\ IsTreeOf(Disk.nodes, s)
  BY <1>1, LogIsWrites DEF LogOk, TreeOk
<1>5. After(s, ops, Len(ops)) = StateOf(ls, b) /\ KeysOf(ls, b) = KeysOf(ls, b - 1) \cup LogKeys(ops)
  BY <1>1, NextState
<1>6. IsTreeOf(Over(p.nodes, Disk.nodes), StateOf(ls, b))
  <2>1. Over(p.nodes, Disk.nodes) = Over(patch, Disk.nodes)
    BY <1>3, OverPending
  <2> QED BY <1>2, <1>4, <1>5, <2>1, PatchedTree
<1>7. p.root = RootOf(StateOf(ls, b))
  BY <1>2, <1>3, <1>4, <1>5, PatchedRoot
<1>8. IndicesOk(Over(p.indices, Disk.indices), p.leaf_index, KeysOf(ls, b))
  <2>1. Over(p.indices, Disk.indices) = Over(NewIndices(ops), Disk.indices)
    BY <1>3, OverPending
  <2>2. PICK keys : keys = KeysOf(ls, b - 1)
    OBVIOUS
  <2>3. IndicesOk(Disk.indices, Disk.leaf_index, keys)
    BY <2>2 DEF TreeOk
  <2>4. IndicesOk(Over(NewIndices(ops), Disk.indices),
                  Disk.leaf_index + Cardinality(NewWrites(ops)), keys \cup LogKeys(ops))
    BY <1>4, <2>3, NewIndicesAre
  <2> QED BY <1>3, <1>5, <2>1, <2>2, <2>4
<1>9. p.leaf_index = 1 + Cardinality(KeysOf(ls, b))
  BY <1>8 DEF IndicesOk
<1> QED BY <1>3, <1>6, <1>7, <1>8, <1>9 DEF TreeOk, p

\* A complete witness of batch b.
WitnessOk(w, ls, b) ==
    /\ w.pre_root = RootOf(StateOf(ls, b - 1)) /\ w.root = RootOf(StateOf(ls, b))
    /\ Len(w.traces) = Len(ls[b])
    /\ w.traces[1].pre_hash = w.pre_root /\ w.traces[Len(ls[b])].hash = w.root
    /\ \A j \in 2..Len(ls[b]) : w.traces[j].pre_hash = w.traces[j - 1].hash

\* compose_witness: the traces of a batch lead from the tree before it to the
\* tree after it.
LEMMA Witnesses ==
    ASSUME NEW ls, NEW b \in Nat, LogOk(ls[b]), IsTreeOf(Disk.nodes, StateOf(ls, b - 1)), NEW w,
           w.pre_root = RootOf(StateOf(ls, b - 1)), w.root = RootOf(StateOf(ls, b)),
           w.traces = Traces(Disk.nodes, ls[b], PrepareBatchUpdate(ls[b]))
    PROVE  WitnessOk(w, ls, b)
<1>1. PICK ops, s, n, tr : ops = ls[b] /\ s = StateOf(ls, b - 1) /\ n = Len(ops) /\ tr = w.traces
  OBVIOUS
<1>2. LogOk(ops) /\ IsWrites(ops) /\ n \in Nat /\ n > 0 /\ IsTreeOf(Disk.nodes, s)
  BY <1>1, LogIsWrites DEF LogOk
<1>3. tr = Traces(Disk.nodes, ops, Calculate(Disk.nodes, ops))
  BY <1>1 DEF PrepareBatchUpdate
<1>4. Len(tr) = n
  <2>1. PICK S : S = {tr[j] : j \in 1..n}
    OBVIOUS
  <2>2. tr = [j \in 1..n |-> tr[j]]
    BY <1>1, <1>3 DEF Traces
  <2>3. tr \in [1..n -> S]
    BY <2>1, <2>2
  <2>4. tr \in Seq(S) /\ DOMAIN tr = 1..n
    BY <1>2, <2>3
  <2> QED BY <1>2, <2>4
<1>5. \A j \in 1..n : tr[j].pre_hash = RootOf(After(s, ops, j - 1)) /\ tr[j].hash = RootOf(After(s, ops, j))
  BY <1>1, <1>2, <1>3, TracesAre
<1>6. RootOf(After(s, ops, 0)) = RootOf(s)
  <2>1. 0 \in 0..Depth /\ 0 \in Index(0)
    BY MerkleTreeAssumption, Widths DEF Index
  <2> QED BY <2>1, BeforeWrites DEF RootOf
<1>7. After(s, ops, n) = StateOf(ls, b)
  BY <1>1, NextState
<1>8. tr[1].pre_hash = w.pre_root /\ tr[n].hash = w.root
  BY <1>1, <1>2, <1>5, <1>6, <1>7
<1>9. \A j \in 2..n : tr[j].pre_hash = tr[j - 1].hash
  <2> SUFFICES ASSUME NEW j \in 2..n PROVE tr[j].pre_hash = tr[j - 1].hash
    OBVIOUS
  <2>1. j \in 1..n /\ j - 1 \in 1..n
    BY <1>2
  <2> QED BY <1>5, <2>1
<1> QED BY <1>1, <1>4, <1>8, <1>9 DEF WitnessOk

\* Nothing changes when a batch is sealed after.
LEMMA OkKept ==
    ASSUME NEW ls, NEW lt, NEW n \in Nat, \A c \in 0..n : lt[c] = ls[c], NEW b \in Int, b <= n
    PROVE  /\ StateOf(lt, b) = StateOf(ls, b) /\ KeysOf(lt, b) = KeysOf(ls, b)
           /\ StateOf(lt, b - 1) = StateOf(ls, b - 1)
           /\ \A nodes, indices, next : TreeOk(nodes, indices, next, ls, b) => TreeOk(nodes, indices, next, lt, b)
           /\ b >= 0 => \A w : WitnessOk(w, ls, b) => WitnessOk(w, lt, b)
<1>1. \A c \in 0..b : lt[c] = ls[c]
  OBVIOUS
<1>2. StateOf(lt, b) = StateOf(ls, b) /\ KeysOf(lt, b) = KeysOf(ls, b)
  BY <1>1, SameState
<1>3. PICK a : a = b - 1
  OBVIOUS
<1>4. a \in Int /\ \A c \in 0..a : lt[c] = ls[c]
  BY <1>1, <1>3
<1>5. StateOf(lt, a) = StateOf(ls, a)
  BY <1>4, SameState
<1>6. b >= 0 => lt[b] = ls[b]
  OBVIOUS
<1> QED BY <1>2, <1>3, <1>5, <1>6 DEF TreeOk, WitnessOk


-----------------------------------------------------------------------------
(* Contents: everything is of the state after some batch. *)

MetaOk(m, ls, b) ==
    /\ m.root = RootOf(StateOf(ls, b))
    /\ b > 0 => m.parent = RootOf(StateOf(ls, b - 1))
    /\ m.last_index = 1 + Cardinality(KeysOf(ls, b))

RocksdbOk == \A i \in 1..Len(rocksdb) : DbOk(rocksdb[i], logs)

TablesOk ==
    /\ \A b \in DOMAIN metadata : MetaOk(metadata[b], logs, b)
    /\ \A b \in DOMAIN witness : WitnessOk(witness[b], logs, b)

\* Before batch b: RocksDB has all batches before it, and nothing is pending.
Ready(t, db, b, ls) ==
    /\ db.block_number = b
    /\ Within(t.nodes, db.nodes) /\ Within(t.indices, db.indices)
    /\ t.root = RootOf(StateOf(ls, b - 1))

\* After the computation of batch b: the tree with the pending changes has it.
Pending(t, db, b, ls, r) ==
    /\ TreeOk(Over(t.nodes, db.nodes), Over(t.indices, db.indices), t.leaf_index, ls, b)
    /\ t.root = RootOf(StateOf(ls, b))
    /\ r.pre_root = RootOf(StateOf(ls, b - 1)) /\ r.root = RootOf(StateOf(ls, b))
    /\ r.last_index = 1 + Cardinality(KeysOf(ls, b))
    /\ WitnessOk(r, ls, b)

LoopOk ==
    /\ pc \in {"idle", "process"} => Ready(tree, Disk, batch, logs)
    /\ pc \in Computed => Pending(tree, Disk, batch, logs, processed)

ContentInv == RocksdbOk /\ TablesOk /\ LoopOk

\* A batch has as many keys as writes.
LEMMA LogKeysCount ==
    ASSUME NEW ops, LogOk(ops)
    PROVE  Cardinality(LogKeys(ops)) = Len(ops)
<1>1. PICK n, K : n = Len(ops) /\ K = LogKeys(ops)
  OBVIOUS
<1>2. n \in Nat /\ K = {ops[j].key : j \in 1..n} /\ \A i, j \in 1..n : ops[i].key = ops[j].key => i = j
  BY <1>1 DEF LogOk, LogKeys
<1> DEFINE f == [j \in 1..n |-> ops[j].key]
<1>3. f \in [1..n -> K] /\ (\A i, j \in 1..n : f[i] = f[j] => i = j) /\ \A k \in K : \E j \in 1..n : f[j] = k
  BY <1>2
<1>4. ExistsBijection(1..n, K)
  <2> HIDE DEF f
  <2>1. f \in Bijection(1..n, K)
    BY <1>3 DEF Bijection, Injection, Surjection, IsInjective
  <2> QED BY <2>1 DEF ExistsBijection
<1>5. IsFiniteSet(1..n) /\ Cardinality(1..n) = n
  BY <1>2, FS_Interval
<1> QED BY <1>1, <1>4, <1>5, FS_Bijection

\* Genesis.
LEMMA ContentInit == Init => ContentInv
<1> SUFFICES ASSUME Init PROVE ContentInv
  OBVIOUS
<1>1. /\ logs[0] = Genesis /\ DOMAIN metadata = {0} /\ metadata[0] = GenesisMetadata
      /\ rocksdb = <<NewRocksdb>> /\ DOMAIN witness = {} /\ details = {} /\ pc = "start"
  BY DEF Init, Empty
<1>2. LogOk(logs[0])
  BY <1>1, MetadataCalculatorAssumption, LogIsOk
<1>3. RocksdbOk
  <2>1. /\ NewRocksdb.nodes = Empty /\ NewRocksdb.indices = Empty /\ NewRocksdb.leaf_index = 1
        /\ NewRocksdb.block_number = 0 /\ DOMAIN Empty = {}
    BY DEF NewRocksdb, Empty
  <2>2. StateOf(logs, 0 - 1) = [k \in Key |-> 0] /\ KeysOf(logs, 0 - 1) = {}
    BY NoState
  <2>3. IsTreeOf(Empty, [k \in Key |-> 0])
    BY <2>1, EmptyIsTree
  <2>4. IndicesOk(Empty, 1, {})
    BY <2>1, FS_EmptySet DEF IndicesOk
  <2>5. DbOk(NewRocksdb, logs)
    BY <2>1, <2>2, <2>3, <2>4 DEF DbOk, TreeOk
  <2> QED BY <1>1, <2>5 DEF RocksdbOk
<1>4. MetaOk(metadata[0], logs, 0)
  <2>1. KeysOf(logs, 0) = LogKeys(logs[0])
    <3>1. KeysOf(logs, 0) = KeysOf(logs, 0 - 1) \cup LogKeys(logs[0])
      BY <1>2, NextState
    <3> QED BY <3>1, NoState
  <2>2. Cardinality(KeysOf(logs, 0)) = Len(Genesis)
    BY <1>1, <1>2, <2>1, LogKeysCount
  <2>3. metadata[0].root = RootOf(StateOf(logs, 0)) /\ metadata[0].last_index = 1 + Len(Genesis)
    BY <1>1, StateForms DEF GenesisMetadata
  <2> QED BY <2>2, <2>3 DEF MetaOk
<1>5. TablesOk
  BY <1>1, <1>4 DEF TablesOk
<1>6. LoopOk
  BY <1>1 DEF LoopOk, Computed
<1> QED BY <1>3, <1>5, <1>6 DEF ContentInv

\* What the calculator knows of a sealed batch stays right.
LEMMA ContentKept ==
    ASSUME NumInv, [Next]_vars, NEW b \in Int, b <= Sealed
    PROVE  /\ StateOf(logs', b) = StateOf(logs, b) /\ KeysOf(logs', b) = KeysOf(logs, b)
           /\ StateOf(logs', b - 1) = StateOf(logs, b - 1)
           /\ \A nodes, indices, next : TreeOk(nodes, indices, next, logs, b) => TreeOk(nodes, indices, next, logs', b)
           /\ b >= 0 => \A w : WitnessOk(w, logs, b) => WitnessOk(w, logs', b)
           /\ \A m : MetaOk(m, logs, b) => MetaOk(m, logs', b)
<1>1. PICK ls, lt, n : ls = logs /\ lt = logs' /\ n = Sealed
  OBVIOUS
<1>2. n \in Nat /\ b <= n /\ \A c \in 0..n : lt[c] = ls[c]
  BY <1>1, LogsNumKept DEF NumInv, LogsNum
<1>3. /\ StateOf(lt, b) = StateOf(ls, b) /\ KeysOf(lt, b) = KeysOf(ls, b)
      /\ StateOf(lt, b - 1) = StateOf(ls, b - 1)
      /\ \A nodes, indices, next : TreeOk(nodes, indices, next, ls, b) => TreeOk(nodes, indices, next, lt, b)
      /\ b >= 0 => \A w : WitnessOk(w, ls, b) => WitnessOk(w, lt, b)
  BY <1>2, OkKept
<1>4. \A m : MetaOk(m, ls, b) => MetaOk(m, lt, b)
  BY <1>3 DEF MetaOk
<1> QED BY <1>1, <1>3, <1>4

LEMMA DbOkKept ==
    ASSUME NumInv, [Next]_vars, NEW db, DbNum(db, Sealed, Done), DbOk(db, logs)
    PROVE  DbOk(db, logs')
<1>1. PICK b : b = db.block_number - 1
  OBVIOUS
<1>2. b \in Int /\ b <= Sealed
  BY <1>1 DEF DbNum, NumInv, LogsNum
<1>3. TreeOk(db.nodes, db.indices, db.leaf_index, logs, b)
  BY <1>1 DEF DbOk
<1>4. TreeOk(db.nodes, db.indices, db.leaf_index, logs', b)
  BY <1>2, <1>3, ContentKept
<1> QED BY <1>1, <1>4 DEF DbOk

LEMMA WithinOver == ASSUME NEW f, NEW g PROVE Within(f, Over(f, g))
BY DEF Within, Over

\* The genesis batch and the start of the loop.
LEMMA Started ==
    ASSUME NumInv, ContentInv, Start
    PROVE  /\ DbOk(Disk', logs) /\ Ready(tree', Disk', batch', logs)
           /\ rocksdb' = rocksdb \/ rocksdb' = Append(rocksdb, Disk')
<1> USE DEF NumInv
<1>0. DbOk(Disk, logs) /\ DbNum(Disk, Sealed, Done) /\ IsSeq(rocksdb)
  <2>1. Len(rocksdb) \in 1..Len(rocksdb)
    BY Appended DEF RocksdbNum
  <2> QED BY <2>1, Starts DEF ContentInv, RocksdbOk, RocksdbNum, Disk
<1>1. CASE LoadTree.root = EmptyTree[0]
  <2>1. PICK t : t = ProcessBlock(LoadTree, logs[0])
    OBVIOUS
  <2>2. tree' = t /\ rocksdb' = Append(rocksdb, Saved(t)) /\ batch' = t.block_number
    BY <1>1, <2>1 DEF Start
  <2>3. /\ LoadTree.block_number = 0 /\ Disk.block_number = 0 /\ LogOk(logs[0])
        /\ LoadTree.nodes = Empty /\ LoadTree.indices = Empty
    BY <1>1, Starts DEF LoadTree, fetch_metadata, LogsNum
  <2>4. Within(LoadTree.nodes, Disk.nodes) /\ Within(LoadTree.indices, Disk.indices)
    BY <2>3 DEF Within, Empty
  <2>5. TreeOk(Disk.nodes, Disk.indices, Disk.leaf_index, logs, 0 - 1)
    BY <1>0, <2>3 DEF DbOk
  <2>6. /\ TreeOk(Over(t.nodes, Disk.nodes), Over(t.indices, Disk.indices), t.leaf_index, logs, 0)
        /\ t.root = RootOf(StateOf(logs, 0)) /\ t.block_number = 1
    <3>1. PICK lt : lt = LoadTree
      OBVIOUS
    <3> QED BY <2>1, <2>3, <2>4, <2>5, <3>1, Processes
  <2>7. PICK db : db = Saved(t)
    OBVIOUS
  <2>8. /\ db.nodes = Over(t.nodes, Disk.nodes) /\ db.indices = Over(t.indices, Disk.indices)
        /\ db.leaf_index = t.leaf_index /\ db.block_number = 1
    BY <2>6, <2>7 DEF Saved
  <2>9. DbOk(db, logs)
    BY <2>6, <2>8 DEF DbOk
  <2>10. Ready(t, db, 1, logs)
    BY <2>6, <2>8, WithinOver DEF Ready
  <2>11. Disk' = db /\ rocksdb' = Append(rocksdb, db)
    BY <1>0, <2>2, <2>7, Appended DEF Disk
  <2> QED BY <2>2, <2>6, <2>9, <2>10, <2>11
<1>2. CASE LoadTree.root # EmptyTree[0]
  <2>1. tree' = LoadTree /\ rocksdb' = rocksdb /\ batch' = Disk.block_number
    BY <1>2 DEF Start, LoadTree, fetch_metadata
  <2>2. Disk' = Disk
    BY <2>1 DEF Disk
  <2>3. PICK t, b : t = LoadTree /\ b = Disk.block_number
    OBVIOUS
  <2>4. t.nodes = Empty /\ t.indices = Empty /\ t.root = Stored(Disk.nodes, 0, 0)
    BY <2>3 DEF LoadTree, fetch_metadata
  <2>5. t.root = RootOf(StateOf(logs, b - 1))
    <3>1. 0 \in 0..Depth /\ 0 \in Index(0)
      BY MerkleTreeAssumption, Widths DEF Index
    <3>2. IsTreeOf(Disk.nodes, StateOf(logs, b - 1))
      BY <1>0, <2>3 DEF DbOk, TreeOk
    <3> QED BY <2>4, <3>1, <3>2 DEF IsTreeOf, RootOf
  <2>6. Within(t.nodes, Disk.nodes) /\ Within(t.indices, Disk.indices)
    BY <2>4 DEF Within, Empty
  <2>7. Ready(t, Disk, b, logs)
    BY <2>3, <2>5, <2>6 DEF Ready
  <2> QED BY <1>0, <2>1, <2>2, <2>3, <2>7
<1> QED BY <1>1, <1>2


\* process_l1_batch.
LEMMA BatchProcessed ==
    ASSUME NumInv, ContentInv, ProcessL1Batch, pc' # "start"
    PROVE  Pending(tree', Disk, batch, logs, processed')
<1> USE DEF NumInv
<1>1. pc = "process"
  BY DEF ProcessL1Batch
<1>2. Ready(tree, Disk, batch, logs) /\ IsNext(batch, Sealed, Done) /\ last \in batch..Sealed /\ Sealed \in Nat
  BY <1>1 DEF ContentInv, LoopOk, LoopNum, LogsNum, Computed
<1>3. batch \in 1..Sealed /\ batch \in 0..Sealed /\ batch \in Nat
  BY <1>2 DEF IsNext
<1>4. LogOk(logs[batch])
  BY <1>3 DEF LogsNum
<1>5. TreeOk(Disk.nodes, Disk.indices, Disk.leaf_index, logs, batch - 1)
  <2>1. Len(rocksdb) \in 1..Len(rocksdb)
    BY Appended DEF RocksdbNum
  <2>2. DbOk(Disk, logs)
    BY <2>1 DEF ContentInv, RocksdbOk, Disk
  <2> QED BY <1>2, <2>2 DEF DbOk, Ready
<1>6. PICK t, r : t = tree' /\ r = processed'
  OBVIOUS
<1>7. /\ t = ProcessBlock(tree, logs[batch])
      /\ r.pre_root = tree.root /\ r.root = t.root /\ r.last_index = t.leaf_index
      /\ r.traces = Traces(Disk.nodes, logs[batch], PrepareBatchUpdate(logs[batch]))
  BY <1>6 DEF ProcessL1Batch, Processed, Reset
<1>8. /\ TreeOk(Over(t.nodes, Disk.nodes), Over(t.indices, Disk.indices), t.leaf_index, logs, batch)
      /\ t.root = RootOf(StateOf(logs, batch)) /\ t.leaf_index = 1 + Cardinality(KeysOf(logs, batch))
  BY <1>2, <1>3, <1>4, <1>5, <1>7, Processes DEF Ready
<1>9. WitnessOk(r, logs, batch)
  BY <1>2, <1>3, <1>4, <1>5, <1>7, <1>8, Witnesses DEF Ready, TreeOk
<1>10. Pending(t, Disk, batch, logs, r)
  BY <1>2, <1>7, <1>8, <1>9 DEF Pending, Ready
<1> QED BY <1>6, <1>10

\* save: the pending tree becomes the one in RocksDB.
LEMMA TreeSaved ==
    ASSUME NumInv, ContentInv, SaveTree
    PROVE  /\ DbOk(Disk', logs) /\ Ready(tree', Disk', batch', logs)
           /\ rocksdb' = Append(rocksdb, Disk')
<1> USE DEF NumInv
<1>1. /\ pc = "save" /\ tree' = tree /\ batch' = last + 1 /\ rocksdb' = Append(rocksdb, Saved(tree))
      /\ IsSeq(rocksdb)
  BY DEF SaveTree, RocksdbNum
<1>2. Pending(tree, Disk, batch, logs, processed) /\ last = batch /\ tree.block_number = batch + 1 /\ batch \in Nat
  BY <1>1 DEF ContentInv, LoopOk, LoopNum, LogsNum, Computed, Follows
<1>3. PICK db, b, b1, t : db = Saved(tree) /\ b = batch /\ b1 = batch + 1 /\ t = tree
  OBVIOUS
<1>4. /\ db.nodes = Over(t.nodes, Disk.nodes) /\ db.indices = Over(t.indices, Disk.indices)
      /\ db.leaf_index = t.leaf_index /\ db.block_number = b1 /\ b1 - 1 = b
  BY <1>2, <1>3 DEF Saved
<1>5. TreeOk(db.nodes, db.indices, db.leaf_index, logs, b) /\ t.root = RootOf(StateOf(logs, b))
  BY <1>2, <1>3, <1>4 DEF Pending
<1>6. DbOk(db, logs)
  BY <1>4, <1>5 DEF DbOk
<1>7. Ready(t, db, b1, logs)
  BY <1>4, <1>5, WithinOver DEF Ready
<1>8. Disk' = db
  BY <1>1, <1>3, Appended DEF Disk
<1> QED BY <1>1, <1>2, <1>3, <1>6, <1>7, <1>8

\* RocksDB, step by step.
LEMMA RocksdbOkKept ==
    ASSUME NumInv, ContentInv, [Next]_vars
    PROVE  RocksdbOk'
<1> USE DEF NumInv
<1>0. ASSUME NEW i \in 1..Len(rocksdb) PROVE DbOk(rocksdb[i], logs')
  <2>1. PICK db : db = rocksdb[i]
    OBVIOUS
  <2>2. DbNum(db, Sealed, Done) /\ DbOk(db, logs)
    BY <2>1 DEF RocksdbNum, ContentInv, RocksdbOk
  <2> QED BY <2>1, <2>2, DbOkKept
<1>1. CASE rocksdb' = rocksdb
  BY <1>0, <1>1 DEF RocksdbOk
<1>2. CASE (Start \/ SaveTree) /\ rocksdb' # rocksdb
  <2>1. DbOk(Disk', logs) /\ rocksdb' = Append(rocksdb, Disk')
    BY <1>2, Started, TreeSaved
  <2>2. logs' = logs
    BY <1>2 DEF Start, SaveTree
  <2>3. PICK db : db = Disk'
    OBVIOUS
  <2>4. /\ Len(rocksdb) \in Nat /\ Len(rocksdb') = Len(rocksdb) + 1
        /\ \A i \in 1..Len(rocksdb) : rocksdb'[i] = rocksdb[i]
        /\ rocksdb'[Len(rocksdb) + 1] = db
    BY <2>1, <2>3, Appended DEF RocksdbNum
  <2>5. ASSUME NEW i \in 1..Len(rocksdb') PROVE DbOk(rocksdb'[i], logs')
    <3>1. CASE i \in 1..Len(rocksdb)
      BY <1>0, <2>4, <3>1
    <3>2. CASE i = Len(rocksdb) + 1
      BY <2>1, <2>2, <2>3, <2>4, <3>2
    <3> QED BY <2>4, <3>1, <3>2
  <2> QED BY <2>5 DEF RocksdbOk
<1>3. CASE Crash
  <2>1. PICK n \in 1..Len(rocksdb) : rocksdb' = SubSeq(rocksdb, 1, n)
    BY <1>3 DEF Crash
  <2>2. /\ Len(rocksdb') = n
        /\ \A i \in 1..n : rocksdb'[i] = rocksdb[i] /\ i \in 1..Len(rocksdb)
    BY <2>1, Shortened DEF RocksdbNum
  <2> QED BY <1>0, <2>2 DEF RocksdbOk
<1>4. CASE ~Start /\ ~SaveTree /\ ~Crash
  <2>1. rocksdb' = rocksdb
    BY <1>4 DEF Next, Calculator, Step, NoProgress, ProcessL1Batch, PutWitness, SaveL1BatchMetadata,
         CreateProducerJob, InsertProofGenerationDetails, SealBatch, vars
  <2> QED BY <1>1, <2>1
<1> QED BY <1>1, <1>2, <1>3, <1>4

\* The metadata and the witnesses, step by step.
LEMMA TablesOkKept ==
    ASSUME NumInv, TornInv, ContentInv, [Next]_vars
    PROVE  TablesOk'
<1> USE DEF NumInv
<1>0. Sealed \in Nat /\ DOMAIN witness \subseteq 1..Sealed
  BY DEF LogsNum, TornInv, WitnessNum
<1>1. ASSUME NEW b \in DOMAIN metadata PROVE MetaOk(metadata[b], logs', b)
  <2>1. b \in Int /\ b <= Sealed /\ MetaOk(metadata[b], logs, b)
    BY <1>0 DEF TablesNum, ContentInv, TablesOk
  <2> QED BY <2>1, ContentKept
<1>2. ASSUME NEW b \in DOMAIN witness PROVE WitnessOk(witness[b], logs', b)
  <2>1. b \in Int /\ b >= 0 /\ b <= Sealed /\ WitnessOk(witness[b], logs, b)
    BY <1>0 DEF ContentInv, TablesOk
  <2> QED BY <2>1, ContentKept
<1>3. CASE UNCHANGED <<metadata, witness>>
  BY <1>1, <1>2, <1>3 DEF TablesOk
<1>4. CASE ProcessL1Batch /\ pc' # "start"
  <2>1. metadata' = metadata /\ witness' = [b \in DOMAIN witness \ {batch} |-> witness[b]]
    BY <1>4 DEF ProcessL1Batch, Reset
  <2> QED BY <1>1, <1>2, <2>1 DEF TablesOk
<1>5. CASE PutWitness
  <2>1. pc = "put" /\ UNCHANGED <<logs, metadata>>
    BY <1>5 DEF PutWitness
  <2>2. Pending(tree, Disk, batch, logs, processed)
    BY <2>1 DEF ContentInv, LoopOk, Computed
  <2>3. PICK w : w = [pre_root |-> processed.pre_root, root |-> processed.root, traces |-> processed.traces]
    OBVIOUS
  <2>4. w.pre_root = processed.pre_root /\ w.root = processed.root /\ w.traces = processed.traces
    BY <2>3
  <2>5. WitnessOk(w, logs', batch)
    BY <2>1, <2>2, <2>4 DEF Pending, WitnessOk
  <2>6. witness' = Put(witness, batch, w)
    BY <1>5, <2>3 DEF PutWitness
  <2>7. /\ DOMAIN witness' = DOMAIN witness \cup {batch} /\ witness'[batch] = w
        /\ \A b \in DOMAIN witness : b # batch => witness'[b] = witness[b]
    BY <2>6 DEF Put
  <2> QED BY <1>1, <1>2, <2>1, <2>5, <2>7 DEF TablesOk
<1>6. CASE SaveL1BatchMetadata /\ metadata' # metadata
  <2>1. /\ pc = "metadata" /\ UNCHANGED <<logs, witness>>
        /\ metadata' = Put(metadata, batch, BuildL1BatchMetadata)
    BY <1>6 DEF SaveL1BatchMetadata
  <2>2. PICK m : m = BuildL1BatchMetadata
    OBVIOUS
  <2>3. m.root = processed.root /\ m.parent = processed.pre_root /\ m.last_index = processed.last_index
    BY <2>2 DEF BuildL1BatchMetadata
  <2>4. Pending(tree, Disk, batch, logs, processed)
    BY <2>1 DEF ContentInv, LoopOk, Computed
  <2>5. MetaOk(m, logs, batch)
    BY <2>3, <2>4 DEF Pending, MetaOk
  <2>6. /\ DOMAIN metadata' = DOMAIN metadata \cup {batch} /\ metadata'[batch] = m
        /\ \A b \in DOMAIN metadata : b # batch => metadata'[b] = metadata[b]
    BY <2>1, <2>2 DEF Put
  <2> QED BY <1>1, <1>2, <2>1, <2>5, <2>6 DEF TablesOk
<1>7. CASE ~ (ProcessL1Batch /\ pc' # "start") /\ ~PutWitness /\ (SaveL1BatchMetadata => metadata' = metadata)
  <2>1. UNCHANGED <<metadata, witness>>
    BY <1>7 DEF Next, Calculator, Start, Step, NoProgress, ProcessL1Batch, SaveL1BatchMetadata, CreateProducerJob,
         InsertProofGenerationDetails, SaveTree, SealBatch, Crash, storedVars, vars
  <2> QED BY <1>3, <2>1
<1> QED BY <1>4, <1>5, <1>6, <1>7

\* The tree in memory, step by step, while the calculator keeps up.
LEMMA LoopOkKept ==
    ASSUME KeepsUp, NumInv, ContentInv, [Next]_vars
    PROVE  LoopOk'
<1> USE DEF NumInv
<1>1. CASE Start
  <2>1. pc' = "idle" /\ logs' = logs
    BY <1>1 DEF Start
  <2>2. Ready(tree', Disk', batch', logs')
    BY <1>1, <2>1, Started
  <2> QED BY <2>1, <2>2 DEF LoopOk, Computed
<1>2. CASE Step
  <2>1. /\ pc = "idle" /\ pc' = "process" /\ UNCHANGED <<logs, rocksdb, tree, batch>>
    BY <1>2 DEF Step
  <2>4. Ready(tree, Disk, batch, logs)
    BY <2>1 DEF ContentInv, LoopOk
  <2>5. Ready(tree', Disk', batch', logs')
    BY <2>1, <2>4 DEF Disk
  <2> QED BY <2>1, <2>5 DEF LoopOk, Computed
<1>3. CASE ProcessL1Batch /\ pc' # "start"
  <2>1. pc = "process" /\ pc' = "put" /\ UNCHANGED <<logs, rocksdb, batch, last>>
    BY <1>3 DEF ProcessL1Batch, Reset
  <2>2. Disk' = Disk
    BY <2>1 DEF Disk
  <2>3. Pending(tree', Disk', batch', logs', processed')
    BY <1>3, <2>1, <2>2, BatchProcessed
  <2> QED BY <2>1, <2>3 DEF LoopOk, Computed
<1>4. CASE SaveTree
  <2>1. pc' = "idle" /\ logs' = logs
    BY <1>4 DEF SaveTree
  <2>2. Ready(tree', Disk', batch', logs')
    BY <1>4, <2>1, TreeSaved
  <2> QED BY <2>1, <2>2 DEF LoopOk, Computed
<1>5. CASE pc' = "start"
  BY <1>5 DEF LoopOk, Computed
<1>6. CASE PutWitness \/ SaveL1BatchMetadata \/ CreateProducerJob \/ InsertProofGenerationDetails
  <2>1. pc' # "start" =>
          /\ pc \in Computed /\ UNCHANGED <<logs, rocksdb, tree, processed>>
          /\ (pc' \in Computed /\ batch' = batch) \/ batch < last
    BY <1>6 DEF PutWitness, SaveL1BatchMetadata, CreateProducerJob, InsertProofGenerationDetails, Reset, Computed
  <2>2. pc \in Computed => last = batch /\ batch \in Nat /\ Pending(tree, Disk, batch, logs, processed)
    BY DEF KeepsUp, ContentInv, LoopOk, LoopNum, LogsNum, Computed
  <2>3. CASE pc' # "start"
    <3>1. pc' \in Computed /\ batch' = batch /\ UNCHANGED <<logs, rocksdb, tree, processed>>
      BY <2>1, <2>2, <2>3
    <3>2. Pending(tree', Disk', batch', logs', processed')
      BY <2>1, <2>2, <2>3, <3>1 DEF Disk
    <3>3. pc' \notin {"idle", "process"}
      BY <3>1 DEF Computed
    <3> QED BY <3>1, <3>2, <3>3 DEF LoopOk
  <2> QED BY <1>5, <2>3
<1>7. CASE UNCHANGED <<rocksdb, tree, pc, batch, processed>>
  <2>1. Disk' = Disk
    BY <1>7 DEF Disk
  <2>2. ASSUME pc \in {"idle", "process"} PROVE Ready(tree, Disk, batch, logs')
    <3>1. Ready(tree, Disk, batch, logs) /\ batch \in 1..(Sealed + 1) /\ Sealed \in Nat
      BY <2>2 DEF ContentInv, LoopOk, LoopNum, IsNext, LogsNum
    <3>2. PICK b : b = batch - 1
      OBVIOUS
    <3>3. b \in Int /\ b <= Sealed
      BY <3>1, <3>2
    <3>4. StateOf(logs', b) = StateOf(logs, b)
      BY <3>3, ContentKept
    <3> QED BY <3>1, <3>2, <3>4 DEF Ready
  <2>3. ASSUME pc \in Computed PROVE Pending(tree, Disk, batch, logs', processed)
    <3>1. Pending(tree, Disk, batch, logs, processed) /\ batch \in Int /\ batch <= Sealed
      BY <2>3 DEF ContentInv, LoopOk, LoopNum, LogsNum
    <3>2. /\ StateOf(logs', batch) = StateOf(logs, batch) /\ KeysOf(logs', batch) = KeysOf(logs, batch)
          /\ StateOf(logs', batch - 1) = StateOf(logs, batch - 1)
      BY <3>1, ContentKept
    <3>3. WitnessOk(processed, logs', batch)
      <4>1. WitnessOk(processed, logs, batch) /\ batch >= 0
        BY <2>3, <3>1 DEF Pending, LoopNum, LogsNum
      <4> QED BY <3>1, <4>1, ContentKept
    <3> QED BY <3>1, <3>2, <3>3 DEF Pending, TreeOk
  <2> QED BY <1>7, <2>1, <2>2, <2>3 DEF LoopOk, ContentInv
<1>8. NoProgress \/ SealBatch \/ UNCHANGED vars => UNCHANGED <<rocksdb, tree, pc, batch, processed>>
  BY DEF NoProgress, SealBatch, vars, storedVars
<1>9. Crash => pc' = "start"
  BY DEF Crash, Reset
<1> QED BY <1>1, <1>2, <1>3, <1>4, <1>5, <1>6, <1>7, <1>8, <1>9 DEF Next, Calculator


\* While the calculator keeps up, everything is of the state after some batch.
LEMMA ContentStep == NumInv /\ TornInv /\ ContentInv /\ KeepsUp /\ [Next]_vars => ContentInv'
BY RocksdbOkKept, TablesOkKept, LoopOkKept DEF ContentInv

LEMMA ContentInvariant == Spec /\ []KeepsUp => [](NumInv /\ TornInv /\ FreshInv /\ ContentInv)
BY TornInvariant, ContentInit, ContentStep, PTL DEF Spec

-----------------------------------------------------------------------------
(* What the calculator is for. *)

\* The stored root hashes are right.
LEMMA RootsOk ==
    ASSUME NumInv, ContentInv
    PROVE  RootsAreOfState
<1>1. ASSUME NEW b \in DOMAIN metadata
      PROVE  /\ metadata[b].root = RootOf(StateAfter(b))
             /\ b > 0 => metadata[b].parent = metadata[b - 1].root
             /\ metadata[b].last_index = 1 + Cardinality(KeysUpTo(b))
  <2>1. b \in Nat /\ MetaOk(metadata[b], logs, b) /\ StateAfter(b) = StateOf(logs, b) /\ KeysUpTo(b) = KeysOf(logs, b)
    BY StateForms DEF NumInv, LogsNum, TablesNum, ContentInv, TablesOk
  <2>2. b > 0 => metadata[b - 1].root = RootOf(StateOf(logs, b - 1))
    <3>1. b > 0 => b - 1 \in DOMAIN metadata
      BY <2>1 DEF NumInv, TablesNum
    <3>2. PICK a : a = b - 1
      OBVIOUS
    <3>3. a \in DOMAIN metadata => metadata[a].root = RootOf(StateOf(logs, a))
      BY DEF ContentInv, TablesOk, MetaOk
    <3> QED BY <3>1, <3>2, <3>3
  <2> QED BY <2>1, <2>2 DEF MetaOk
<1> QED BY <1>1 DEF RootsAreOfState

\* The saved trees are right.
LEMMA TreesOk ==
    ASSUME NumInv, ContentInv
    PROVE  TreeIsRecoverable
<1>1. ASSUME NEW i \in 1..Len(rocksdb), NEW db, db = rocksdb[i]
      PROVE  /\ \A level \in 0..Depth : \A index \in Index(level) :
                  Stored(db.nodes, level, index) = NodeOf(StateAfter(db.block_number - 1))[level][index]
             /\ DOMAIN db.indices = KeysUpTo(db.block_number - 1)
             /\ {db.indices[k] : k \in DOMAIN db.indices} = 1..Cardinality(DOMAIN db.indices)
             /\ db.leaf_index = 1 + Cardinality(DOMAIN db.indices)
  <2>1. PICK b : b = db.block_number - 1
    OBVIOUS
  <2>2. TreeOk(db.nodes, db.indices, db.leaf_index, logs, b)
    BY <1>1, <2>1 DEF ContentInv, RocksdbOk, DbOk
  <2>3. StateAfter(b) = StateOf(logs, b) /\ KeysUpTo(b) = KeysOf(logs, b)
    BY StateForms
  <2>4. \A level \in 0..Depth : \A index \in Index(level) :
           Stored(db.nodes, level, index) = NodeOf(StateAfter(b))[level][index]
    BY <2>2, <2>3 DEF TreeOk, IsTreeOf
  <2>5. /\ DOMAIN db.indices = KeysUpTo(b)
        /\ {db.indices[k] : k \in DOMAIN db.indices} = 1..Cardinality(DOMAIN db.indices)
        /\ db.leaf_index = 1 + Cardinality(DOMAIN db.indices)
    BY <2>2, <2>3 DEF TreeOk, IndicesOk
  <2> QED BY <2>1, <2>4, <2>5
<1> QED BY <1>1 DEF TreeIsRecoverable

\* The witnesses are right.
LEMMA WitnessesOk ==
    ASSUME NumInv, TornInv, FreshInv, ContentInv
    PROVE  WitnessLeadsToRoot
<1>1. ASSUME NEW b \in details, b \notin torn
      PROVE  LET w == witness[b]
                 n == Len(w.traces)
             IN  /\ b \in DOMAIN witness /\ b \in DOMAIN metadata
                 /\ w.pre_root = metadata[b - 1].root /\ w.root = metadata[b].root
                 /\ n = Len(logs[b])
                 /\ w.traces[1].pre_hash = w.pre_root /\ w.traces[n].hash = w.root
                 /\ \A j \in 2..n : w.traces[j].pre_hash = w.traces[j - 1].hash
  <2>1. PICK w, n, a : w = witness[b] /\ n = Len(w.traces) /\ a = b - 1
    OBVIOUS
  <2>2. b \in DOMAIN metadata /\ a \in DOMAIN metadata
    BY <2>1 DEF NumInv, TablesNum
  <2>3. metadata[b].root = RootOf(StateOf(logs, b)) /\ metadata[a].root = RootOf(StateOf(logs, a))
    BY <2>2 DEF ContentInv, TablesOk, MetaOk
  <2>4. b \in DOMAIN witness /\ WitnessOk(w, logs, b)
    BY <1>1, <2>1 DEF TornInv, WitnessNum, ContentInv, TablesOk
  <2>5. /\ w.pre_root = metadata[a].root /\ w.root = metadata[b].root
        /\ n = Len(logs[b])
        /\ w.traces[1].pre_hash = w.pre_root /\ w.traces[n].hash = w.root
        /\ \A j \in 2..n : w.traces[j].pre_hash = w.traces[j - 1].hash
    BY <2>1, <2>3, <2>4 DEF WitnessOk
  <2> QED BY <2>1, <2>2, <2>4, <2>5
<1>2. ASSUME NEW b \in details, b \in torn PROVE crashes > 0
  <2>1. CASE crashes = 0
    <3>1. pc = "put" /\ b = batch /\ b \in Nat
      BY <1>2, <2>1 DEF TornInv, WitnessNum
    <3>2. b < batch
      BY <2>1, <3>1 DEF NumInv, TablesNum, FreshInv, Lead
    <3> QED BY <3>1, <3>2
  <2> QED BY <2>1 DEF TornInv
<1> QED BY <1>1, <1>2, Zenon DEF WitnessLeadsToRoot

\* As long as no iteration has two batches, the root hash that
\* save_l1_batch_metadata stores for a batch is the one of the state after it,
\* its parent the one before it, and the next leaf index counts the keys written
\* so far; crashes that lose the last writes to RocksDB, and the replays after
\* them, do not change this.
THEOREM RootsAreCorrect == Spec /\ []KeepsUp => []RootsAreOfState
BY RootsOk, ContentInvariant, PTL

\* As long as no iteration has two batches, whatever a crash leaves in RocksDB
\* (storage.rs, save) is the tree of the batches it counts, node by node and
\* with its leaf indices.
THEOREM TreesAreRecoverable == Spec /\ []KeepsUp => []TreeIsRecoverable
BY TreesOk, ContentInvariant, PTL

\* As long as no iteration has two batches, a batch that is entered for proving
\* has a witness that leads, write by write (compose_witness), from the root
\* hash of the previous batch to its own, and these are the stored ones; only a
\* crash while it is written again (updater.rs, process_l1_batch) tears it.
THEOREM WitnessesLeadToRoots == Spec /\ []KeepsUp => []WitnessLeadsToRoot
BY WitnessesOk, ContentInvariant, PTL

\* Before the first crash, whatever max_l1_batches_per_iter is, and after any
\* crashes if it is 1, the roots, the saved trees and the witnesses are right.
THEOREM RightUnlessReplaying ==
    Spec => [](crashes = 0 \/ MaxBatchesPerIter = 1 =>
                  RootsAreOfState /\ TreeIsRecoverable /\ WitnessLeadsToRoot)
<1> DEFINE Calm == crashes = 0 \/ MaxBatchesPerIter = 1
<1>1. Init => (Calm => ContentInv)
  BY ContentInit
<1>2. ASSUME NumInv, TornInv, FreshInv, Calm => ContentInv, [Next]_vars PROVE (Calm => ContentInv)'
  <2>1. Calm' => Calm
    <3>1. crashes' = crashes \/ crashes' = crashes + 1
      BY <1>2 DEF Next, Calculator, Start, Step, NoProgress, ProcessL1Batch, PutWitness, SaveL1BatchMetadata,
           CreateProducerJob, InsertProofGenerationDetails, SaveTree, SealBatch, Crash, vars
    <3>2. crashes \in Nat
      BY <1>2 DEF TornInv
    <3> QED BY <3>1, <3>2
  <2>2. Calm => KeepsUp
    BY <1>2 DEF FreshInv
  <2> QED BY <1>2, <2>1, <2>2, ContentStep
<1>3. NumInv /\ TornInv /\ FreshInv /\ (Calm => ContentInv) =>
         (Calm => RootsAreOfState /\ TreeIsRecoverable /\ WitnessLeadsToRoot)
  BY RootsOk, TreesOk, WitnessesOk
<1> HIDE DEF Calm
<1>4. Spec => [](Calm => ContentInv)
  BY <1>1, <1>2, TornInvariant, PTL DEF Spec
<1>5. Spec => [](Calm => RootsAreOfState /\ TreeIsRecoverable /\ WitnessLeadsToRoot)
  BY <1>3, <1>4, TornInvariant, PTL
<1> QED BY <1>5 DEF Calm
=============================================================================
