---------------------------- MODULE StateStorage ----------------------------
(***************************************************************************)
(* Where the contract storage lives.  The VM of the open batch reads from  *)
(* RocksDB, which holds the sealed batches, and reports every access.  The *)
(* writes of a miniblock go to Postgres: as rows of storage_logs and into  *)
(* the table storage, which holds the latest values.  When a batch is      *)
(* sealed all of its accesses are reduced to net writes and protective     *)
(* reads, and the slots written for the first time get the next            *)
(* enumeration indices; the same writes were counted in flight, for the    *)
(* seal criteria, by the deduplicator.  The metadata calculator rebuilds   *)
(* the writes of a batch from storage_logs alone.  RocksDB catches up with *)
(* Postgres, one batch per write, whenever a batch is opened.              *)
(*                                                                         *)
(* A transaction that the seal criteria exclude or reject has run in the   *)
(* VM by then and is not undone: its accesses stay among those of the      *)
(* batch, but in no miniblock and not in the deduplicator.  excluded       *)
(* counts these, and clean says that no batch was sealed after one.        *)
(*                                                                         *)
(* A crash loses the open miniblock and, as RocksDB does not sync, any     *)
(* number of its last writes.  Miniblocks already in Postgres are executed *)
(* again.  Block numbers, timestamps and the order of commits are those of *)
(* module Sequencer and are left out here.                                 *)
(***************************************************************************)
EXTENDS Integers, FiniteSets, Sequences, FiniteSetsExt

CONSTANTS
    NumKeys,        \* storage slots, in the order of their keys
    Values,         \* values of a slot, with 0 for an empty one
    Txs,            \* transactions: their accesses and their bytecodes
    Tips,           \* what the VM may do when a batch is finished
    GenesisOps,     \* the writes of the genesis batch
    GenesisDeps,    \* and its bytecodes
    MaxBatches,     \* bound: batches after genesis
    MaxTxs,         \* bound: transactions of a batch
    MaxExcluded     \* bound: transactions excluded from a batch

Keys == 1 .. NumKeys
Ops == [key : Keys, rw : BOOLEAN, value : Values]

ASSUME StorageAssumption ==
    /\ NumKeys \in Nat
    /\ Values \subseteq Nat
    /\ 0 \in Values
    /\ \A tx \in Txs : tx.ops \in Seq(Ops)
    /\ Tips \subseteq Seq(Ops)
    /\ GenesisOps \in Seq(Ops)
    /\ MaxBatches \in Nat
    /\ MaxTxs \in Nat
    /\ MaxExcluded \in Nat

VARIABLES
    miniblocks,      \* by number: their batch and their bytecodes
    storageLogs,     \* table storage_logs
    pending,         \* transactions of the miniblocks without a batch
    storage,         \* table storage
    initialWrites,   \* table initial_writes
    protectiveReads, \* table protective_reads, by batch
    sealed,          \* the last sealed batch
    rocksdb,         \* the states written to RocksDB, the last one current
    vm,              \* values as the VM of the open batch sees them
    accesses,        \* every access of the open batch
    dedup,           \* the StorageWritesDeduplicator
    mini,            \* the open miniblock
    open,            \* a batch is open
    excluded,        \* transactions the VM has run that are in no miniblock
    clean            \* no batch was sealed after an excluded transaction

vars == <<miniblocks, storageLogs, pending, storage, initialWrites,
          protectiveReads, sealed, rocksdb, vm, accesses, dedup, mini, open,
          excluded, clean>>

None == -1
Rocks == rocksdb[Len(rocksdb)]
Pending(m) == m.batch = None
-----------------------------------------------------------------------------
(***************************************************************************)
(* The VM (external): a transaction's accesses, each with the value found  *)
(* there.  A write is initial when RocksDB has no entry for its slot.      *)
(***************************************************************************)
\* Slot k after the first n accesses: the last value written, if any.
ValueAt(values, ops, k, n) ==
    LET writes == {i \in 1 .. n : ops[i].rw /\ ops[i].key = k}
    IN  IF writes = {} THEN values[k] ELSE ops[Max(writes)].value

Access(values, known, ops, i) ==
    LET found == ValueAt(values, ops, ops[i].key, i - 1)
    IN  [key |-> ops[i].key, rw |-> ops[i].rw, rollback |-> FALSE,
         read |-> found,
         written |-> IF ops[i].rw THEN ops[i].value ELSE found,
         initial |-> ops[i].key \notin known]

Execute(values, known, ops) ==
    [values |-> [k \in Keys |-> ValueAt(values, ops, k, Len(ops))],
     logs |-> [i \in 1 .. Len(ops) |-> Access(values, known, ops, i)]]

\* The slots for which RocksdbStorage::is_write_initial is false.
Known == {k \in Keys : Rocks.values[k] # None}
-----------------------------------------------------------------------------
(***************************************************************************)
(* In-flight deduplication: storage_writes_deduplicator.rs.                *)
(***************************************************************************)
NewDeduplicator ==
    [initial |-> [k \in Keys |-> None],
     modified |-> {},
     metrics |-> [initial |-> 0, repeated |-> 0],
     updates |-> <<>>]

Count(metrics, is_write_initial, by) ==
    IF is_write_initial THEN [metrics EXCEPT !.initial = @ + by]
    ELSE [metrics EXCEPT !.repeated = @ + by]

ProcessLog(d, log) ==
    LET first == IF d.initial[log.key] = None THEN log.read
                 ELSE d.initial[log.key]
        was == log.key \in d.modified
        is == first # (IF log.rollback THEN log.read ELSE log.written)
        by == IF is = was THEN 0 ELSE IF is THEN 1 ELSE -1
    IN  IF ~log.rw THEN d
        ELSE [initial |-> [d.initial EXCEPT ![log.key] = first],
              modified |-> IF is THEN d.modified \union {log.key}
                           ELSE d.modified \ {log.key},
              metrics |-> Count(d.metrics, log.initial, by),
              updates |-> IF is = was THEN d.updates
                          ELSE Append(d.updates,
                                 [key |-> log.key, insertion |-> is,
                                  initial |-> log.initial])]

\* The deduplicator, with the list of updates since it was d.
ProcessStorageLogs(d, logs) ==
    LET after[n \in 0 .. Len(logs)] ==
          IF n = 0 THEN d ELSE ProcessLog(after[n - 1], logs[n])
    IN  after[Len(logs)]

Forget(d) == [d EXCEPT !.updates = <<>>]

Apply(d, logs) == Forget(ProcessStorageLogs(d, logs))

Undo_Counters(d, item) ==
    [d EXCEPT !.metrics = Count(@, item.initial,
                                IF item.insertion THEN -1 ELSE 1)]

Undo(d, item) ==
    [d EXCEPT !.modified = IF item.insertion THEN @ \ {item.key}
                           ELSE @ \union {item.key},
              !.metrics = Count(@, item.initial,
                                IF item.insertion THEN -1 ELSE 1)]

\* The first values stay; the rest is undone, the last update first.
Rollback(d) ==
    LET last == Len(d.updates)
        undone[n \in 0 .. last] ==
          IF n = 0 THEN d ELSE Undo(undone[n - 1], d.updates[last + 1 - n])
    IN  Forget(undone[last])

ApplyAndRollback(d, logs) == Rollback(ProcessStorageLogs(d, logs))
-----------------------------------------------------------------------------
(***************************************************************************)
(* Deduplication of a whole batch: sort_storage_access.rs.  Sorting by     *)
(* slot and time, and then taking slot after slot, goes through the        *)
(* accesses of each slot in turn; sound says that no assertion failed.     *)
(***************************************************************************)
NewSlot == [initial |-> None, current |-> None, stack |-> <<>>,
            read |-> FALSE, sound |-> TRUE]

SlotStep(h, log) ==
    LET now == IF h.current = None THEN log.read ELSE h.current
        depth == Len(h.stack)
        write == log.rw /\ ~log.rollback
        rollback == log.rw /\ log.rollback
    IN  [initial |-> IF h.initial = None THEN log.read ELSE h.initial,
         current |-> IF write THEN log.written
                     ELSE IF rollback THEN log.read ELSE now,
         stack |-> IF write THEN Append(h.stack, log)
                   ELSE IF rollback THEN SubSeq(h.stack, 1, depth - 1)
                   ELSE h.stack,
         read |-> h.read \/ (~log.rw /\ depth = 0),
         sound |-> /\ h.sound
                   /\ ~rollback => log.read = now
                   /\ rollback => /\ depth > 0
                                  /\ log.read = h.stack[depth].read
                                  /\ log.written = h.stack[depth].written
                                  /\ log.written = now]

SlotHistory(logs, k) ==
    LET h[n \in 0 .. Len(logs)] ==
          IF n = 0 THEN NewSlot
          ELSE IF logs[n].key = k THEN SlotStep(h[n - 1], logs[n])
          ELSE h[n - 1]
    IN  h[Len(logs)]

Accessed(logs) == {logs[i].key : i \in DOMAIN logs}

\* A slot with another value in the end than in the beginning, and one that
\* was looked at, or written, and has the same.
NetWrites(logs) ==
    {k \in Accessed(logs) :
       LET h == SlotHistory(logs, k) IN h.initial # h.current}

NetReads(logs) ==
    {k \in Accessed(logs) :
       LET h == SlotHistory(logs, k)
       IN  h.initial = h.current /\ (h.read \/ h.stack # <<>>)}
-----------------------------------------------------------------------------
(***************************************************************************)
(* The tables.                                                             *)
(***************************************************************************)
\* extract_write_logs: the writes among the accesses of a miniblock.
WriteLogs(logs) ==
    [i \in {j \in DOMAIN logs : logs[j].rw} |->
       [key |-> logs[i].key,
        value |-> IF logs[i].rollback THEN logs[i].read ELSE logs[i].written]]

\* insert_storage_logs: the writes of miniblock m, numbered in their order.
LogRows(m, writes) ==
    {[miniblock |-> m, operation |-> Cardinality({j \in DOMAIN writes : j < i}),
      key |-> writes[i].key, value |-> writes[i].value] : i \in DOMAIN writes}

\* ORDER BY miniblock_number, operation_number
Later(q, r) ==
    \/ q.miniblock > r.miniblock
    \/ q.miniblock = r.miniblock /\ q.operation > r.operation

\* The last value slot k was given.
LatestOf(rows, k, default) ==
    LET own == {r \in rows : r.key = k}
    IN  IF own = {} THEN default
        ELSE (CHOOSE r \in own : \A q \in own : ~Later(q, r)).value

LatestOr(rows, base) == [k \in Keys |-> LatestOf(rows, k, base[k])]

\* apply_storage_logs: of several writes to a slot the last one counts.
ApplyStorageLogs_First(writes) ==
    [k \in Keys |->
       LET own == {i \in DOMAIN writes : writes[i].key = k}
       IN  IF own = {} THEN storage[k] ELSE writes[Min(own)].value]

ApplyStorageLogs(writes) ==
    [k \in Keys |->
       LET own == {i \in DOMAIN writes : writes[i].key = k}
       IN  IF own = {} THEN storage[k] ELSE writes[Max(own)].value]

\* ON CONFLICT DO NOTHING: a bytecode stays with its first miniblock.
AllDeps == UNION {miniblocks[i].deps : i \in DOMAIN miniblocks}
NewDeps(deps) == deps \ AllDeps

MiniblocksOf(b) == {i \in DOMAIN miniblocks : miniblocks[i].batch = b}

LogsOf(b) == {r \in storageLogs : miniblocks[r.miniblock].batch = b}
LogsUpTo(b) == {r \in storageLogs : miniblocks[r.miniblock].batch \in 0 .. b}

GetTouchedSlots(b) == LatestOr(LogsOf(b), [k \in Keys |-> None])
GetL1BatchFactoryDeps(b) == UNION {miniblocks[i].deps : i \in MiniblocksOf(b)}

\* Values as of the end of a batch, or of all miniblocks.
ValuesAfter(b) == LatestOr(LogsUpTo(b), [k \in Keys |-> 0])
HistoricalValues == LatestOr(storageLogs, [k \in Keys |-> 0])

FilterWrittenSlots(keys) == {k \in keys : \E r \in initialWrites : r.key = k}

InsertProtectiveReads(reads) == Append(protectiveReads, reads)

InitialWritesForBatch(b) ==
    {r.key : r \in {w \in initialWrites : w.batch = b}}

MaxSetEnumerationIndex == Max({0} \union {r.index : r \in initialWrites})

\* The rows of the slots first written in batch b, the last index given being
\* last.
IndexRows(keys, b, last) ==
    {[key |-> k, batch |-> b,
      index |-> last + Cardinality({j \in keys : j <= k})] : k \in keys}

InsertInitialWrites_Unsorted(keys, b) ==
    initialWrites \union
      {[key |-> k, batch |-> b,
        index |-> MaxSetEnumerationIndex + Cardinality({j \in keys : j >= k})] :
       k \in keys}

InsertInitialWrites(keys, b) ==
    initialWrites \union IndexRows(keys, b, MaxSetEnumerationIndex)
-----------------------------------------------------------------------------
NoMiniblock == [txs |-> 0, ops |-> <<>>, logs |-> <<>>, deps |-> {}]
NothingPending == [txs |-> 0, ops |-> <<>>, excluded |-> 0]

\* An empty RocksDB starts with batch 0.
EmptyRocksdb == [next |-> 0, values |-> [k \in Keys |-> None], deps |-> {}]

GenesisLogs == Execute([k \in Keys |-> 0], {}, GenesisOps).logs

\* insert_system_contracts: batch 0 with one miniblock.
Init ==
    /\ miniblocks = <<[batch |-> 0, deps |-> GenesisDeps]>>
    /\ storageLogs = LogRows(1, WriteLogs(GenesisLogs))
    /\ pending = NothingPending
    /\ storage = LatestOr(LogRows(1, WriteLogs(GenesisLogs)), [k \in Keys |-> 0])
    /\ initialWrites = IndexRows(NetWrites(GenesisLogs), 0, 0)
    /\ protectiveReads = <<NetReads(GenesisLogs)>>
    /\ sealed = 0
    /\ rocksdb = <<EmptyRocksdb>>
    /\ vm = [k \in Keys |-> 0]
    /\ accesses = <<>>
    /\ dedup = NewDeduplicator
    /\ mini = NoMiniblock
    /\ open = FALSE
    /\ excluded = 0
    /\ clean = TRUE

executor == <<vm, accesses, dedup, mini, excluded>>
tables == <<miniblocks, storageLogs, pending, storage, initialWrites,
            protectiveReads, sealed, clean>>

\* process_transaction_logs: an empty slot gets no entry.
ProcessTransactionLogs_NoZero(values, updates) ==
    [k \in Keys |-> IF updates[k] \in {None, 0} THEN values[k] ELSE updates[k]]

ProcessTransactionLogs(values, updates) ==
    [k \in Keys |->
       IF updates[k] # None /\ (updates[k] # 0 \/ values[k] # None)
         THEN updates[k] ELSE values[k]]

\* update_from_postgres, one batch and one write.
LoadBatch ==
    /\ ~open
    /\ Rocks.next <= sealed
    /\ rocksdb' = Append(rocksdb,
         [next |-> Rocks.next + 1,
          values |-> ProcessTransactionLogs(Rocks.values,
                                            GetTouchedSlots(Rocks.next)),
          deps |-> Rocks.deps \union GetL1BatchFactoryDeps(Rocks.next)])
    /\ UNCHANGED <<tables, executor, open>>

\* What read_value answers.
RocksValues == [k \in Keys |-> IF Rocks.values[k] = None THEN 0
                               ELSE Rocks.values[k]]

\* init_batch with RocksDB up to date, and restore_state: the transactions of
\* the pending miniblocks are executed again.
OpenBatch ==
    LET run == Execute(RocksValues, Known, pending.ops)
    IN  /\ ~open
        /\ Rocks.next = sealed + 1
        /\ open' = TRUE
        /\ vm' = run.values
        /\ accesses' = run.logs
        /\ dedup' = Apply(NewDeduplicator, run.logs)
        /\ mini' = NoMiniblock
        /\ excluded' = pending.excluded
        /\ UNCHANGED <<tables, rocksdb>>

\* process_one_tx asks the seal criteria with the deduplicator as it would
\* be, and the transaction stays: extend_from_executed_transaction then
\* applies the logs.
ExecuteTx(tx) ==
    LET run == Execute(vm, Known, tx.ops)
    IN  /\ open
        /\ pending.txs + mini.txs < MaxTxs
        /\ vm' = run.values
        /\ accesses' = accesses \o run.logs
        /\ dedup' = Apply(ApplyAndRollback(dedup, run.logs), run.logs)
        /\ mini' = [txs |-> mini.txs + 1,
                    ops |-> mini.ops \o tx.ops,
                    logs |-> mini.logs \o run.logs,
                    deps |-> mini.deps \union tx.deps]
        /\ UNCHANGED <<tables, rocksdb, open, excluded>>

\* The seal criteria answer ExcludeAndSeal or Unexecutable: the transaction
\* goes back to the mempool or is rejected, but the VM has run it.
ExcludeTx(tx) ==
    LET run == Execute(vm, Known, tx.ops)
    IN  /\ open
        /\ excluded < MaxExcluded
        /\ vm' = run.values
        /\ accesses' = accesses \o run.logs
        /\ dedup' = ApplyAndRollback(dedup, run.logs)
        /\ excluded' = excluded + 1
        /\ UNCHANGED <<tables, rocksdb, open, mini>>

\* seal_inner of a miniblock with transactions.
SealMiniblock ==
    LET writes == WriteLogs(mini.logs)
    IN  /\ open
        /\ mini.txs > 0
        /\ miniblocks' = Append(miniblocks,
                                [batch |-> None, deps |-> NewDeps(mini.deps)])
        /\ storageLogs' = storageLogs \union LogRows(Len(miniblocks) + 1, writes)
        /\ pending' = [txs |-> pending.txs + mini.txs,
                       ops |-> pending.ops \o mini.ops,
                       excluded |-> excluded]
        /\ storage' = ApplyStorageLogs(writes)
        /\ mini' = NoMiniblock
        /\ UNCHANGED <<initialWrites, protectiveReads, sealed, rocksdb, vm,
                       accesses, dedup, open, excluded, clean>>

\* seal_l1_batch: the fictive miniblock with what the VM does at the end, the
\* header, the reads and the initial writes, in one transaction.  The assertion
\* on the deduplicator comes after the commit: the process may end there.
SealL1Batch(tip) ==
    LET run == Execute(vm, Known, tip)
        all == accesses \o run.logs
        writes == WriteLogs(run.logs)
        b == sealed + 1
        net == NetWrites(all)
    IN  /\ open
        /\ mini.txs = 0
        /\ pending.txs > 0
        /\ b <= MaxBatches
        /\ miniblocks' = Append(
             [i \in 1 .. Len(miniblocks) |->
                IF Pending(miniblocks[i])
                  THEN [batch |-> b, deps |-> miniblocks[i].deps]
                  ELSE miniblocks[i]],
             [batch |-> b, deps |-> {}])
        /\ storageLogs' = storageLogs \union LogRows(Len(miniblocks) + 1, writes)
        /\ pending' = NothingPending
        /\ storage' = ApplyStorageLogs(writes)
        /\ protectiveReads' = InsertProtectiveReads(NetReads(all))
        /\ initialWrites' = InsertInitialWrites(net \ FilterWrittenSlots(net), b)
        /\ sealed' = b
        /\ open' = FALSE
        /\ vm' = [k \in Keys |-> 0]
        /\ accesses' = <<>>
        /\ dedup' = NewDeduplicator
        /\ excluded' = 0
        /\ clean' = (clean /\ excluded = 0)
        /\ UNCHANGED <<rocksdb, mini>>

\* The process ends, at any time; the last writes to RocksDB may be gone.
Crash ==
    /\ open \/ Len(rocksdb) > 1
    /\ \E n \in DOMAIN rocksdb : rocksdb' = SubSeq(rocksdb, 1, n)
    /\ open' = FALSE
    /\ vm' = [k \in Keys |-> 0]
    /\ accesses' = <<>>
    /\ dedup' = NewDeduplicator
    /\ mini' = NoMiniblock
    /\ excluded' = 0
    /\ UNCHANGED tables

Next ==
    \/ LoadBatch
    \/ OpenBatch
    \/ \E tx \in Txs : ExecuteTx(tx) \/ ExcludeTx(tx)
    \/ SealMiniblock
    \/ \E tip \in Tips : SealL1Batch(tip)
    \/ Crash

Spec == Init /\ [][Next]_vars
-----------------------------------------------------------------------------
(***************************************************************************)
(* Properties.                                                             *)
(***************************************************************************)
\* None of the assertions of sort_storage_access_queries fails, whatever the
\* VM has run.  Without an excluded transaction, what was counted in flight,
\* transaction by transaction and over restarts, is what the sorting finds in
\* the whole batch, slot by slot, initial and repeated writes apart as RocksDB
\* and, while no batch was sealed after an excluded transaction, Postgres
\* know them.
DedupAgrees ==
    open =>
      /\ \A k \in Accessed(accesses) : SlotHistory(accesses, k).sound
      /\ excluded = 0 =>
           /\ dedup.modified = NetWrites(accesses)
           /\ dedup.metrics.repeated = Cardinality(dedup.modified \intersect Known)
           /\ dedup.metrics.initial = Cardinality(dedup.modified \ Known)
           /\ clean => dedup.modified \intersect Known
                         = FilterWrittenSlots(dedup.modified)

\* get_logs_for_l1_batch: what the Merkle tree is told was written in a batch.
TreeWrites(b) ==
    LET before == IF b = 0 THEN [k \in Keys |-> 0] ELSE ValuesAfter(b - 1)
        touched == GetTouchedSlots(b)
    IN  {k \in Keys : touched[k] # None /\ touched[k] # before[k]}

\* Enumeration indices are given without gaps, in the order of batches and of
\* keys, as the tree gives its leaf indices.  While no batch was sealed after
\* an excluded transaction, the writes found in storage_logs and those found by
\* deduplicating the VM's accesses are the same: a slot has its index from the
\* first batch in which the tree meets it, and no slot with a protective read
\* was changed.
IndicesMatchTree ==
    /\ {r.index : r \in initialWrites} = 1 .. Cardinality(initialWrites)
    /\ \A q, r \in initialWrites :
         q.index < r.index <=> \/ q.batch < r.batch
                               \/ q.batch = r.batch /\ q.key < r.key
    /\ clean => \A b \in 0 .. sealed :
         /\ InitialWritesForBatch(b)
              = TreeWrites(b) \ UNION {TreeWrites(a) : a \in 0 .. b - 1}
         /\ protectiveReads[b + 1] \intersect TreeWrites(b) = {}

\* Every state RocksDB has been in, and may fall back to, is the state after a
\* sealed batch, whatever was excluded: an empty slot has no entry or the value
\* 0.  While no batch was sealed after an excluded transaction it has an entry
\* exactly for the slots with an index, so that the VM and Postgres agree on
\* which writes are initial.
RocksdbIsSealedState ==
    \A i \in DOMAIN rocksdb :
      LET r == rocksdb[i]
          after == ValuesAfter(r.next - 1)
      IN  /\ r.next <= sealed + 1
          /\ \A k \in Keys : \/ r.values[k] = after[k]
                             \/ r.values[k] = None /\ after[k] = 0
          /\ r.deps = UNION {GetL1BatchFactoryDeps(b) : b \in 0 .. r.next - 1}
          /\ clean => \A k \in Keys :
               r.values[k] # None <=>
                 \E w \in initialWrites : w.key = k /\ w.batch < r.next

\* Table storage is what the rows of storage_logs add up to, which is what the
\* API answers from.  Until a transaction is excluded the VM works on the
\* latest state, after a restart too: its values are those of the table with
\* the open miniblock on top.
VmSeesState ==
    /\ storage = HistoricalValues
    /\ open /\ excluded = 0 => vm = ApplyStorageLogs(WriteLogs(mini.logs))
=============================================================================
