----------------------------- MODULE Sequencer -----------------------------
(***************************************************************************)
(* The main loop of the sequencer: how transactions become miniblocks and  *)
(* L1 batches.                                                             *)
(*                                                                         *)
(* The loop (sequencer/sequencer.rs with io/mempool.rs) fills a miniblock, *)
(* hands it to the miniblock sealer, a task of its own behind a bounded    *)
(* queue (io/mod.rs), and closes the batch when a criterion or a deadline  *)
(* says so (seal_criteria).  Closing writes the execution traces to the    *)
(* object store, waits for the sealer and seals the batch in Postgres      *)
(* (io/seal_logic.rs).  The next batch needs the root hash of this one,    *)
(* which the metadata calculator computes in its own time.                 *)
(*                                                                         *)
(* The process may stop between any two steps.  It then re-executes the    *)
(* miniblocks that no batch contains (load_pending_batch, restore_state).  *)
(*                                                                         *)
(* Time is in seconds, the precision of block timestamps; a deadline of d  *)
(* stands for d s and 999 ms, so that it has passed when the clock shows   *)
(* more than d seconds.  The mempool is a set here: module TxPool looks    *)
(* into it.                                                                *)
(***************************************************************************)
EXTENDS Integers, Sequences, FiniteSets, FiniteSetsExt

CONSTANTS
    Tx,                 \* transactions, with the size of their encoding
    TransactionSlots,   \* `transaction_slots'
    EncodingSpace,      \* TX_ENCODING_SPACE
    RejectBound,        \* the part of it a single transaction may take
    CloseBound,         \* the part of it that closes a batch
    BatchDeadline,      \* `block_commit_deadline_ms'
    MiniblockDeadline,  \* `miniblock_commit_deadline_ms'
    SealQueueCapacity,  \* `miniblock_seal_queue_capacity'
    UpgradeAt,          \* when protocol version 1 becomes active
    UpgradeHasTx,       \* whether version 1 comes with an upgrade transaction
    MaxCrashes,         \* bound on crashes
    MaxClockBack        \* bound on the times the system clock is set back

ASSUME SequencerAssumption ==
    /\ Tx \subseteq [id : Nat, size : Nat \ {0}]
    /\ IsFiniteSet(Tx)
    /\ {TransactionSlots, EncodingSpace, CloseBound} \subseteq Nat \ {0}
    /\ RejectBound \in 0..EncodingSpace
    /\ {BatchDeadline, UpgradeAt, SealQueueCapacity, MaxCrashes, MaxClockBack} \subseteq Nat
    /\ MiniblockDeadline \in Nat \ {0}  \* at least 1000 ms
    /\ UpgradeHasTx \in BOOLEAN

VARIABLES
    clock,         \* system time
    miniblocks,    \* table `miniblocks' with the transactions of each, by number
    l1_batches,    \* table `l1_batches', by number
    hashed,        \* the last batch whose root hash is known
    object_store,  \* transactions of the traces stored for each batch
    pool,          \* transactions the mempool can hand out
    rejected,      \* transactions marked as rejected
    pc,            \* where the sequencer is
    resume,        \* where it goes on when it has the next miniblock's timestamp
    um,            \* `UpdatesManager'
    vm,            \* transactions the batch executor's VM has executed
    current_l1_batch_number, current_miniblock_number,
    sealed_version,  \* protocol version of the last batch this process sealed
    queue,         \* commands of the miniblock sealer, the head being sealed
    crashes, clock_back

dbVars == <<miniblocks, l1_batches, hashed, object_store>>
memVars == <<resume, um, vm, current_l1_batch_number, current_miniblock_number, sealed_version>>
bounds == <<crashes, clock_back>>
vars == <<clock, dbVars, pool, rejected, pc, memVars, queue, bounds>>

-----------------------------------------------------------------------------
Null == -1  \* SQL's NULL, Rust's None

Put(f, k, v) == [x \in DOMAIN f \cup {k} |-> IF x = k THEN v ELSE f[x]]

\* base_system_contracts_by_timestamp.
VersionAt(t) == IF t >= UpgradeAt THEN 1 ELSE 0

\* UpdatesManager::new.
NewUpdates(t, version) ==
    [batch_timestamp |-> t, version |-> version,
     l1_batch |-> {}, miniblock |-> {}, timestamp |-> t]

\* pending_executed_transactions.
PendingTxs == um.l1_batch \cup um.miniblock

\* extend_from_executed_transaction.
Extended(tx) == [um EXCEPT !.miniblock = @ \cup {tx}]

\* push_miniblock.
PushMiniblock(t) ==
    [um EXCEPT !.l1_batch = PendingTxs, !.miniblock = {}, !.timestamp = t]

TotalSize(S) == MapThenSumSet(LAMBDA tx : tx.size, S)

\* millis_since wraps around when the clock is behind the timestamp.
Passed(deadline, t) == clock < t \/ clock - t > deadline

\* Mutant: the same second will do.
SleepPast_SameSecond(t) == clock >= t

\* sleep_past returns a timestamp past the given one.
SleepPast(t) == clock > t

-----------------------------------------------------------------------------
(* Tables. *)

NewestBatch == Max(DOMAIN l1_batches)
SealedMiniblock == Max(DOMAIN miniblocks)

\* insert_miniblock: no batch contains the miniblock yet.
InsertMiniblock(table, number, timestamp, txs, version) ==
    Put(table, number, [timestamp |-> timestamp, txs |-> txs, version |-> version,
                        l1_batch_number |-> Null])

\* Mutant: the UPDATE has no condition.
MarkMiniblocks_All(table, b) ==
    [n \in DOMAIN table |-> [table[n] EXCEPT !.l1_batch_number = b]]

\* mark_miniblocks_as_executed_in_l1_batch: those that have no batch.
MarkMiniblocks(table, b) ==
    [n \in DOMAIN table |->
        IF table[n].l1_batch_number = Null THEN [table[n] EXCEPT !.l1_batch_number = b]
        ELSE table[n]]

\* insert_l1_batch.
InsertL1Batch ==
    l1_batches' = Put(l1_batches, current_l1_batch_number,
        [timestamp |-> um.batch_timestamp, version |-> um.version, txs |-> um.l1_batch])

\* get_l1_batch_state_root_and_timestamp finds a root hash.
HasStateRoot(b) == b <= hashed

\* wait_for_prev_l1_batch_params polls until the root hash is there.
PrevBatchHashed(b) == HasStateRoot(b - 1)

\* get_miniblock_timestamp of the previous miniblock.
PrevMiniblockTimestamp == miniblocks[current_miniblock_number - 1].timestamp

-----------------------------------------------------------------------------
(* Seal criteria. *)

\* SlotsCriterion.
SlotsCriterion(tx) ==
    IF Cardinality(PendingTxs) + 1 >= TransactionSlots THEN "IncludeAndSeal" ELSE "NoSeal"

\* Mutant: a batch that is too large is only closed.
TxEncodingSizeCriterion_Includes(tx) ==
    IF tx.size > RejectBound THEN "Unexecutable"
    ELSE IF TotalSize(PendingTxs) + tx.size > CloseBound THEN "IncludeAndSeal"
    ELSE "NoSeal"

\* TxEncodingSizeCriterion.
TxEncodingSizeCriterion(tx) ==
    LET block == TotalSize(PendingTxs) + tx.size
    IN  IF tx.size > RejectBound THEN "Unexecutable"
        ELSE IF block > EncodingSpace THEN "ExcludeAndSeal"
        ELSE IF block > CloseBound THEN "IncludeAndSeal"
        ELSE "NoSeal"

\* SealResolution::stricter.
Stricter(found) ==
    IF "Unexecutable" \in found THEN "Unexecutable"
    ELSE IF "ExcludeAndSeal" \in found THEN "ExcludeAndSeal"
    ELSE IF "IncludeAndSeal" \in found THEN "IncludeAndSeal"
    ELSE "NoSeal"

should_seal_l1_batch(tx) == Stricter({SlotsCriterion(tx), TxEncodingSizeCriterion(tx)})

\* process_one_tx: the criteria are asked for a transaction that the VM has
\* executed; the executor's other error, a revert, makes it unexecutable.
process_one_tx(tx, result) ==
    IF result = "RejectedByVm" THEN "Unexecutable" ELSE should_seal_l1_batch(tx)

\* Mutant: no deadline for batches.
should_seal_l1_batch_unconditionally_Never == FALSE

should_seal_l1_batch_unconditionally ==
    PendingTxs # {} /\ Passed(BatchDeadline, um.batch_timestamp)

should_seal_miniblock ==
    um.miniblock # {} /\ Passed(MiniblockDeadline, um.timestamp)

-----------------------------------------------------------------------------
(* The batch executor and the miniblock sealer's queue. *)

\* What BatchExecutor::tx makes of a transaction; the VM itself is external.
ExecutionResult == {"Success", "RejectedByVm"}

MaxQueued == IF SealQueueCapacity = 0 THEN 1 ELSE SealQueueCapacity

\* seal_miniblock_command.
SealMiniblockCommand ==
    [number |-> current_miniblock_number, timestamp |-> um.timestamp,
     txs |-> um.miniblock, version |-> um.version]

\* seal_miniblock: submit waits for a place in the queue.  The command the
\* sealer works on has left the queue.
SubmitMiniblock ==
    /\ Len(queue) <= MaxQueued
    /\ queue' = Append(queue, SealMiniblockCommand)
    /\ current_miniblock_number' = current_miniblock_number + 1

\* Mutant: nobody waits.
AllCommandsDone_Unchecked == TRUE

\* wait_for_all_commands.
AllCommandsDone == queue = <<>>

\* MiniblockSealer::run: the commands are sealed one by one, in their order.
NextCommand == Head(queue)

\* MiniblockSealCommand::seal in one SQL transaction.
SealMiniblock ==
    /\ queue # <<>>
    /\ NextCommand.number \notin DOMAIN miniblocks  \* primary key
    /\ miniblocks' = InsertMiniblock(miniblocks, NextCommand.number, NextCommand.timestamp,
                                     NextCommand.txs, NextCommand.version)
    /\ queue' = Tail(queue)
    /\ UNCHANGED <<clock, l1_batches, hashed, object_store, pool, rejected, pc, memVars, bounds>>

-----------------------------------------------------------------------------
(* The sequencer. *)

\* The first miniblock after the newest batch, sealed or not.
FirstPending == Max({n \in DOMAIN miniblocks : miniblocks[n].l1_batch_number = NewestBatch}) + 1

\* MempoolIO::new and load_pending_batch that finds nothing.
StartFresh ==
    /\ pc = "start"
    /\ FirstPending \notin DOMAIN miniblocks
    /\ current_l1_batch_number' = NewestBatch + 1
    /\ current_miniblock_number' = SealedMiniblock + 1
    /\ pc' = "new_batch"
    /\ UNCHANGED <<clock, dbVars, pool, rejected, resume, um, vm, sealed_version, queue, bounds>>

\* Mutant: the protocol version of the present, not of the pending batch.
PendingParams_CurrentVersion ==
    NewUpdates(miniblocks[FirstPending].timestamp, VersionAt(clock))

\* load_pending_batch opens the batch with the parameters of its first miniblock.
PendingParams ==
    NewUpdates(miniblocks[FirstPending].timestamp, miniblocks[FirstPending].version)

\* get_miniblocks_to_reexecute, from the `transactions' table.
MiniblocksToReexecute ==
    {n \in DOMAIN miniblocks : miniblocks[n].txs # {} /\ miniblocks[n].l1_batch_number = Null}

\* load_pending_batch that finds a miniblock, and restore_state: every pending
\* miniblock is executed again.
RestoreState ==
    /\ pc = "start"
    /\ FirstPending \in DOMAIN miniblocks
    /\ PrevBatchHashed(NewestBatch + 1)
    /\ LET pending == UNION {miniblocks[n].txs : n \in MiniblocksToReexecute}
           last    == miniblocks[Max(MiniblocksToReexecute)]
       IN  /\ um' = [PendingParams EXCEPT !.l1_batch = pending \ last.txs,
                                          !.miniblock = last.txs, !.timestamp = last.timestamp]
           /\ vm' = pending
    /\ current_l1_batch_number' = NewestBatch + 1
    /\ current_miniblock_number' = SealedMiniblock + 1
    /\ pc' = "miniblock_params" /\ resume' = "loop"
    /\ UNCHANGED <<clock, dbVars, pool, rejected, sealed_version, queue, bounds>>

\* The upgrade transaction of a version is looked up (load_upgrade_tx) only in
\* a process that sealed a batch of another version before.
HasUpgradeTx(version) == sealed_version # Null /\ version # sealed_version /\ UpgradeHasTx

\* wait_for_new_batch_params: a transaction waits, the previous batch has its
\* root hash, the clock is past the previous miniblock.
OpenBatch ==
    /\ pc = "new_batch"
    /\ pool # {}
    /\ PrevBatchHashed(current_l1_batch_number)
    /\ SleepPast(PrevMiniblockTimestamp)
    /\ um' = NewUpdates(clock, VersionAt(clock))
    /\ vm' = {}
    /\ pc' = IF HasUpgradeTx(VersionAt(clock)) THEN "upgrade" ELSE "loop"
    /\ UNCHANGED <<clock, dbVars, pool, rejected, resume, current_l1_batch_number,
                   current_miniblock_number, sealed_version, queue, bounds>>

\* wait_for_new_batch_params without a transaction: poll again.
NoBatchParams == pc = "new_batch" /\ pool = {} /\ UNCHANGED vars

\* wait_for_new_miniblock_params and push_miniblock.  A synchronous submit
\* has waited for the sealer before.
NewMiniblock ==
    /\ pc = "miniblock_params"
    /\ SealQueueCapacity = 0 => AllCommandsDone
    /\ SleepPast(um.timestamp)
    /\ um' = PushMiniblock(clock)
    /\ pc' = resume
    /\ UNCHANGED <<clock, dbVars, pool, rejected, resume, vm, current_l1_batch_number,
                   current_miniblock_number, sealed_version, queue, bounds>>

\* The head of the loop in process_l1_batch: batch deadline, then miniblock
\* deadline, then the next transaction.
CloseOnDeadline ==
    /\ pc = "loop"
    /\ should_seal_l1_batch_unconditionally
    /\ pc' = "finish"
    /\ UNCHANGED <<clock, dbVars, pool, rejected, memVars, queue, bounds>>

MiniblockOnDeadline ==
    /\ pc = "loop"
    /\ ~should_seal_l1_batch_unconditionally
    /\ should_seal_miniblock
    /\ SubmitMiniblock
    /\ pc' = "miniblock_params" /\ resume' = "take"
    /\ UNCHANGED <<clock, dbVars, pool, rejected, um, vm, current_l1_batch_number,
                   sealed_version, bounds>>

NoDeadline ==
    /\ pc = "loop"
    /\ ~should_seal_l1_batch_unconditionally
    /\ ~should_seal_miniblock
    /\ pc' = "take"
    /\ UNCHANGED <<clock, dbVars, pool, rejected, memVars, queue, bounds>>

\* wait_for_next_tx ran into its timeout.
NoNextTx ==
    /\ pc = "take"
    /\ pool = {}
    /\ pc' = "loop"
    /\ UNCHANGED <<clock, dbVars, pool, rejected, memVars, queue, bounds>>

\* Mutant: a transaction stays in the mempool when it is executed.
ExecuteTx_StaysInPool(tx, result) ==
    LET resolution == process_one_tx(tx, result)
    IN  /\ pc = "take"
        /\ vm' = IF result = "Success" THEN vm \cup {tx} ELSE vm
        /\ rejected' = IF resolution = "Unexecutable" THEN rejected \cup {tx} ELSE rejected
        /\ um' = IF resolution \in {"NoSeal", "IncludeAndSeal"} THEN Extended(tx) ELSE um
        /\ pc' = IF resolution \in {"IncludeAndSeal", "ExcludeAndSeal"} THEN "finish" ELSE "loop"
        /\ UNCHANGED <<clock, dbVars, pool, resume, current_l1_batch_number,
                       current_miniblock_number, sealed_version, queue, bounds>>

\* Included, excluded (and put back) or rejected, as process_one_tx resolves.
\* What the VM executed without a revert stays executed: it has no command to
\* undo that.
ExecuteTx(tx, result) ==
    LET resolution == process_one_tx(tx, result)
    IN  /\ pc = "take"
        /\ vm' = IF result = "Success" THEN vm \cup {tx} ELSE vm
        /\ pool' = IF resolution = "ExcludeAndSeal" THEN pool ELSE pool \ {tx}
        /\ rejected' = IF resolution = "Unexecutable" THEN rejected \cup {tx} ELSE rejected
        /\ um' = IF resolution \in {"NoSeal", "IncludeAndSeal"} THEN Extended(tx) ELSE um
        /\ pc' = IF resolution \in {"IncludeAndSeal", "ExcludeAndSeal"} THEN "finish" ELSE "loop"
        /\ UNCHANGED <<clock, dbVars, resume, current_l1_batch_number, current_miniblock_number,
                       sealed_version, queue, bounds>>

\* Finish the batch: a last miniblock with transactions is sealed, and the
\* fictive miniblock gets a timestamp of its own.
SealLastMiniblock ==
    /\ pc = "finish"
    /\ um.miniblock # {}
    /\ SubmitMiniblock
    /\ pc' = "miniblock_params" /\ resume' = "finish"
    /\ UNCHANGED <<clock, dbVars, pool, rejected, um, vm, current_l1_batch_number,
                   sealed_version, bounds>>

\* Mutant: traces that are already stored for the number are kept.
FinishBatch_KeepsStored ==
    /\ pc = "finish"
    /\ um.miniblock = {}
    /\ object_store' = IF current_l1_batch_number \in DOMAIN object_store THEN object_store
                       ELSE Put(object_store, current_l1_batch_number, vm)
    /\ pc' = "seal"
    /\ UNCHANGED <<clock, miniblocks, l1_batches, hashed, pool, rejected, memVars, queue, bounds>>

\* finish_batch, and the traces go to the object store.
FinishBatch ==
    /\ pc = "finish"
    /\ um.miniblock = {}
    /\ object_store' = Put(object_store, current_l1_batch_number, vm)
    /\ pc' = "seal"
    /\ UNCHANGED <<clock, miniblocks, l1_batches, hashed, pool, rejected, memVars, queue, bounds>>

\* seal_l1_batch: one SQL transaction inserts the fictive miniblock and the
\* batch, and gives its number to every miniblock that has none.  After the
\* commit it asserts that the VM and the updates name the same initial writes,
\* which an excluded transaction may have made false (StateStorage): that panic
\* is a Crash right after this step.
SealL1Batch ==
    /\ pc = "seal"
    /\ AllCommandsDone
    /\ PrevBatchHashed(current_l1_batch_number)
    /\ current_miniblock_number \notin DOMAIN miniblocks
    /\ miniblocks' = MarkMiniblocks(
          InsertMiniblock(miniblocks, current_miniblock_number, um.timestamp,
                          um.miniblock, um.version),
          current_l1_batch_number)
    /\ InsertL1Batch
    /\ current_miniblock_number' = current_miniblock_number + 1
    /\ current_l1_batch_number' = current_l1_batch_number + 1
    /\ sealed_version' = um.version
    /\ pc' = "new_batch"
    /\ UNCHANGED <<clock, hashed, object_store, pool, rejected, resume, um, vm, queue, bounds>>

-----------------------------------------------------------------------------
(* Crash, clock, mempool and metadata calculator. *)

\* Everything in memory is lost.
Reset ==
    /\ pc' = "start" /\ resume' = "loop"
    /\ um' = NewUpdates(0, 0) /\ vm' = {}
    /\ current_l1_batch_number' = 0 /\ current_miniblock_number' = 0
    /\ sealed_version' = Null
    /\ queue' = <<>> /\ pool' = {}
    /\ UNCHANGED <<clock, dbVars, rejected>>

Crash ==
    /\ crashes < MaxCrashes
    /\ crashes' = crashes + 1
    /\ Reset
    /\ UNCHANGED clock_back

\* process_upgrade_tx: the batch executor panics on a transaction that is not
\* an L2 transaction.
ProcessUpgradeTx ==
    /\ pc = "upgrade"
    /\ Reset
    /\ UNCHANGED bounds

\* Transactions that are in a miniblock or on their way into one.
Handled == UNION {miniblocks[n].txs : n \in DOMAIN miniblocks}
             \cup UNION {queue[i].txs : i \in 1..Len(queue)} \cup PendingTxs

\* The mempool fetcher brings a transaction.
Arrive(tx) ==
    /\ tx \notin pool \cup rejected \cup Handled
    /\ pool' = pool \cup {tx}
    /\ UNCHANGED <<clock, dbVars, rejected, pc, memVars, queue, bounds>>

\* Mutant: one batch too far.
SaveRootHash_TooFar ==
    /\ hashed <= NewestBatch
    /\ hashed' = hashed + 1
    /\ UNCHANGED <<clock, miniblocks, l1_batches, object_store, pool, rejected, pc, memVars,
                   queue, bounds>>

\* The metadata calculator computes the root hash of the next batch.
SaveRootHash ==
    /\ hashed < NewestBatch
    /\ hashed' = hashed + 1
    /\ UNCHANGED <<clock, miniblocks, l1_batches, object_store, pool, rejected, pc, memVars,
                   queue, bounds>>

\* A second passes.  No deadline tells apart later times than this bound.
LatestTimestamp == Max({um.timestamp, miniblocks[SealedMiniblock].timestamp})
Horizon == LatestTimestamp + 1 + (IF pc \in {"loop", "take"} THEN Max({BatchDeadline, MiniblockDeadline}) ELSE 0)

Tick ==
    /\ clock < Horizon
    /\ clock' = clock + 1
    /\ UNCHANGED <<dbVars, pool, rejected, pc, memVars, queue, bounds>>

\* The system time is set back.
ClockBack ==
    /\ clock_back < MaxClockBack
    /\ clock_back' = clock_back + 1
    /\ clock' \in 0..(clock - 1)
    /\ UNCHANGED <<dbVars, pool, rejected, pc, memVars, queue, crashes>>

-----------------------------------------------------------------------------
Init ==
    /\ clock = 1
    /\ miniblocks = [n \in {0} |-> [timestamp |-> 0, txs |-> {}, version |-> 0, l1_batch_number |-> 0]]
    /\ l1_batches = [n \in {0} |-> [timestamp |-> 0, version |-> 0, txs |-> {}]]
    /\ hashed = 0
    /\ object_store = [n \in {} |-> {}]
    /\ pool = {} /\ rejected = {}
    /\ pc = "start" /\ resume = "loop"
    /\ um = NewUpdates(0, 0) /\ vm = {}
    /\ current_l1_batch_number = 0 /\ current_miniblock_number = 0
    /\ sealed_version = Null
    /\ queue = <<>>
    /\ crashes = 0 /\ clock_back = 0

Step == \/ StartFresh \/ RestoreState \/ NoBatchParams \/ OpenBatch \/ NewMiniblock
        \/ CloseOnDeadline \/ MiniblockOnDeadline \/ NoDeadline
        \/ NoNextTx \/ (\E tx \in pool, result \in ExecutionResult : ExecuteTx(tx, result))
        \/ SealLastMiniblock \/ FinishBatch \/ SealL1Batch \/ ProcessUpgradeTx

Next ==
    \/ Step \/ SealMiniblock \/ SaveRootHash
    \/ \E tx \in Tx : Arrive(tx)
    \/ Tick \/ ClockBack \/ Crash

Spec == Init /\ [][Next]_vars

\* Every task keeps running and time passes.
FairSpec ==
    /\ Spec
    /\ WF_vars(Step) /\ WF_vars(SealMiniblock) /\ WF_vars(SaveRootHash) /\ WF_vars(Tick)
    /\ WF_vars(\E tx \in Tx : Arrive(tx))

-----------------------------------------------------------------------------
(* Properties. *)

MiniblocksOf(b) == {n \in DOMAIN miniblocks : miniblocks[n].l1_batch_number = b}

\* Types of the tables and of the sequencer's state.
TypeOK ==
    /\ clock \in Nat /\ hashed \in DOMAIN l1_batches
    /\ \A n \in DOMAIN miniblocks :
          miniblocks[n] \in [timestamp : Nat, txs : SUBSET Tx, version : {0, 1},
                             l1_batch_number : DOMAIN l1_batches \cup {Null}]
    /\ \A b \in DOMAIN l1_batches :
          l1_batches[b] \in [timestamp : Nat, version : {0, 1}, txs : SUBSET Tx]
    /\ \A b \in DOMAIN object_store : object_store[b] \subseteq Tx
    /\ pool \subseteq Tx /\ rejected \subseteq Tx /\ vm \subseteq Tx
    /\ pc \in {"start", "new_batch", "upgrade", "miniblock_params", "loop", "take", "finish", "seal"}
    /\ um \in [batch_timestamp : Nat, version : {0, 1}, l1_batch : SUBSET Tx,
               miniblock : SUBSET Tx, timestamp : Nat]

\* The numbers the sequencer counts in memory stay in step with the tables
\* and the sealer's queue, through restarts too: no INSERT meets a number
\* that exists and none leaves a gap.
NumbersTrackDb ==
    /\ DOMAIN miniblocks = 0..SealedMiniblock /\ DOMAIN l1_batches = 0..NewestBatch
    /\ \A i \in 1..Len(queue) : queue[i].number = SealedMiniblock + i
    /\ pc # "start" => /\ current_miniblock_number = SealedMiniblock + Len(queue) + 1
                       /\ current_l1_batch_number = NewestBatch + 1

\* "We cannot create two L1 batches or miniblocks with the same timestamp":
\* timestamps increase strictly from miniblock to miniblock and from batch to
\* batch, sealed, queued or open, whatever the system clock does.
TimestampsIncrease ==
    /\ \A m, n \in DOMAIN miniblocks : m < n => miniblocks[m].timestamp < miniblocks[n].timestamp
    /\ \A i, j \in 1..Len(queue) : i < j => queue[i].timestamp < queue[j].timestamp
    /\ \A i \in 1..Len(queue) : miniblocks[SealedMiniblock].timestamp < queue[i].timestamp
    /\ \A b, c \in DOMAIN l1_batches : b < c => l1_batches[b].timestamp < l1_batches[c].timestamp

\* A sealed batch is a run of consecutive miniblocks: at least one with
\* transactions, then a fictive one; its timestamp and protocol version are
\* those of its miniblocks ("all the parameters (e.g. timestamp) are the
\* same" after a restart) and its transactions are exactly theirs.
BatchIsItsMiniblocks ==
    \A b \in DOMAIN l1_batches \ {0} :
        LET M == MiniblocksOf(b)
        IN  /\ Cardinality(M) >= 2 /\ M = Min(M)..Max(M)
            /\ \A n \in M : miniblocks[n].txs = {} <=> n = Max(M)
            /\ \A n \in M : miniblocks[n].version = l1_batches[b].version
            /\ l1_batches[b].timestamp = miniblocks[Min(M)].timestamp
            /\ l1_batches[b].txs = UNION {miniblocks[n].txs : n \in M}
            /\ b # 1 => Min(M) = Max(MiniblocksOf(b - 1)) + 1

\* No transaction is in two miniblocks, and a rejected one is in none.
ExecutedOnce ==
    /\ \A m, n \in DOMAIN miniblocks : m # n => miniblocks[m].txs \cap miniblocks[n].txs = {}
    /\ \A n \in DOMAIN miniblocks : miniblocks[n].txs \cap rejected = {}

\* The traces stored for a sealed batch are those of its transactions: the
\* deduplicated writes of the VM and of the included transactions agree
\* ("Results of in-flight and common deduplications are mismatched").
WitnessMatchesBatch ==
    \A b \in DOMAIN l1_batches \ {0} :
        b \in DOMAIN object_store /\ object_store[b] = l1_batches[b].txs

\* The encoding of a batch, sealed or open, fits its space.
SizeRespected ==
    /\ \A b \in DOMAIN l1_batches : TotalSize(l1_batches[b].txs) <= EncodingSpace
    /\ TotalSize(PendingTxs) <= EncodingSpace

\* What is sealed stays: no crash or restart changes a sealed miniblock, a
\* sealed batch or the traces of a sealed batch.
SealedIsFinal ==
    [][/\ \A n \in DOMAIN miniblocks :
             /\ n \in DOMAIN miniblocks'
             /\ miniblocks'[n].txs = miniblocks[n].txs
             /\ miniblocks'[n].timestamp = miniblocks[n].timestamp
             /\ miniblocks[n].l1_batch_number # Null => miniblocks'[n] = miniblocks[n]
       /\ \A b \in DOMAIN l1_batches : b \in DOMAIN l1_batches' /\ l1_batches'[b] = l1_batches[b]
       /\ \A b \in DOMAIN l1_batches \cap DOMAIN object_store :
             object_store'[b] = object_store[b]]_vars

\* A transaction that the mempool offers ends in a sealed batch or rejected.
OfferedIsSettled ==
    \A tx \in Tx : tx \in pool ~>
        (tx \in rejected \/ \E b \in DOMAIN l1_batches : tx \in l1_batches[b].txs)
=============================================================================
