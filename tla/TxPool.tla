------------------------------- MODULE TxPool -------------------------------
(***************************************************************************)
(* The life of an L2 transaction: accepted by the API server, kept in the  *)
(* `transactions' table, fetched into the mempool, executed by the         *)
(* sequencer and sealed in a miniblock and an L1 batch, or rejected.       *)
(*                                                                         *)
(* Four tasks run concurrently and share two things, the mempool (module   *)
(* Mempool, behind a mutex) and the table (Postgres):                      *)
(*   - API requests        (api_server/tx_sender/mod.rs),                  *)
(*   - the mempool fetcher (sequencer/mempool_actor.rs),                   *)
(*   - the sequencer       (sequencer/sequencer.rs, io/mempool.rs),        *)
(*   - the miniblock sealer (sequencer/io/mod.rs, io/seal_logic.rs).       *)
(* A step is one critical section of the mutex, one SQL statement or one   *)
(* SQL transaction.  The process may stop between any two of them and is   *)
(* then started again with what the table holds.                           *)
(***************************************************************************)
EXTENDS Mempool, Sequences

CONSTANTS
    MaxNonceAhead,      \* `TxSenderConfig::max_nonce_ahead'
    SyncBatchSize,      \* `MempoolConfig::sync_batch_size'
    SealQueueCapacity,  \* `miniblock_seal_queue_capacity'
    RemoveStuckTxs,     \* `MempoolConfig::remove_stuck_txs'
    MaxSubmissions,     \* bound on API requests
    MaxRestarts         \* bound on restarts that no panic explains

ASSUME TxPoolAssumption ==
    /\ MaxNonceAhead \in Nat
    /\ SyncBatchSize \in Nat \ {0}
    /\ SealQueueCapacity \in Nat
    /\ RemoveStuckTxs \in BOOLEAN
    /\ MaxSubmissions \in Nat
    /\ MaxRestarts \in Nat

\* The hash covers the initiator and the nonce.
ASSUME HashAssumption ==
    \A t, u \in Transaction : t.hash = u.hash => Key(t) = Key(u)

VARIABLES
    rows,       \* table `transactions', unique on (initiator_address, nonce)
    committed,  \* nonces in table `storage'
    ledger,     \* sealed miniblocks, each the set of its transactions
    batched,    \* how many miniblocks are part of a sealed L1 batch
    fetcher,    \* where the fetcher is and what it carries
    stage,      \* where the sequencer is
    handling,   \* transaction the sequencer took out of the mempool's books
    open,       \* transactions of the open miniblock
    batch_txs,  \* transactions of the open L1 batch (`L1BatchUpdates')
    sealing,    \* miniblocks submitted to the sealer and not yet committed
    vm_nonce,   \* nonces in the state of the batch executor's VM
    submissions, restarts

dbVars == <<rows, committed, ledger, batched>>
seqVars == <<stage, handling, open, batch_txs, sealing, vm_nonce>>
bounds == <<submissions, restarts>>
vars == <<mempoolVars, dbVars, fetcher, seqVars, bounds>>

-----------------------------------------------------------------------------
(* The table. *)

Row(tx) == [tx |-> tx, in_mempool |-> FALSE, error |-> FALSE,
            miniblock |-> 0, in_batch |-> FALSE]  \* miniblock 0 stands for NULL

Put(f, k, v) == [x \in DOMAIN f \cup {k} |-> IF x = k THEN v ELSE f[x]]

Without(f, S) == [x \in DOMAIN f \ S |-> f[x]]

\* INSERT ... ON CONFLICT (initiator_address, nonce) DO UPDATE ... WHERE
\* miniblock_number IS NULL.
insert_transaction_l2(tx) ==
    IF Key(tx) \in DOMAIN rows /\ rows[Key(tx)].miniblock # 0
    THEN rows                          \* AlreadyExecuted
    ELSE Put(rows, Key(tx), Row(tx))   \* Added or Replaced

\* Mutant: the hash in the row is not overwritten.
mark_txs_as_executed_in_miniblock_KeepsHash(n, txs) ==
    [k \in DOMAIN rows |->
        IF k \in Keys(txs)
        THEN [rows[k] EXCEPT !.in_mempool = FALSE, !.error = FALSE, !.miniblock = n]
        ELSE rows[k]]

\* UPDATE by (initiator_address, nonce) that overwrites everything but the
\* arrival time; a transaction without a row is skipped.
mark_txs_as_executed_in_miniblock(n, txs) ==
    [k \in DOMAIN rows |->
        IF k \in Keys(txs)
        THEN LET t == CHOOSE t \in txs : Key(t) = k
             IN  [rows[k] EXCEPT !.tx = [t EXCEPT !.received_at_ms = rows[k].tx.received_at_ms],
                                 !.in_mempool = FALSE, !.error = FALSE, !.miniblock = n]
        ELSE rows[k]]

\* UPDATE by hash.
mark_tx_as_rejected(hash) ==
    [k \in DOMAIN rows |-> IF rows[k].tx.hash = hash
                           THEN [rows[k] EXCEPT !.error = TRUE] ELSE rows[k]]

\* UPDATE by hash.
mark_txs_as_executed_in_l1_batch(txs) ==
    [k \in DOMAIN rows |-> IF rows[k].tx.hash \in {t.hash : t \in txs}
                           THEN [rows[k] EXCEPT !.in_batch = TRUE] ELSE rows[k]]

\* Rows that sync_mempool may fetch.
Fetchable == {k \in DOMAIN rows : /\ rows[k].miniblock = 0
                                  /\ ~rows[k].in_mempool
                                  /\ ~rows[k].error}

\* Rows of miniblocks that no L1 batch contains yet (get_miniblocks_to_reexecute).
PendingRows == {k \in DOMAIN rows : rows[k].miniblock # 0 /\ ~rows[k].in_batch}

-----------------------------------------------------------------------------
(* API server. *)

\* submit_tx: the nonce is validated against the sealed state of an earlier
\* moment, then the transaction is written.
SubmitTx(tx) ==
    /\ submissions < MaxSubmissions
    /\ \E expected \in 0..committed[tx.account] :
          expected <= tx.nonce /\ tx.nonce <= expected + MaxNonceAhead
    /\ rows' = insert_transaction_l2(tx)
    /\ submissions' = submissions + 1
    /\ UNCHANGED <<mempoolVars, committed, ledger, batched, fetcher, seqVars, restarts>>

-----------------------------------------------------------------------------
(* Mempool fetcher. *)

At(pc) == [pc |-> pc, purged |-> {}, batch |-> {}, nonces |-> [a \in {} |-> 0]]

\* Start of MempoolFetcher::run: remove_stuck_txs, if configured, deletes the
\* waiting rows older than some moment, then reset_mempool clears the flags.
FetcherStart ==
    /\ fetcher.pc = "start"
    /\ \E stuck \in SUBSET {k \in DOMAIN rows : rows[k].miniblock = 0 /\ ~rows[k].error} :
          /\ stuck # {} => RemoveStuckTxs
          /\ \A k \in stuck : \A l \in DOMAIN rows :
                (rows[l].miniblock = 0 /\ ~rows[l].error /\ rows[l].tx.received_at_ms < rows[k].tx.received_at_ms)
                    => l \in stuck
          /\ rows' = [k \in DOMAIN rows \ stuck |-> [rows[k] EXCEPT !.in_mempool = FALSE]]
    /\ fetcher' = At("info")
    /\ UNCHANGED <<mempoolVars, committed, ledger, batched, seqVars, bounds>>

\* get_mempool_info, with its garbage collection.
FetcherInfo ==
    /\ fetcher.pc = "info"
    /\ GetMempoolInfo
    /\ fetcher' = [At("purge") EXCEPT !.purged = Purged]
    /\ UNCHANGED <<taken, dbVars, seqVars, bounds>>

\* sync_mempool, DELETE ... WHERE in_mempool = TRUE AND initiator_address = ANY(purged).
FetcherPurge ==
    /\ fetcher.pc = "purge"
    /\ rows' = Without(rows, {k \in DOMAIN rows : rows[k].in_mempool /\ k[1] \in fetcher.purged})
    /\ fetcher' = At("fetch")
    /\ UNCHANGED <<mempoolVars, committed, ledger, batched, seqVars, bounds>>

\* sync_mempool, UPDATE ... SET in_mempool = TRUE ... ORDER BY received_at LIMIT.
FetcherFetch ==
    /\ fetcher.pc = "fetch"
    /\ \E F \in SUBSET Fetchable :
          /\ Cardinality(F) <= SyncBatchSize
          /\ Cardinality(F) < SyncBatchSize => F = Fetchable
          /\ \A k \in F, l \in Fetchable \ F :
                rows[k].tx.received_at_ms <= rows[l].tx.received_at_ms
          /\ rows' = [k \in DOMAIN rows |-> IF k \in F THEN [rows[k] EXCEPT !.in_mempool = TRUE]
                                            ELSE rows[k]]
          /\ fetcher' = [At("nonces") EXCEPT !.batch = {rows[k].tx : k \in F}]
    /\ UNCHANGED <<mempoolVars, committed, ledger, batched, seqVars, bounds>>

\* sync_mempool, SELECT hashed_key, value FROM storage.
FetcherNonces ==
    /\ fetcher.pc = "nonces"
    /\ fetcher' = [fetcher EXCEPT !.pc = "insert",
                                  !.nonces = [a \in {t.account : t \in fetcher.batch} |-> committed[a]]]
    /\ UNCHANGED <<mempoolVars, dbVars, seqVars, bounds>>

FetcherInsert ==
    /\ fetcher.pc = "insert"
    /\ Insert(fetcher.batch, fetcher.nonces)
    /\ fetcher' = At("info")
    /\ UNCHANGED <<taken, dbVars, seqVars, bounds>>

Fetch == FetcherStart \/ FetcherInfo \/ FetcherPurge \/ FetcherFetch \/ FetcherNonces \/ FetcherInsert

-----------------------------------------------------------------------------
(* Sequencer: process_l1_batch, seen from its transactions. *)

\* Mutant: another transaction is taken before the last one is settled.
TakeTx_Ahead ==
    /\ stage \in {"idle", "taken"}
    /\ NextTransaction
    /\ stage' = "taken"
    /\ UNCHANGED <<dbVars, fetcher, handling, open, batch_txs, sealing, vm_nonce, bounds>>

\* wait_for_next_tx.
TakeTx ==
    /\ stage = "idle"
    /\ NextTransaction
    /\ stage' = "taken"
    /\ UNCHANGED <<dbVars, fetcher, handling, open, batch_txs, sealing, vm_nonce, bounds>>

\* The VM accepts a transaction only with its account's nonce, which it bumps.
VmAccepts == taken.nonce = vm_nonce[taken.account]

VmNonceBumped == [vm_nonce EXCEPT ![taken.account] = @ + 1]

\* NoSeal or IncludeAndSeal.
IncludeTx ==
    /\ stage = "taken"
    /\ VmAccepts
    /\ vm_nonce' = VmNonceBumped
    /\ open' = open \cup {taken}
    /\ batch_txs' = batch_txs \cup {taken}
    /\ taken' = NoTx
    /\ stage' \in {"idle", "closing"}
    /\ UNCHANGED <<storeVars, dbVars, fetcher, handling, sealing, bounds>>

\* ExcludeAndSeal, which the first transaction of a batch never meets: the
\* nonce goes back first, the transaction follows in another critical section.
\* The VM executed the transaction and is not rolled back.
ExcludeTx ==
    /\ stage = "taken"
    /\ VmAccepts
    /\ batch_txs # {}
    /\ vm_nonce' = VmNonceBumped
    /\ Rollback(taken)
    /\ handling' = taken
    /\ taken' = NoTx
    /\ stage' = "reinsert"
    /\ UNCHANGED <<dbVars, fetcher, open, batch_txs, sealing, bounds>>

\* Mutant: the nonce went back, the transaction is lost.
ReinsertTx_Drops ==
    /\ stage = "reinsert"
    /\ handling' = NoTx
    /\ stage' = "closing"
    /\ UNCHANGED <<mempoolVars, dbVars, fetcher, open, batch_txs, sealing, vm_nonce, bounds>>

ReinsertTx ==
    /\ stage = "reinsert"
    /\ Insert({handling}, [a \in {} |-> 0])
    /\ handling' = NoTx
    /\ stage' = "closing"
    /\ UNCHANGED <<taken, dbVars, fetcher, open, batch_txs, sealing, vm_nonce, bounds>>

\* Unexecutable: rejected by the VM, which then keeps nothing of it, or
\* executed and then found too large for any batch, which the VM keeps.
RejectTx ==
    /\ stage = "taken"
    /\ \/ UNCHANGED vm_nonce
       \/ VmAccepts /\ vm_nonce' = VmNonceBumped
    /\ Rollback(taken)
    /\ handling' = taken
    /\ taken' = NoTx
    /\ stage' = "mark"
    /\ UNCHANGED <<dbVars, fetcher, open, batch_txs, sealing, bounds>>

MarkRejected ==
    /\ stage = "mark"
    /\ rows' = mark_tx_as_rejected(handling.hash)
    /\ handling' = NoTx
    /\ stage' = "idle"
    /\ UNCHANGED <<mempoolVars, committed, ledger, batched, fetcher, open, batch_txs, sealing,
                   vm_nonce, bounds>>

\* The batch deadline passed; an empty batch is never closed.
CloseOnTimeout ==
    /\ stage = "idle"
    /\ batch_txs # {}
    /\ stage' = "closing"
    /\ UNCHANGED <<mempoolVars, dbVars, fetcher, handling, open, batch_txs, sealing, vm_nonce, bounds>>

\* seal_miniblock: the command waits for a place in the sealer's queue.
SubmitMiniblock ==
    /\ stage \in {"idle", "closing"}
    /\ open # {}
    /\ Len(sealing) <= SealQueueCapacity
    /\ sealing' = Append(sealing, open)
    /\ open' = {}
    /\ UNCHANGED <<mempoolVars, dbVars, fetcher, stage, handling, batch_txs, vm_nonce, bounds>>

\* seal_l1_batch: after all submitted miniblocks, one SQL transaction adds the
\* fictive miniblock and the batch; the next batch starts from the sealed state.
SealL1Batch ==
    /\ stage = "closing"
    /\ open = {} /\ sealing = <<>>
    /\ ledger' = Append(ledger, {})
    /\ batched' = Len(ledger) + 1
    /\ rows' = mark_txs_as_executed_in_l1_batch(batch_txs)
    /\ batch_txs' = {}
    /\ vm_nonce' = committed
    /\ stage' = "idle"
    /\ UNCHANGED <<mempoolVars, committed, fetcher, handling, open, sealing, bounds>>

\* The miniblock sealer: MiniblockSealCommand::seal in one SQL transaction.
SealMiniblock ==
    /\ sealing # <<>>
    /\ LET txs == Head(sealing)
       IN  /\ ledger' = Append(ledger, txs)
           /\ rows' = mark_txs_as_executed_in_miniblock(Len(ledger) + 1, txs)
           /\ committed' = [a \in Account |->
                 committed[a] + Cardinality({t \in txs : t.account = a})]
    /\ sealing' = Tail(sealing)
    /\ UNCHANGED <<mempoolVars, batched, fetcher, stage, handling, open, batch_txs, vm_nonce, bounds>>

Sequence == \/ TakeTx \/ IncludeTx \/ ExcludeTx \/ ReinsertTx \/ RejectTx \/ MarkRejected
            \/ SubmitMiniblock \/ SealL1Batch

-----------------------------------------------------------------------------
(* Crash and restart. *)

\* Transactions of account a in the L1 batches sealed so far.
BatchNonce(a) ==
    Cardinality({t \in UNION {ledger[i] : i \in 1..batched} : t.account = a})

PendingOf(a) == {k \in PendingRows : k[1] = a}

\* restore_state re-executes the pending miniblocks, and panics when the VM
\* rejects one of their transactions or when there is a pending miniblock and
\* no transaction.
Reexecutable ==
    /\ \A a \in Account : {k[2] : k \in PendingOf(a)} =
          BatchNonce(a)..(BatchNonce(a) + Cardinality(PendingOf(a)) - 1)
    /\ Len(ledger) > batched => PendingRows # {}

\* A task is about to fail one of the mempool's `expect's.
Panicking ==
    \/ stage = "taken" /\ taken.account \notin DOMAIN accounts
    \/ stage = "idle" /\ \E s \in l2_priority_queue :
          /\ \A o \in l2_priority_queue : NotBelow(s, o)
          /\ \A tx \in transactions : tx.account = s.account => ~IsHead(tx)

\* Everything in memory is lost; the node starts again from the table.
Restart ==
    /\ Panicking \/ restarts < MaxRestarts
    /\ restarts' = IF Panicking THEN restarts ELSE restarts + 1
    /\ Reexecutable
    /\ accounts' = [a \in {} |-> 0] /\ transactions' = {} /\ l2_priority_queue' = {}
    /\ size' = 0 /\ taken' = NoTx
    /\ fetcher' = At("start")
    /\ stage' = "idle" /\ handling' = NoTx /\ open' = {} /\ sealing' = <<>>
    /\ batch_txs' = {rows[k].tx : k \in PendingRows}
    /\ vm_nonce' = [a \in Account |-> BatchNonce(a) + Cardinality(PendingOf(a))]
    /\ UNCHANGED <<dbVars, submissions>>

-----------------------------------------------------------------------------
PoolInit ==
    /\ Init
    /\ rows = [k \in {} |-> 0]
    /\ committed = [a \in Account |-> 0]
    /\ ledger = <<>> /\ batched = 0
    /\ fetcher = At("start")
    /\ stage = "idle" /\ handling = NoTx
    /\ open = {} /\ batch_txs = {} /\ sealing = <<>>
    /\ vm_nonce = [a \in Account |-> 0]
    /\ submissions = 0 /\ restarts = 0

PoolNext ==
    \/ \E tx \in Transaction : SubmitTx(tx)
    \/ Fetch \/ Sequence \/ CloseOnTimeout \/ SealMiniblock \/ Restart

PoolSpec == PoolInit /\ [][PoolNext]_vars

\* Every task keeps running: the fetcher and the sealer loop, the sequencer
\* polls the mempool and finishes what it started, deadlines pass.
FairPoolSpec ==
    /\ PoolSpec
    /\ WF_vars(Fetch) /\ WF_vars(SealMiniblock)
    /\ WF_vars(Sequence) /\ WF_vars(CloseOnTimeout)

-----------------------------------------------------------------------------
(* Properties. *)

Executed == open \cup UNION {sealing[i] : i \in 1..Len(sealing)}

InFlight(a) == IF taken # NoTx /\ taken.account = a THEN 1 ELSE 0

\* What the table and the sealed miniblocks say of the pending batch.
RecordedPending ==
    {[hash |-> rows[k].tx.hash, miniblock |-> rows[k].miniblock] : k \in PendingRows}
ExecutedPending ==
    UNION {{[hash |-> t.hash, miniblock |-> i] : t \in ledger[i]} : i \in (batched + 1)..Len(ledger)}

\* The row of the transaction is neither sealed nor rejected.
Waiting(tx) == Key(tx) \in DOMAIN rows /\ rows[Key(tx)].tx = tx
                 /\ rows[Key(tx)].miniblock = 0 /\ ~rows[Key(tx)].error

\* AccountTransactions::nonce "equals to committed nonce in db + number of
\* transactions sent to sequncer": sealed ones, executed ones and the one in
\* flight are counted exactly once.
NonceTracksSequencer ==
    \A a \in DOMAIN accounts :
        accounts[a] = committed[a] + Cardinality({t \in Executed : t.account = a}) + InFlight(a)

\* What the table says of the pending miniblocks is what was executed: a
\* restart re-executes "miniblocks and corresponding transactions that were
\* executed within batch" (PendingBatchData), no less and nothing else.
PendingBatchComplete == RecordedPending = ExecutedPending

\* A row marked in_mempool that still waits is really on its way: in the
\* mempool, in the fetcher's hands or with the sequencer.
InMempoolIsHeld ==
    fetcher.pc # "start" =>
        \A k \in DOMAIN rows :
            (rows[k].in_mempool /\ rows[k].miniblock = 0 /\ ~rows[k].error) =>
                k \in Keys(transactions \cup fetcher.batch \cup Executed
                             \cup ({taken, handling} \ {NoTx}))

\* The tasks keep the contract under which Mempool is correct: between two
\* restarts each of their steps is a step of Mempool or leaves it alone.
MempoolContract == [][Next \/ Init']_mempoolVars

\* A transaction that waits at its account's committed nonce, wherever it is
\* held, is executed and sealed, rejected, or replaced: none is forgotten in
\* the mempool, by the fetcher or by the sequencer.
HeadsAreSettled ==
    \A tx \in Transaction :
        (Waiting(tx) /\ tx.nonce = committed[tx.account]) ~> ~Waiting(tx)
=============================================================================
