------------------------------- MODULE Web3Api -------------------------------
(***************************************************************************)
(* The requests of the JSON-RPC API and the database they read and write.  *)
(*                                                                         *)
(* A handler is a sequence of SQL statements with nothing that holds them  *)
(* together: it has a connection of the replica pool for some of them, a   *)
(* permit of the VM concurrency limiter for others, and the sequencer, the *)
(* other API servers and the other handlers work between any two.  A step  *)
(* of a handler is one statement, with the acquisition before it and the   *)
(* code up to the next await; a handler that returns gives back all it     *)
(* holds.  What it returns is not kept: where a property speaks of it, an  *)
(* operator gives it in the state before the last step.                    *)
(*                                                                         *)
(* The tables are transactions, with one row per account and nonce, and    *)
(* the miniblocks with what is sealed into events and storage_logs: one    *)
(* event per executed transaction, and the nonces of the accounts.  Only   *)
(* successful transactions get into a miniblock; a rejected one has an     *)
(* error.  Mempool and sequencer work on copies: a transaction they have   *)
(* in memory may by then be replaced in the table, or its row be deleted   *)
(* with those of a purged account.                                         *)
(***************************************************************************)
EXTENDS TransactionRequest, FiniteSets

CONSTANTS
    Client,             \* the requests, each made once
    Payload,            \* the byte strings that are sent as transactions
    Account,            \* the accounts of the transactions table
    Nonce,              \* their nonces in the table
    BlockId,            \* the block identifiers that requests name
    PoolSize,           \* connections of the replica pool
    MaxVm,              \* vm_concurrency_limit
    MaxNonceAhead,      \* max_nonce_ahead
    MaxNewFactoryDeps,  \* MAX_NEW_FACTORY_DEPS
    Workload            \* bound: the clients that make requests, and the number of
                        \* writes of others

VARIABLES
    rows,      \* transactions: NONE or a row, by account and nonce
    blocks,    \* the sealed miniblocks after genesis: what is executed in each,
               \* and the nonces of the accounts after it
    held,      \* transactions that may be in memory and have lost their row
    purged,    \* keys of those whose account was purged meanwhile
    load,      \* one of the workloads, with the writes that are left
    req,       \* what the handler of each request has read and holds
    closed     \* the VM concurrency limiter is closed

dbVars == << rows, blocks, held, purged, load >>
apiVars == << dbVars, req, closed >>

-----------------------------------------------------------------------------
(* Tables. *)

Present(k) == rows[k] # NONE
Executed(k) == Present(k) /\ rows[k].miniblock # NONE
Waiting(k) == Present(k) /\ rows[k].miniblock = NONE /\ ~rows[k].error

KeyOf(p) == << p.tx.from, p.tx.nonce >>

\* The row with a hash, NONE if there is none.
RowOf(hash) ==
    LET found == {k \in DOMAIN rows : Present(k) /\ rows[k].sub.hash = hash}
    IN  IF found = {} THEN NONE ELSE rows[CHOOSE k \in found : TRUE]

\* get_sealed_miniblock_number
Latest == Len(blocks)

\* get_address_historical_nonce, from storage_logs
NonceAt(a, n) == IF n = 0 THEN 0 ELSE blocks[n].nonce[a]
NonceNow(a) == NonceAt(a, Latest)

\* resolve_block_id; the hash of a miniblock stands for its number.
ResolveBlockId(id) ==
    CASE id.tag = "earliest" -> 0
      [] id.tag \in {"latest", "committed"} -> Latest
      [] id.tag = "pending" -> Latest + 1
      [] id.tag = "number" -> IF id.number <= Latest THEN id.number ELSE NONE

\* The hashes of the transactions of a miniblock, by index_in_block.
TransactionsOf(n) ==
    LET keys == {k \in DOMAIN rows : Executed(k) /\ rows[k].miniblock = n}
    IN  [i \in {rows[k].index : k \in keys} |->
            rows[CHOOSE k \in keys : rows[k].index = i].sub.hash]

\* get_logs_by_tx_hashes, for one of the hashes
LogsOf(hash) ==
    IF \E n \in DOMAIN blocks : \E i \in DOMAIN blocks[n].txs : blocks[n].txs[i].hash = hash
    THEN << hash >> ELSE << >>

NewRow(p) == [sub |-> p, miniblock |-> NONE, index |-> NONE, error |-> FALSE]

\* The waiting transaction that is replaced; it may be in memory.
Replaced(p) ==
    LET k == KeyOf(p) IN IF Waiting(k) /\ rows[k].sub # p THEN {rows[k].sub} ELSE {}

\* Mutant: an executed row is replaced like any other.
Insert_Always(p) ==
    /\ rows' = [rows EXCEPT ![KeyOf(p)] = NewRow(p)]
    /\ held' = held \cup Replaced(p)

\* insert_transaction_l2: the row of an executed transaction stays.
Insert(p) ==
    IF Executed(KeyOf(p)) THEN UNCHANGED << rows, held >>
    ELSE /\ rows' = [rows EXCEPT ![KeyOf(p)] = NewRow(p)]
         /\ held' = held \cup Replaced(p)

Submission == {Parse(b) : b \in Payload}
Wellformed == {p \in Submission : p.outcome = "ok"}
Hashes == {p.hash : p \in Wellformed}

\* Rows of the transactions table.
TableRow == [sub : Wellformed, miniblock : Nat \cup {NONE}, index : Nat \cup {NONE},
             error : BOOLEAN]

\* Nonces are u32 numbers, limits are numbers, NONE is neither a number nor a
\* row, and the table has a place for the row of every transaction.
ASSUME ApiAssumption ==
    /\ MaxNonce \in Nat /\ Nonce \subseteq 0 .. MaxNonce
    /\ MaxNonceAhead \in Nat
    /\ NONE \notin Nat /\ NONE \notin TableRow
    /\ \A p \in Wellformed : KeyOf(p) \in Account \X Nonce

-----------------------------------------------------------------------------
(* The writers besides the API: other API servers, the mempool's fetcher   *)
(* and the sequencer.                                                       *)

Write == load.writes > 0 /\ load' = [load EXCEPT !.writes = @ - 1]

\* A submission through another API server.
OtherSubmits ==
    /\ Write
    /\ \E p \in Wellformed :
          /\ p.tx.nonce \in NonceNow(p.tx.from) .. NonceNow(p.tx.from) + MaxNonceAhead
          /\ Insert(p)
    /\ UNCHANGED << blocks, purged, req, closed >>

\* sync_mempool deletes the rows of a purged account that are in_mempool, and
\* remove_stuck_txs those that are too old; what they were of may be in the
\* sequencer's hands.
Purge ==
    /\ Write
    /\ \E a \in Account :
       \E gone \in SUBSET {k \in DOMAIN rows : k[1] = a /\ Present(k) /\ ~Executed(k)} :
          /\ rows' = [k \in DOMAIN rows |-> IF k \in gone THEN NONE ELSE rows[k]]
          /\ held' = held \cup {rows[k].sub : k \in {x \in gone : Waiting(x)}}
          /\ purged' = purged \cup {KeyOf(p) : p \in {x \in held' : x.tx.from = a}}
    /\ UNCHANGED << blocks, req, closed >>

\* What the sequencer may have to run.
Runnable == held \cup {rows[k].sub : k \in {x \in DOMAIN rows : Waiting(x)}}

\* MiniblockSealCommand::seal, one SQL transaction, for the transactions of an
\* account that were run, in the order of their nonces.  What is executed
\* overwrites the row of its account and nonce, if there is one
\* (mark_txs_as_executed_in_miniblock); a second copy of it stays in memory
\* only where the account was purged.
SealMiniblock ==
    /\ Write
    /\ \E a \in Account, hi \in Nonce :
          LET lo == NonceNow(a) IN
          /\ lo <= hi
          /\ \E run \in [lo .. hi -> Runnable] :
                /\ \A n \in lo .. hi : KeyOf(run[n]) = << a, n >>
                /\ rows' = [k \in DOMAIN rows |->
                      IF Present(k) /\ k[1] = a /\ k[2] \in lo .. hi
                      THEN [sub |-> run[k[2]], miniblock |-> Latest + 1,
                            index |-> k[2] - lo, error |-> FALSE]
                      ELSE rows[k]]
                /\ blocks' = Append(blocks,
                      [txs |-> [i \in 1 .. hi - lo + 1 |-> run[lo + i - 1]],
                       nonce |-> [b \in Account |-> IF b = a THEN hi + 1 ELSE NonceNow(b)]])
                /\ held' = {p \in held :
                      p.tx.from # a \/ p.tx.nonce > hi \/ KeyOf(p) \in purged}
    /\ UNCHANGED << purged, req, closed >>

\* mark_tx_as_rejected, by hash: a transaction that was replaced is not found.
RejectTx ==
    /\ Write
    /\ \E p \in Runnable :
          /\ rows' = [k \in DOMAIN rows |->
                IF Present(k) /\ rows[k].sub.hash = p.hash
                THEN [rows[k] EXCEPT !.error = TRUE] ELSE rows[k]]
          /\ held' = held \ {p}
    /\ UNCHANGED << blocks, purged, req, closed >>

-----------------------------------------------------------------------------
(* What a handler holds. *)

Unused == [op |-> NONE, arg |-> NONE, pc |-> "idle", block |-> NONE, nonce |-> NONE,
           got |-> NONE, conn |-> FALSE, permit |-> FALSE]

FreeConn == Cardinality({c \in Client : req[c].conn}) < PoolSize
FreePermit == Cardinality({c \in Client : req[c].permit}) < MaxVm

At(c, op, pc) == req[c].op = op /\ req[c].pc = pc

Become(c, r) == req' = [req EXCEPT ![c] = r]

\* The handler returns, with a result or an error: connection and permit are
\* dropped.
Return(c) == Become(c, [Unused EXCEPT !.pc = "answered"])

\* access_storage_tagged, then a statement
AcquireAnd(c, r) == FreeConn /\ Become(c, [r EXCEPT !.conn = TRUE])

\* Mutant: on a closed limiter acquire waits for a permit that never comes.
AcquirePermit_Waits(c, next) ==
    /\ ~closed /\ FreePermit
    /\ Become(c, [req[c] EXCEPT !.pc = next, !.permit = TRUE])

\* VmConcurrencyLimiter::acquire; the error is ServerShuttingDown.
AcquirePermit(c, next) ==
    IF closed THEN Return(c)
    ELSE FreePermit /\ Become(c, [req[c] EXCEPT !.pc = next, !.permit = TRUE])

-----------------------------------------------------------------------------
(* ola_sendRawTransaction. *)

\* send_raw_transaction_impl and submit_tx up to the first await: the bytes
\* are decoded, the rate limiter and the number of dependencies are checked.
SendRawTransaction(c) ==
    \E p \in Submission :
        \/ Return(c)                       \* RateLimitExceeded
        \/ IF \/ p.outcome # "ok"
              \/ p.tx.deps # NONE /\ Len(p.tx.deps) > MaxNewFactoryDeps
           THEN Return(c)
           ELSE Become(c, [Unused EXCEPT !.op = "send", !.arg = p, !.pc = "validate"])

\* get_expected_nonce: the sealed miniblock, then the nonce in it.
ReadBlock(c, next) ==
    AcquireAnd(c, [req[c] EXCEPT !.pc = next, !.block = Latest])

\* validate_account_nonce refuses: NonceIsTooLow, NonceIsTooHigh.
NonceRefused(c) ==
    LET expected == NonceAt(req[c].arg.tx.from, req[c].block)
    IN  req[c].arg.tx.nonce \notin expected .. expected + MaxNonceAhead

\* Mutant: the connection is kept while the handler waits for a permit.
ValidateNonce_KeepsConn(c) ==
    IF NonceRefused(c) THEN Return(c)
    ELSE Become(c, [req[c] EXCEPT !.pc = "permit", !.block = NONE])

\* validate_tx
ValidateNonce(c) ==
    IF NonceRefused(c) THEN Return(c)
    ELSE Become(c, [req[c] EXCEPT !.pc = "permit", !.block = NONE, !.conn = FALSE])

\* The handler returns what the insertion did: AlreadyExecuted is
\* NonceIsTooLow.  When the same transaction is inserted twice at the same
\* time the second insertion fails, as TxDuplication.
InsertTransaction(c) ==
    LET p == req[c].arg IN
    /\ Return(c)
    /\ \/ Insert(p)
       \/ /\ Waiting(KeyOf(p)) /\ rows[KeyOf(p)].sub.hash = p.hash
          /\ UNCHANGED << rows, held >>

\* The second get_expected_nonce is for the log and the error message; its statements are
\* those of the first.
SubmitTx(c) ==
    \/ At(c, "send", "validate") /\ ReadBlock(c, "check")
    \/ At(c, "send", "check") /\ ValidateNonce(c)
    \/ At(c, "send", "permit") /\ AcquirePermit(c, "expect")
    \/ At(c, "send", "expect") /\ AcquireAnd(c, [req[c] EXCEPT !.pc = "expected"])
    \/ At(c, "send", "expected") /\ Become(c, [req[c] EXCEPT !.pc = "insert", !.conn = FALSE])

-----------------------------------------------------------------------------
(* ola_callTransaction: the permit, then a connection that is kept while   *)
(* the VM runs on its own storage.                                         *)

CallTransaction(c) ==
    \/ At(c, "call", "start") /\ AcquirePermit(c, "header")
    \/ At(c, "call", "header") /\ AcquireAnd(c, [req[c] EXCEPT !.pc = "vm"])
    \/ At(c, "call", "vm") /\ Return(c)

-----------------------------------------------------------------------------
(* eth_getTransactionCount; the argument is the account and the block.     *)

\* Mutant: executed transactions do not count.
NonRejected_Waiting(a, from) == {n \in Nonce : n >= from /\ Waiting(<< a, n >>)}

\* The nonces that next_nonce_by_initiator_account selects.
NonRejected(a, from) ==
    {n \in Nonce : /\ n >= from
                   /\ Executed(<< a, n >>) \/ Waiting(<< a, n >>)}

\* The first gap: one more than the last of the run that starts at from.
FirstGap(from, nonces) ==
    CHOOSE n \in {from} \cup {m + 1 : m \in nonces} :
        /\ \A m \in from .. n - 1 : m \in nonces
        /\ n \notin nonces

\* next_nonce_by_initiator_account: the last miniblock, the nonce in it, the
\* nonces from there.
PendingNonce(c) ==
    \/ At(c, "pending", "start") /\ ReadBlock(c, "nonce")
    \/ /\ At(c, "pending", "nonce")
       /\ Become(c, [req[c] EXCEPT !.pc = "rows", !.block = NONE,
                                   !.nonce = NonceAt(req[c].arg, req[c].block)])
    \/ At(c, "pending", "rows") /\ Return(c)

\* What the last of them returns.
PendingAnswer(c) == FirstGap(req[c].nonce, NonRejected(req[c].arg, req[c].nonce))

\* get_transaction_count_impl for any other block; the error is NoBlock.
HistoricalNonce(c) ==
    LET found == ResolveBlockId(req[c].arg[2]) IN
    \/ /\ At(c, "count", "start")
       /\ IF found = NONE THEN FreeConn /\ Return(c)
          ELSE AcquireAnd(c, [req[c] EXCEPT !.pc = "nonce", !.block = found])
    \/ At(c, "count", "nonce") /\ Return(c)

-----------------------------------------------------------------------------
(* Receipts. *)

\* Mutant: the logs are read before the transactions.
ReceiptStatements_LogsFirst == << "logs", "row" >>

\* get_transaction_receipt and get_transaction_receipts: the transactions,
\* then their logs, in a statement of its own.
ReceiptStatements == << "row", "logs" >>

\* One of the statements, for each of the hashes.
ReadReceipts(got, i) ==
    [got EXCEPT ![ReceiptStatements[i]] =
        [j \in DOMAIN got.hashes |->
            IF ReceiptStatements[i] = "row" THEN RowOf(got.hashes[j]) ELSE LogsOf(got.hashes[j])]]

ReceiptsFor(hashes) == [hashes |-> hashes, row |-> << >>, logs |-> << >>]

Status(row) == CASE row.error -> 0
                 [] ~row.error /\ row.miniblock # NONE -> 1
                 [] OTHER -> NONE

\* ola_getTransactionReceipt
TransactionReceipt(c) ==
    \/ /\ At(c, "receipt", "start")
       /\ IF RowOf(req[c].arg) = NONE THEN FreeConn /\ Return(c)
          ELSE AcquireAnd(c, [req[c] EXCEPT !.pc = "logs",
                                !.got = ReadReceipts(ReceiptsFor(<< req[c].arg >>), 1)])
    \/ At(c, "receipt", "logs") /\ Return(c)

\* get_block_by_web3_block_id: the number of the block, NONE without a block.
BlockOf(id) == IF ResolveBlockId(id) \in 0 .. Latest THEN ResolveBlockId(id) ELSE NONE

\* eth_getBlockReceipts: the block with the hashes of its transactions, then,
\* on another connection, their receipts.
BlockReceipts(c) ==
    \/ /\ At(c, "blockReceipts", "start")
       /\ FreeConn
       /\ Become(c, [req[c] EXCEPT !.pc = "rows", !.block = BlockOf(req[c].arg),
            !.got = ReceiptsFor(TransactionsOf(BlockOf(req[c].arg)))])
    \/ /\ At(c, "blockReceipts", "rows")
       /\ AcquireAnd(c, [req[c] EXCEPT !.pc = "logs", !.got = ReadReceipts(req[c].got, 1)])
    \/ At(c, "blockReceipts", "logs") /\ Return(c)

\* What the last statement of either completes: a receipt for each row that
\* was found; those of a block are sorted by transaction_index.
ReceiptsAnswer(c) ==
    LET got == ReadReceipts(req[c].got, 2)
    IN  [j \in {i \in DOMAIN got.hashes : got.row[i] # NONE} |->
            [hash |-> got.hashes[j], block |-> got.row[j].miniblock,
             index |-> got.row[j].index, status |-> Status(got.row[j]), logs |-> got.logs[j]]]

-----------------------------------------------------------------------------
(* Requests of one statement: eth_getBlock, eth_getTransaction, and others. *)

Query(c) == At(c, "query", "start") /\ FreeConn /\ Return(c)

-----------------------------------------------------------------------------
\* The handler of a request starts.
Start(c, op, arg) == Become(c, [Unused EXCEPT !.op = op, !.arg = arg, !.pc = "start"])

Receive(c) ==
    /\ c \in load.clients /\ req[c].pc = "idle"
    /\ \/ SendRawTransaction(c)
       \/ Start(c, "call", NONE) \/ Start(c, "query", NONE)
       \/ \E a \in Account : Start(c, "pending", a)
       \/ \E a \in Account, id \in BlockId : Start(c, "count", << a, id >>)
       \/ \E h \in Hashes : Start(c, "receipt", h)
       \/ \E id \in BlockId : Start(c, "blockReceipts", id)
    /\ UNCHANGED << dbVars, closed >>

\* A handler goes on after an await.
Proceed(c) ==
    /\ \/ At(c, "send", "insert") /\ InsertTransaction(c)
       \/ /\ \/ SubmitTx(c) \/ CallTransaction(c) \/ PendingNonce(c) \/ HistoricalNonce(c)
             \/ TransactionReceipt(c) \/ BlockReceipts(c) \/ Query(c)
          /\ UNCHANGED << rows, held >>
    /\ UNCHANGED << blocks, purged, load, closed >>

InFlight(c) == req[c].pc \notin {"idle", "answered"}

\* The client is gone, or a connection could not be had after the retries:
\* the handler is dropped at an await, with all it holds.
Abort(c) ==
    /\ InFlight(c)
    /\ Return(c)
    /\ UNCHANGED << dbVars, closed >>

ApiInit ==
    /\ rows = [k \in Account \X Nonce |-> NONE]
    /\ blocks = << >> /\ held = {} /\ purged = {}
    /\ load \in Workload
    /\ req = [c \in Client |-> Unused]
    /\ closed = FALSE

-----------------------------------------------------------------------------
(* Properties. *)

\* What eth_getTransactionCount answers for the pending block is the first
\* free nonce of the tables at one moment, that of the last of its three
\* statements, although miniblocks are sealed between them: "latest nonce is
\* used, because it is guaranteed that there are no gaps before it"
\* (next_nonce_by_initiator_account).  There may be a gap where the account was
\* purged with the transaction in memory.
PendingNonceIsAtomic ==
    \A c \in Client :
        At(c, "pending", "rows") =>
            LET a == req[c].arg
                taken == {n \in Nonce :
                            /\ n >= NonceNow(a)
                            /\ Executed(<< a, n >>) \/ Waiting(<< a, n >>)}
            IN  \/ PendingAnswer(c) = FirstGap(NonceNow(a), taken)
                \/ \E n \in req[c].nonce .. NonceNow(a) - 1 : << a, n >> \in purged

\* A receipt that names a miniblock has the logs of its transaction and the
\* status of an executed one, and the receipts of a block are those of all its
\* transactions in their places, whatever was sealed, replaced, rejected or
\* deleted between the statements (get_transaction_receipt,
\* get_block_receipts_impl).  Where the account was purged with the transaction
\* in memory the receipt may be missing, or a second copy of the transaction
\* have been rejected.
ReceiptsAreWhole ==
    \A c \in Client :
        req[c].op \in {"receipt", "blockReceipts"} /\ req[c].pc = "logs" =>
            LET given == ReceiptsAnswer(c)
                n == req[c].block
            IN
            /\ \A i \in DOMAIN given : given[i].block # NONE =>
                  LET tx == blocks[given[i].block].txs[given[i].index + 1] IN
                  /\ given[i].hash = tx.hash /\ given[i].logs = << tx.hash >>
                  /\ given[i].status = 1 \/ KeyOf(tx) \in purged
            /\ req[c].op = "blockReceipts" /\ n \notin {NONE, 0} =>
                  /\ \A i \in DOMAIN given : given[i].block = n /\ given[i].index = i
                  /\ \A j \in DOMAIN blocks[n].txs :
                        j - 1 \in DOMAIN given \/ KeyOf(blocks[n].txs[j]) \in purged

\* The transactions that wait have nonces from the account's nonce to
\* max_nonce_ahead above it, although the range was checked in an older state
\* (submit_tx); one that waits below it can only be of a purged account.
WaitingIsAdmissible ==
    \A k \in DOMAIN rows : Waiting(k) =>
        /\ k[2] <= NonceNow(k[1]) + MaxNonceAhead
        /\ k[2] >= NonceNow(k[1]) \/ k \in purged
=============================================================================
