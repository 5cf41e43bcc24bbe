---------------------------- MODULE TxPoolProofs ----------------------------
(***************************************************************************)
(* Machine-checked proofs about TxPool, for every set of accounts and      *)
(* transactions, every queue length and any number of restarts.            *)
(*                                                                         *)
(* The inductive invariant PoolInv has five parts:                         *)
(*   BaseInv   types, StoreInv of Mempool, and that the account of the     *)
(*             transaction in the sequencer's hands has the nonce that     *)
(*             goes with it;                                               *)
(*   OrderInv  miniblocks that wait for the sealer are in nonce order, so  *)
(*             what the sealer commits is always the front part;           *)
(*   NonceInv  the nonces of what is executed and not sealed are exactly   *)
(*             the interval from the committed nonce to the one the        *)
(*             sequencer has reached, and the fetcher's nonces are not     *)
(*             stale for an account that the mempool does not know;        *)
(*   RowInv    whatever a task holds has a row, and the rows of miniblocks *)
(*             are those below the committed nonces;                       *)
(*   BatchInv  the open batch is what is executed and what is pending.     *)
(*                                                                         *)
(* The hypothesis []RoomLeft says that the fetcher never meets a full      *)
(* pool.  Without it the garbage collection drops accounts of transactions *)
(* in flight, which run txpool_gc_pending shows.                           *)
(***************************************************************************)
EXTENDS TxPool, MempoolProofs, WellFoundedInduction

-----------------------------------------------------------------------------
(* Hypotheses. *)

\* While the pool is not full, get_mempool_info drops nothing.
RoomLeft == fetcher.pc = "info" => size < Capacity

-----------------------------------------------------------------------------
(* Types and the transaction in hand. *)

AnyTx == [hash : Nat, account : Account, nonce : Nat, received_at_ms : Nat]
RowType == [tx : AnyTx, in_mempool : BOOLEAN, error : BOOLEAN, miniblock : Nat, in_batch : BOOLEAN]

\* A row is that of a transaction with its key and its hash.
RowOf(k, row) ==
    /\ row \in RowType
    /\ Key(row.tx) = k
    /\ \E t \in Transaction : t.hash = row.tx.hash /\ Key(t) = k
    /\ row.miniblock = 0 => row.tx \in Transaction /\ ~row.in_batch

TableInv == \A k \in DOMAIN rows : RowOf(k, rows[k])

MemoryInv ==
    /\ committed \in [Account -> Nat]
    /\ ledger \in Seq(SUBSET Transaction) /\ batched \in 0..Len(ledger)
    /\ open \subseteq Transaction /\ sealing \in Seq(SUBSET Transaction)

\* What the sequencer has in hand, and the nonce of its account.
HandsInv ==
    /\ stage \in {"idle", "taken", "reinsert", "mark", "closing"}
    /\ taken # NoTx <=> stage = "taken"
    /\ handling \in Transaction \cup {NoTx}
    /\ handling # NoTx <=> stage \in {"reinsert", "mark"}
    /\ taken # NoTx =>
         taken.account \in DOMAIN accounts /\ accounts[taken.account] = taken.nonce + 1
    /\ handling # NoTx =>
         handling.account \in DOMAIN accounts /\ accounts[handling.account] = handling.nonce

\* What the fetcher carries.
Carries(pc, batch, nonces) ==
    /\ pc \in {"start", "info", "purge", "fetch", "nonces", "insert"}
    /\ batch \subseteq Transaction /\ OnePerNonce(batch)
    /\ pc \in {"nonces", "insert"} \/ batch = {}
    /\ pc = "insert" => DOMAIN nonces = {t.account : t \in batch}
    /\ \A a \in DOMAIN nonces : nonces[a] \in Nat

FetcherInv ==
    /\ fetcher = [pc |-> fetcher.pc, purged |-> {}, batch |-> fetcher.batch,
                  nonces |-> fetcher.nonces]
    /\ Carries(fetcher.pc, fetcher.batch, fetcher.nonces)

BaseInv == StoreInv /\ TableInv /\ MemoryInv /\ HandsInv /\ FetcherInv

-----------------------------------------------------------------------------
(* The nonces of what is executed. *)

\* Miniblocks on their way to the sealer hold the transactions of an account
\* in the order of their nonces.
OrderInv ==
    /\ OnePerNonce(open)
    /\ \A i \in 1..Len(sealing) :
         /\ OnePerNonce(sealing[i])
         /\ \A t \in sealing[i], u \in open : t.account = u.account => t.nonce < u.nonce
         /\ \A j \in 1..Len(sealing) : i < j =>
              \A t \in sealing[i], u \in sealing[j] : t.account = u.account => t.nonce < u.nonce

Nonces(S, a) == {n \in Nat : \E t \in S : Key(t) = <<a, n>>}

\* The nonce the sequencer goes on with.
Reached(a) == accounts[a] - InFlight(a)

\* What is executed and not sealed is without gaps, from the committed nonce on.
NonceInv ==
    /\ \A a \in DOMAIN accounts :
         /\ committed[a] <= Reached(a)
         /\ Nonces(Executed, a) = committed[a]..(Reached(a) - 1)
    /\ \A t \in Executed : t.account \in DOMAIN accounts
    /\ fetcher.pc = "insert" =>
         \A a \in DOMAIN fetcher.nonces : a \notin DOMAIN accounts
                 => fetcher.nonces[a] = committed[a]

-----------------------------------------------------------------------------
(* What the table says of it. *)

Hands == {taken, handling} \ {NoTx}
Held == transactions \cup fetcher.batch \cup Executed \cup Hands

\* No row is lost on the way of its transaction, and the committed nonces are
\* those of the rows in miniblocks.
RowInv ==
    /\ fetcher.pc = "start" => Held = {}
    /\ \A t \in Held : Key(t) \in DOMAIN rows
    /\ \A k \in DOMAIN rows : rows[k].miniblock # 0 => k[2] < committed[k[1]]
    /\ \A a \in Account : \A n \in 0..(committed[a] - 1) :
         <<a, n>> \in DOMAIN rows /\ rows[<<a, n>>].miniblock # 0

\* The open batch is what is executed, and what the sealed miniblocks without a
\* batch contain.
BatchInv ==
    /\ Executed \subseteq batch_txs
    /\ \A u \in batch_txs :
         /\ \E t \in Transaction : t.hash = u.hash /\ Key(t) = Key(u)
         /\ u \in Executed \/ (Key(u) \in DOMAIN rows /\ rows[Key(u)].miniblock # 0)
    /\ \A i \in (batched + 1)..Len(ledger) : \A t \in ledger[i] :
         \E u \in batch_txs : u.hash = t.hash
    /\ PendingBatchComplete

PoolInv == BaseInv /\ OrderInv /\ NonceInv /\ RowInv /\ BatchInv

-----------------------------------------------------------------------------
(* What the methods of the store do. *)

\* MempoolStore::insert.
LEMMA Inserted ==
    ASSUME StoreInv, NEW S \in SUBSET Transaction, NEW db, Insert(S, db)
    PROVE  /\ DOMAIN accounts' = DOMAIN accounts \cup {t.account : t \in S}
           /\ \A a \in DOMAIN accounts : accounts'[a] = accounts[a]
           /\ \A t \in S : t.account \notin DOMAIN accounts =>
                accounts'[t.account] = IF t.account \in DOMAIN db THEN db[t.account] ELSE 0
           /\ transactions' \subseteq transactions \cup S
           /\ \A t \in transactions : Key(t) \in Keys(transactions')
           /\ \A t \in S : t.nonce >= accounts'[t.account] => t \in transactions'
<1> DEFINE nonces   == AccountsWith(S, db)
           accepted == {tx \in S : tx.nonce >= nonces[tx.account]}
           replaced == {tx \in transactions : Key(tx) \in Keys(accepted)}
<1>1. accounts' = nonces /\ transactions' = (transactions \ replaced) \cup accepted
  BY DEF Insert
<1>2. /\ DOMAIN nonces = DOMAIN accounts \cup {t.account : t \in S}
      /\ \A a \in DOMAIN accounts : nonces[a] = accounts[a]
      /\ \A t \in S : t.account \notin DOMAIN accounts =>
           nonces[t.account] = IF t.account \in DOMAIN db THEN db[t.account] ELSE 0
  BY DEF AccountsWith
<1> HIDE DEF nonces
<1>3. transactions' \subseteq transactions \cup S
  BY <1>1
<1>4. \A t \in transactions : Key(t) \in Keys(transactions')
  BY <1>1 DEF Keys
<1>5. \A t \in S : t.nonce >= accounts'[t.account] => t \in transactions'
  BY <1>1
<1> QED BY <1>1, <1>2, <1>3, <1>4, <1>5

\* MempoolStore::next_transaction.
LEMMA TakenOut ==
    ASSUME StoreInv, NextTransaction
    PROVE  /\ taken' \in transactions /\ taken' \in Transaction /\ taken' # NoTx
           /\ taken'.account \in DOMAIN accounts
           /\ accounts[taken'.account] = taken'.nonce
           /\ DOMAIN accounts' = DOMAIN accounts
           /\ accounts'[taken'.account] = taken'.nonce + 1
           /\ \A a \in DOMAIN accounts : a # taken'.account => accounts'[a] = accounts[a]
           /\ transactions' = transactions \ {taken'}
<1>1. PICK s \in l2_priority_queue, tx \in transactions :
        /\ tx.account = s.account /\ IsHead(tx)
        /\ accounts' = [accounts EXCEPT ![s.account] = @ + 1]
        /\ transactions' = transactions \ {tx}
        /\ taken' = tx
  BY DEF NextTransaction
<1>2. tx \in Transaction /\ tx.account \in DOMAIN accounts /\ tx.nonce = accounts[tx.account]
  BY <1>1 DEF StoreInv, TypeOK, HeldByAccounts, IsHead
<1>3. tx # NoTx
  BY <1>2, TransactionType
<1> QED BY <1>1, <1>2, <1>3 DEF StoreInv, TypeOK

\* MempoolStore::rollback of the transaction in flight.
LEMMA RolledBack ==
    ASSUME StoreInv, HandsInv, stage = "taken", Rollback(taken)
    PROVE  /\ taken \in Transaction /\ taken # NoTx
           /\ taken.account \in DOMAIN accounts /\ accounts[taken.account] = taken.nonce + 1
           /\ DOMAIN accounts' = DOMAIN accounts
           /\ accounts'[taken.account] = taken.nonce
           /\ \A a \in DOMAIN accounts : a # taken.account => accounts'[a] = accounts[a]
           /\ transactions' = transactions
<1>1. /\ taken \in Transaction /\ taken # NoTx
      /\ taken.account \in DOMAIN accounts /\ accounts[taken.account] = taken.nonce + 1
  BY DEF HandsInv, StoreInv, TypeOK
<1>2. taken.nonce \in Nat
  BY <1>1, TransactionType
<1>3. ~ (accounts[taken.account] < taken.nonce)
  BY <1>1, <1>2
<1>4. accounts' = [accounts EXCEPT ![taken.account] =
                     IF accounts[taken.account] < taken.nonce THEN accounts[taken.account]
                     ELSE taken.nonce]
  BY DEF Rollback
<1>5. accounts' = [accounts EXCEPT ![taken.account] = taken.nonce]
  BY <1>3, <1>4
<1> QED BY <1>1, <1>5 DEF Rollback, StoreInv, TypeOK

\* MempoolStore::get_mempool_info while the pool is not full.
LEMMA NothingPurged ==
    ASSUME StoreInv, RoomLeft, fetcher.pc = "info", GetMempoolInfo
    PROVE  Purged = {} /\ UNCHANGED storeVars
<1>1. Purged = {}
  BY MempoolAssumption DEF RoomLeft, Purged, StoreInv, TypeOK
<1>2. /\ accounts' = [a \in DOMAIN accounts |-> accounts[a]]
      /\ transactions' = {tx \in transactions : TRUE}
      /\ size' = size /\ l2_priority_queue' = l2_priority_queue
  BY <1>1, MempoolAssumption DEF GetMempoolInfo, RoomLeft, StoreInv, TypeOK
<1>3. accounts' = accounts /\ transactions' = transactions
  BY <1>2 DEF StoreInv, TypeOK
<1> QED BY <1>1, <1>2, <1>3 DEF storeVars

-----------------------------------------------------------------------------
(* What the statements do to the table. *)

\* A transaction as a row keeps it.
LEMMA TxFields ==
    ASSUME NEW t \in Transaction
    PROVE  /\ t \in AnyTx /\ t.account \in Account /\ t.nonce \in Nat
           /\ Key(t) = <<t.account, t.nonce>>
BY MempoolAssumption DEF AnyTx, Key

\* A row's fields.
LEMMA RowFields ==
    ASSUME NEW k, NEW r, RowOf(k, r)
    PROVE  /\ r.tx \in AnyTx /\ r.in_mempool \in BOOLEAN /\ r.error \in BOOLEAN
           /\ r.miniblock \in Nat /\ r.in_batch \in BOOLEAN
           /\ k[1] \in Account /\ k[2] \in Nat /\ k = <<k[1], k[2]>>
<1>1. r \in RowType /\ Key(r.tx) = k
  BY DEF RowOf
<1>2. r.tx \in AnyTx
  BY <1>1 DEF RowType
<1>3. k[1] \in Account /\ k[2] \in Nat /\ k = <<k[1], k[2]>>
  BY <1>1, <1>2 DEF AnyTx, Key
<1> QED BY <1>1, <1>3 DEF RowType

\* A new row.
LEMMA NewRow ==
    ASSUME NEW t \in Transaction
    PROVE  RowOf(Key(t), Row(t)) /\ Row(t).miniblock = 0 /\ ~Row(t).in_mempool /\ Row(t).tx = t
BY TxFields DEF RowOf, RowType, Row

\* A row that enters the mempool.
LEMMA RowFetched ==
    ASSUME NEW k, NEW r, RowOf(k, r), NEW q, q = [r EXCEPT !.in_mempool = TRUE]
    PROVE  RowOf(k, q) /\ q.tx = r.tx /\ q.miniblock = r.miniblock /\ q.in_batch = r.in_batch
<1>1. q \in RowType /\ q.tx = r.tx /\ q.miniblock = r.miniblock /\ q.in_batch = r.in_batch
  BY DEF RowOf, RowType
<1> QED BY <1>1 DEF RowOf

\* reset_mempool of a row.
LEMMA RowReset ==
    ASSUME NEW k, NEW r, RowOf(k, r), NEW q, q = [r EXCEPT !.in_mempool = FALSE]
    PROVE  /\ RowOf(k, q) /\ q.tx = r.tx /\ q.miniblock = r.miniblock /\ q.in_batch = r.in_batch
           /\ ~q.in_mempool
<1>1. /\ q \in RowType /\ q.tx = r.tx /\ q.miniblock = r.miniblock /\ q.in_batch = r.in_batch
      /\ ~q.in_mempool
  BY DEF RowOf, RowType
<1> QED BY <1>1 DEF RowOf

\* mark_tx_as_rejected of a row.
LEMMA ErrorSet ==
    ASSUME NEW k, NEW r, RowOf(k, r), NEW q, q = [r EXCEPT !.error = TRUE]
    PROVE  /\ RowOf(k, q) /\ q.tx = r.tx /\ q.miniblock = r.miniblock /\ q.in_batch = r.in_batch
           /\ q.error
<1>1. /\ q \in RowType /\ q.tx = r.tx /\ q.miniblock = r.miniblock /\ q.in_batch = r.in_batch
      /\ q.error
  BY DEF RowOf, RowType
<1> QED BY <1>1 DEF RowOf

\* A row of an executed transaction enters an L1 batch.
LEMMA RowBatched ==
    ASSUME NEW k, NEW r, RowOf(k, r), r.miniblock # 0, NEW q, q = [r EXCEPT !.in_batch = TRUE]
    PROVE  /\ RowOf(k, q) /\ q.tx = r.tx /\ q.miniblock = r.miniblock /\ q.in_batch
           /\ q.in_mempool = r.in_mempool /\ q.error = r.error
<1>1. /\ q \in RowType /\ q.tx = r.tx /\ q.miniblock = r.miniblock /\ q.in_batch
      /\ q.in_mempool = r.in_mempool /\ q.error = r.error
  BY DEF RowOf, RowType
<1> QED BY <1>1 DEF RowOf

\* What mark_txs_as_executed_in_miniblock makes of the row of a transaction.
SealedRow(r, t, n) ==
    [r EXCEPT !.tx = [t EXCEPT !.received_at_ms = r.tx.received_at_ms],
              !.in_mempool = FALSE, !.error = FALSE, !.miniblock = n]

\* The row of a transaction that is sealed in miniblock n.
LEMMA RowSealed ==
    ASSUME NEW t \in Transaction, NEW r, RowOf(Key(t), r), NEW n \in Nat \ {0}
    PROVE  /\ RowOf(Key(t), SealedRow(r, t, n))
           /\ SealedRow(r, t, n).tx.hash = t.hash
           /\ SealedRow(r, t, n).miniblock = n
           /\ SealedRow(r, t, n).in_batch = r.in_batch
           /\ ~SealedRow(r, t, n).in_mempool
<1> DEFINE u == [t EXCEPT !.received_at_ms = r.tx.received_at_ms]
           q == SealedRow(r, t, n)
<1>1. r \in RowType /\ r.tx.received_at_ms \in Nat
  BY DEF RowOf, RowType, AnyTx
<1>2. u \in AnyTx /\ u.hash = t.hash /\ Key(u) = Key(t)
  BY <1>1, TxFields DEF AnyTx, Key
<1> HIDE DEF u
<1>3. q = [r EXCEPT !.tx = u, !.in_mempool = FALSE, !.error = FALSE, !.miniblock = n]
  BY DEF SealedRow, u
<1>4. /\ q \in RowType /\ q.tx = u /\ q.miniblock = n /\ q.in_batch = r.in_batch
      /\ ~q.in_mempool
  BY <1>1, <1>2, <1>3 DEF RowType
<1> HIDE DEF q
<1>5. RowOf(Key(t), q)
  BY <1>2, <1>4 DEF RowOf
<1> QED BY <1>2, <1>4, <1>5 DEF q

\* insert_transaction_l2.
LEMMA RowInserted ==
    ASSUME TableInv, NEW tx \in Transaction, rows' = insert_transaction_l2(tx)
    PROVE  /\ TableInv'
           /\ DOMAIN rows' = DOMAIN rows \cup {Key(tx)}
           /\ \A k \in DOMAIN rows : (k # Key(tx) \/ rows[k].miniblock # 0) => rows'[k] = rows[k]
           /\ (Key(tx) \in DOMAIN rows /\ rows[Key(tx)].miniblock # 0)
                \/ (rows'[Key(tx)].miniblock = 0 /\ ~rows'[Key(tx)].in_mempool)
<1>1. CASE Key(tx) \in DOMAIN rows /\ rows[Key(tx)].miniblock # 0
  <2>1. rows' = rows
    BY <1>1 DEF insert_transaction_l2
  <2> QED BY <1>1, <2>1 DEF TableInv
<1>2. CASE ~ (Key(tx) \in DOMAIN rows /\ rows[Key(tx)].miniblock # 0)
  <2>1. rows' = Put(rows, Key(tx), Row(tx))
    BY <1>2 DEF insert_transaction_l2
  <2>2. /\ DOMAIN rows' = DOMAIN rows \cup {Key(tx)} /\ rows'[Key(tx)] = Row(tx)
        /\ \A k \in DOMAIN rows : k # Key(tx) => rows'[k] = rows[k]
    BY <2>1 DEF Put
  <2>3. TableInv'
    BY <2>2, NewRow DEF TableInv
  <2> QED BY <1>2, <2>2, <2>3, NewRow
<1> QED BY <1>1, <1>2

\* mark_txs_as_executed_in_miniblock.
LEMMA RowsSealed ==
    ASSUME TableInv, NEW n \in Nat \ {0}, NEW txs \in SUBSET Transaction, OnePerNonce(txs),
           rows' = mark_txs_as_executed_in_miniblock(n, txs)
    PROVE  /\ TableInv' /\ DOMAIN rows' = DOMAIN rows
           /\ \A k \in DOMAIN rows : k \notin Keys(txs) => rows'[k] = rows[k]
           /\ \A t \in txs : Key(t) \in DOMAIN rows =>
                /\ rows'[Key(t)].tx.hash = t.hash
                /\ rows'[Key(t)].miniblock = n
                /\ rows'[Key(t)].in_batch = rows[Key(t)].in_batch
<1>1. DOMAIN rows' = DOMAIN rows
  BY DEF mark_txs_as_executed_in_miniblock
<1>2. \A k \in DOMAIN rows : k \notin Keys(txs) => rows'[k] = rows[k]
  BY DEF mark_txs_as_executed_in_miniblock
<1>3. ASSUME NEW t \in txs, Key(t) \in DOMAIN rows
      PROVE  rows'[Key(t)] = SealedRow(rows[Key(t)], t, n)
  <2>1. Key(t) \in Keys(txs)
    BY DEF Keys
  <2>2. (CHOOSE u \in txs : Key(u) = Key(t)) = t
    BY DEF OnePerNonce
  <2> QED BY <1>3, <2>1, <2>2 DEF mark_txs_as_executed_in_miniblock, SealedRow
<1>4. ASSUME NEW t \in txs, Key(t) \in DOMAIN rows
      PROVE  /\ RowOf(Key(t), rows'[Key(t)])
             /\ rows'[Key(t)].tx.hash = t.hash
             /\ rows'[Key(t)].miniblock = n
             /\ rows'[Key(t)].in_batch = rows[Key(t)].in_batch
  <2>1. RowOf(Key(t), rows[Key(t)])
    BY <1>4 DEF TableInv
  <2> QED BY <1>3, <1>4, <2>1, RowSealed
<1>5. TableInv'
  <2> SUFFICES ASSUME NEW k \in DOMAIN rows PROVE RowOf(k, rows'[k])
    BY <1>1 DEF TableInv
  <2>1. CASE k \in Keys(txs)
    BY <1>4, <2>1 DEF Keys
  <2>2. CASE k \notin Keys(txs)
    BY <1>2, <2>2 DEF TableInv
  <2> QED BY <2>1, <2>2
<1> QED BY <1>1, <1>2, <1>4, <1>5

-----------------------------------------------------------------------------
(* Types are kept. *)

\* The steps that leave the mempool alone.
Elsewhere ==
    \/ \E tx \in Transaction : SubmitTx(tx)
    \/ FetcherStart \/ FetcherPurge \/ FetcherFetch \/ FetcherNonces
    \/ MarkRejected \/ CloseOnTimeout \/ SubmitMiniblock \/ SealL1Batch \/ SealMiniblock
    \/ UNCHANGED vars

\* They do leave it alone.
LEMMA ElsewhereUnchanged == Elsewhere => UNCHANGED mempoolVars
BY DEF Elsewhere, SubmitTx, FetcherStart, FetcherPurge, FetcherFetch, FetcherNonces,
       MarkRejected, CloseOnTimeout, SubmitMiniblock, SealL1Batch, SealMiniblock, vars, mempoolVars

\* The steps of the node.
LEMMA Steps ==
    ASSUME [PoolNext]_vars
    PROVE  \/ Elsewhere \/ FetcherInfo \/ FetcherInsert \/ TakeTx \/ IncludeTx
           \/ ExcludeTx \/ ReinsertTx \/ RejectTx \/ Restart
BY DEF PoolNext, Fetch, Sequence, Elsewhere

\* The store's own invariant survives what its callers do with it.
LEMMA StoreKept ==
    ASSUME PoolInv, RoomLeft, [PoolNext]_vars
    PROVE  StoreInv'
<1> USE DEF PoolInv, BaseInv
<1>1. CASE Elsewhere
  BY <1>1, ElsewhereUnchanged, NextStoreInv
<1>2. CASE FetcherInfo
  BY <1>2, InfoStoreInv DEF FetcherInfo, InfoStep
<1>3. CASE FetcherInsert
  <2>1. Insert(fetcher.batch, fetcher.nonces) /\ UNCHANGED taken
    BY <1>3 DEF FetcherInsert
  <2>2. /\ fetcher.batch \in SUBSET Transaction /\ OnePerNonce(fetcher.batch)
        /\ \A a \in DOMAIN fetcher.nonces : fetcher.nonces[a] \in Nat
    BY DEF FetcherInv, Carries
  <2> QED BY <2>1, <2>2, InsertKeeps
<1>4. CASE TakeTx
  BY <1>4, TakeStoreInv DEF TakeTx, TakeStep, HandsInv
<1>5. CASE IncludeTx
  <2>1. SettleStep
    BY <1>5 DEF IncludeTx, SettleStep, HandsInv
  <2> QED BY <2>1, NextStoreInv DEF Next
<1>6. CASE ExcludeTx \/ RejectTx
  <2>1. RollbackStep
    BY <1>6 DEF ExcludeTx, RejectTx, RollbackStep, HandsInv
  <2> QED BY <2>1, RollbackStoreInv
<1>7. CASE ReinsertTx
  <2> DEFINE db == [a \in {} |-> 0]
  <2>1. Insert({handling}, db) /\ UNCHANGED taken
    BY <1>7 DEF ReinsertTx
  <2>2. {handling} \in SUBSET Transaction /\ OnePerNonce({handling})
    BY <1>7 DEF ReinsertTx, HandsInv, OnePerNonce
  <2>3. \A a \in DOMAIN db : db[a] \in Nat
    OBVIOUS
  <2> HIDE DEF db
  <2> QED BY <2>1, <2>2, <2>3, InsertKeeps
<1>8. CASE Restart
  <2>1. Init'
    BY <1>8 DEF Restart, Init
  <2>2. Init' => StoreInv'
    BY InitStoreInv, PTL
  <2> QED BY <2>1, <2>2
<1> QED BY <1>1, <1>2, <1>3, <1>4, <1>5, <1>6, <1>7, <1>8, Steps

\* What the sequencer has in hand keeps the nonce its account had.
LEMMA HandsKept ==
    ASSUME PoolInv, RoomLeft, [PoolNext]_vars
    PROVE  HandsInv'
<1> USE DEF PoolInv, BaseInv
<1>1. CASE Elsewhere
  <2>1. UNCHANGED <<accounts, taken>>
    BY <1>1, ElsewhereUnchanged DEF mempoolVars
  <2>2. \/ UNCHANGED <<stage, handling>>
        \/ stage = "mark" /\ stage' = "idle" /\ handling' = NoTx
        \/ stage \in {"idle", "closing"} /\ stage' \in {"idle", "closing"} /\ UNCHANGED handling
    BY <1>1 DEF Elsewhere, SubmitTx, FetcherStart, FetcherPurge, FetcherFetch, FetcherNonces,
                MarkRejected, CloseOnTimeout, SubmitMiniblock, SealL1Batch, SealMiniblock, vars,
                seqVars
  <2> QED BY <2>1, <2>2 DEF HandsInv
<1>2. CASE FetcherInfo
  <2>1. UNCHANGED <<storeVars, taken, stage, handling>>
    BY <1>2, NothingPurged DEF FetcherInfo, seqVars
  <2> QED BY <2>1 DEF HandsInv, storeVars
<1>3. CASE FetcherInsert
  <2>1. Insert(fetcher.batch, fetcher.nonces) /\ UNCHANGED <<taken, stage, handling>>
    BY <1>3 DEF FetcherInsert, seqVars
  <2>2. fetcher.batch \in SUBSET Transaction
    BY DEF FetcherInv, Carries
  <2>3. /\ DOMAIN accounts \subseteq DOMAIN accounts'
        /\ \A a \in DOMAIN accounts : accounts'[a] = accounts[a]
    BY <2>1, <2>2, Inserted
  <2> QED BY <2>1, <2>3 DEF HandsInv
<1>4. CASE TakeTx
  <2>1. NextTransaction /\ stage = "idle" /\ stage' = "taken" /\ UNCHANGED handling
    BY <1>4 DEF TakeTx
  <2>2. /\ taken' # NoTx /\ taken'.account \in DOMAIN accounts /\ DOMAIN accounts' = DOMAIN accounts
        /\ accounts'[taken'.account] = taken'.nonce + 1
    BY <2>1, TakenOut
  <2> QED BY <2>1, <2>2 DEF HandsInv
<1>5. CASE IncludeTx
  BY <1>5 DEF IncludeTx, HandsInv
<1>6. CASE ExcludeTx \/ RejectTx
  <2>1. /\ stage = "taken" /\ Rollback(taken) /\ handling' = taken /\ taken' = NoTx
        /\ stage' \in {"reinsert", "mark"}
    BY <1>6 DEF ExcludeTx, RejectTx
  <2>2. /\ taken \in Transaction /\ taken # NoTx /\ taken.account \in DOMAIN accounts
        /\ DOMAIN accounts' = DOMAIN accounts /\ accounts'[taken.account] = taken.nonce
    BY <2>1, RolledBack
  <2> QED BY <2>1, <2>2 DEF HandsInv
<1>7. CASE ReinsertTx
  BY <1>7 DEF ReinsertTx, HandsInv
<1>8. CASE Restart
  BY <1>8 DEF Restart, HandsInv
<1> QED BY <1>1, <1>2, <1>3, <1>4, <1>5, <1>6, <1>7, <1>8, Steps

\* Transactions are finite in number, and so are those of one account.
LEMMA AccountFinite ==
    ASSUME NEW S \in SUBSET Transaction, NEW a
    PROVE  /\ IsFiniteSet({t \in S : t.account = a})
           /\ Cardinality({t \in S : t.account = a}) \in Nat
<1>1. {t \in S : t.account = a} \in SUBSET Transaction
  OBVIOUS
<1>2. IsFiniteSet({t \in S : t.account = a})
  BY <1>1, FS_Subset, MempoolAssumption
<1> QED BY <1>2, FS_CardinalityType

\* The sealer takes the first command of its queue.
LEMMA FirstSealed ==
    ASSUME MemoryInv, SealMiniblock
    PROVE  /\ Len(sealing) \in Nat \ {0} /\ Head(sealing) = sealing[1]
           /\ sealing[1] \in SUBSET Transaction
           /\ sealing' \in Seq(SUBSET Transaction) /\ Len(sealing') = Len(sealing) - 1
           /\ \A i \in 1..Len(sealing') : sealing'[i] = sealing[i + 1]
           /\ ledger' = Append(ledger, sealing[1])
           /\ rows' = mark_txs_as_executed_in_miniblock(Len(ledger) + 1, sealing[1])
           /\ committed' = [a \in Account |->
                committed[a] + Cardinality({t \in sealing[1] : t.account = a})]
<1>1. sealing \in Seq(SUBSET Transaction) /\ sealing # <<>> /\ sealing' = Tail(sealing)
  BY DEF MemoryInv, SealMiniblock
<1>2. /\ Len(sealing) \in Nat \ {0} /\ Head(sealing) = sealing[1]
      /\ sealing[1] \in SUBSET Transaction
      /\ sealing' \in Seq(SUBSET Transaction) /\ Len(sealing') = Len(sealing) - 1
      /\ \A i \in 1..Len(sealing') : sealing'[i] = sealing[i + 1]
  BY <1>1
<1> QED BY <1>2 DEF SealMiniblock

\* The ledger, the open miniblock and the queue of the sealer keep their types.
LEMMA MemoryKept ==
    ASSUME PoolInv, [PoolNext]_vars
    PROVE  MemoryInv'
<1> USE DEF PoolInv, BaseInv
<1>1. CASE SealMiniblock
  <2>1. /\ sealing[1] \in SUBSET Transaction /\ sealing' \in Seq(SUBSET Transaction)
        /\ ledger' = Append(ledger, sealing[1])
        /\ committed' = [a \in Account |->
                committed[a] + Cardinality({t \in sealing[1] : t.account = a})]
    BY <1>1, FirstSealed
  <2>2. UNCHANGED <<batched, open>>
    BY <1>1 DEF SealMiniblock
  <2>3. committed' \in [Account -> Nat]
    <3>1. \A a \in Account : Cardinality({t \in sealing[1] : t.account = a}) \in Nat
      BY <2>1, AccountFinite
    <3>2. \A a \in Account : committed[a] \in Nat
      BY DEF MemoryInv
    <3> QED BY <2>1, <3>1, <3>2
  <2>4. ledger' \in Seq(SUBSET Transaction) /\ Len(ledger') = Len(ledger) + 1 /\ Len(ledger) \in Nat
    BY <2>1 DEF MemoryInv
  <2>5. batched \in 0..Len(ledger')
    BY <2>4 DEF MemoryInv
  <2> QED BY <2>1, <2>2, <2>3, <2>4, <2>5 DEF MemoryInv
<1>2. CASE SealL1Batch
  <2>1. ledger' = Append(ledger, {}) /\ batched' = Len(ledger) + 1
          /\ UNCHANGED <<committed, open, sealing>>
    BY <1>2 DEF SealL1Batch
  <2>2. ledger' \in Seq(SUBSET Transaction) /\ Len(ledger') = Len(ledger) + 1 /\ Len(ledger) \in Nat
    BY <2>1 DEF MemoryInv
  <2> QED BY <2>1, <2>2 DEF MemoryInv
<1>3. CASE SubmitMiniblock
  <2>1. sealing' = Append(sealing, open) /\ open' = {} /\ UNCHANGED <<committed, ledger, batched>>
    BY <1>3 DEF SubmitMiniblock, dbVars
  <2> QED BY <2>1 DEF MemoryInv
<1>4. CASE IncludeTx
  <2>1. open' = open \cup {taken} /\ UNCHANGED <<committed, ledger, batched, sealing>>
          /\ stage = "taken"
    BY <1>4 DEF IncludeTx, dbVars
  <2>2. taken \in Transaction
    BY <2>1 DEF HandsInv, StoreInv, TypeOK
  <2> QED BY <2>1, <2>2 DEF MemoryInv
<1>5. CASE Restart
  BY <1>5 DEF Restart, dbVars, MemoryInv
<1>6. CASE UNCHANGED <<committed, ledger, batched, open, sealing>>
  BY <1>6 DEF MemoryInv
<1> QED BY <1>1, <1>2, <1>3, <1>4, <1>5, <1>6
        DEF PoolNext, Fetch, Sequence, SubmitTx, FetcherStart, FetcherPurge, FetcherFetch,
            FetcherNonces, FetcherInfo, FetcherInsert, TakeTx, ExcludeTx, ReinsertTx, RejectTx,
            MarkRejected, CloseOnTimeout, vars, dbVars, seqVars

\* A fetcher that carries nothing.
LEMMA CarriesNothing ==
    ASSUME NEW pc \in {"start", "info", "purge", "fetch"}
    PROVE  /\ At(pc).pc = pc /\ At(pc).purged = {} /\ At(pc).batch = {}
           /\ At(pc) = [pc |-> At(pc).pc, purged |-> {}, batch |-> At(pc).batch,
                        nonces |-> At(pc).nonces]
           /\ Carries(pc, At(pc).batch, At(pc).nonces)
BY DEF At, Carries, OnePerNonce

\* What sync_mempool fetches are transactions, one per account and nonce.
LEMMA Fetched ==
    ASSUME TableInv, NEW F \in SUBSET Fetchable
    PROVE  /\ {rows[k].tx : k \in F} \subseteq Transaction
           /\ OnePerNonce({rows[k].tx : k \in F})
           /\ \A k \in F : k \in DOMAIN rows /\ Key(rows[k].tx) = k
<1>1. \A k \in F : k \in DOMAIN rows /\ rows[k].miniblock = 0
  BY DEF Fetchable
<1>2. \A k \in F : rows[k].tx \in Transaction /\ Key(rows[k].tx) = k
  BY <1>1 DEF TableInv, RowOf
<1> QED BY <1>1, <1>2 DEF OnePerNonce

\* The fetcher purges nothing and carries one transaction per nonce.
LEMMA FetcherKept ==
    ASSUME PoolInv, RoomLeft, [PoolNext]_vars
    PROVE  FetcherInv'
<1> USE DEF PoolInv, BaseInv
<1>1. CASE FetcherStart \/ FetcherPurge \/ FetcherInsert \/ Restart
  <2>1. fetcher' \in {At("info"), At("fetch"), At("start")}
    BY <1>1 DEF FetcherStart, FetcherPurge, FetcherInsert, Restart
  <2>2. PICK pc \in {"start", "info", "fetch"} : fetcher' = At(pc)
    BY <2>1
  <2> QED BY <2>2, CarriesNothing DEF FetcherInv
<1>2. CASE FetcherInfo
  <2>1. fetcher' = [At("purge") EXCEPT !.purged = {}]
    BY <1>2, NothingPurged DEF FetcherInfo
  <2>2. fetcher' = At("purge")
    BY <2>1 DEF At
  <2> QED BY <2>2, CarriesNothing DEF FetcherInv
<1>3. CASE FetcherFetch
  <2>1. PICK F \in SUBSET Fetchable : fetcher' = [At("nonces") EXCEPT !.batch = {rows[k].tx :
          k \in F}]
    BY <1>3 DEF FetcherFetch
  <2>2. {rows[k].tx : k \in F} \subseteq Transaction /\ OnePerNonce({rows[k].tx : k \in F})
    BY Fetched
  <2>3. /\ fetcher' = [pc |-> fetcher'.pc, purged |-> {}, batch |-> fetcher'.batch,
                       nonces |-> fetcher'.nonces]
        /\ fetcher'.pc = "nonces" /\ fetcher'.batch = {rows[k].tx : k \in F}
        /\ fetcher'.nonces = [a \in {} |-> 0]
    BY <2>1 DEF At
  <2>4. Carries(fetcher'.pc, fetcher'.batch, fetcher'.nonces)
    BY <2>2, <2>3 DEF Carries
  <2> QED BY <2>3, <2>4 DEF FetcherInv
<1>4. CASE FetcherNonces
  <2> DEFINE nonces == [a \in {t.account : t \in fetcher.batch} |-> committed[a]]
  <2>1. fetcher' = [fetcher EXCEPT !.pc = "insert", !.nonces = nonces]
    BY <1>4 DEF FetcherNonces
  <2>2. \A a \in DOMAIN nonces : nonces[a] \in Nat
    BY TransactionType DEF MemoryInv, FetcherInv, Carries
  <2>3. DOMAIN nonces = {t.account : t \in fetcher.batch}
    OBVIOUS
  <2> HIDE DEF nonces
  <2>4. /\ fetcher' = [pc |-> fetcher'.pc, purged |-> {}, batch |-> fetcher'.batch,
                       nonces |-> fetcher'.nonces]
        /\ fetcher'.pc = "insert" /\ fetcher'.batch = fetcher.batch /\ fetcher'.nonces = nonces
    <3>1. PICK p, b, n : fetcher = [pc |-> p, purged |-> {}, batch |-> b, nonces |-> n]
      BY DEF FetcherInv
    <3>2. fetcher' = [pc |-> "insert", purged |-> {}, batch |-> b, nonces |-> nonces]
      BY <2>1, <3>1
    <3> QED BY <3>1, <3>2
  <2>5. Carries(fetcher'.pc, fetcher'.batch, fetcher'.nonces)
    BY <2>2, <2>3, <2>4 DEF FetcherInv, Carries
  <2> QED BY <2>4, <2>5 DEF FetcherInv
<1>5. CASE UNCHANGED fetcher
  BY <1>5 DEF FetcherInv
<1> QED BY <1>1, <1>2, <1>3, <1>4, <1>5
        DEF PoolNext, Fetch, Sequence, SubmitTx, TakeTx, IncludeTx, ExcludeTx, ReinsertTx, RejectTx,
            MarkRejected, CloseOnTimeout, SubmitMiniblock, SealL1Batch, SealMiniblock, vars

\* The steps that change the table.
LEMMA TableSteps ==
    ASSUME [PoolNext]_vars
    PROVE  \/ UNCHANGED rows
           \/ \E tx \in Transaction : SubmitTx(tx)
           \/ FetcherStart \/ FetcherPurge \/ FetcherFetch
           \/ MarkRejected \/ SealL1Batch \/ SealMiniblock
BY DEF PoolNext, Fetch, Sequence, FetcherInfo, FetcherNonces, FetcherInsert, TakeTx, IncludeTx,
       ExcludeTx, ReinsertTx, RejectTx, CloseOnTimeout, SubmitMiniblock, Restart, vars, dbVars

\* The rows keep the transaction, the miniblock and the batch they name.
SameRows(D) ==
    /\ DOMAIN rows' = D
    /\ \A k \in D : /\ rows'[k].tx = rows[k].tx /\ rows'[k].miniblock = rows[k].miniblock
                    /\ rows'[k].in_batch = rows[k].in_batch

\* FetcherStart deletes waiting rows and clears flags.
LEMMA StartedRows ==
    ASSUME TableInv, FetcherStart
    PROVE  /\ TableInv'
           /\ \E D \in SUBSET DOMAIN rows :
                /\ SameRows(D)
                /\ \A k \in DOMAIN rows : rows[k].miniblock # 0 => k \in D
                /\ \A k \in D : ~rows'[k].in_mempool
<1>1. PICK stuck \in SUBSET {k \in DOMAIN rows : rows[k].miniblock = 0 /\ ~rows[k].error} :
        rows' = [k \in DOMAIN rows \ stuck |-> [rows[k] EXCEPT !.in_mempool = FALSE]]
  BY DEF FetcherStart
<1> DEFINE D == DOMAIN rows \ stuck
<1>2. /\ DOMAIN rows' = D
      /\ \A k \in D : rows'[k] = [rows[k] EXCEPT !.in_mempool = FALSE] /\ RowOf(k, rows[k])
  BY <1>1 DEF TableInv
<1>3. \A k \in DOMAIN rows : rows[k].miniblock # 0 => k \in D
  OBVIOUS
<1>4. D \in SUBSET DOMAIN rows
  OBVIOUS
<1> HIDE DEF D
<1>5. \A k \in D : /\ RowOf(k, rows'[k]) /\ rows'[k].tx = rows[k].tx
                   /\ rows'[k].miniblock = rows[k].miniblock
                   /\ rows'[k].in_batch = rows[k].in_batch /\ ~rows'[k].in_mempool
  <2> TAKE k \in D
  <2>1. RowOf(k, rows[k]) /\ rows'[k] = [rows[k] EXCEPT !.in_mempool = FALSE]
    BY <1>2
  <2> QED BY <2>1, RowReset
<1> QED BY <1>2, <1>3, <1>4, <1>5 DEF TableInv, SameRows

\* With nothing purged, sync_mempool deletes nothing.
LEMMA PurgedRows ==
    ASSUME TableInv, FetcherInv, FetcherPurge
    PROVE  TableInv' /\ SameRows(DOMAIN rows) /\ \A k \in DOMAIN rows : rows'[k] = rows[k]
<1>1. fetcher.purged = {}
  BY DEF FetcherInv
<1>2. rows' = [k \in DOMAIN rows |-> rows[k]]
  BY <1>1 DEF FetcherPurge, Without
<1> QED BY <1>2 DEF TableInv, SameRows

\* sync_mempool sets the flag of what it fetches.
LEMMA FetchedRows ==
    ASSUME TableInv, FetcherFetch
    PROVE  /\ TableInv' /\ SameRows(DOMAIN rows)
           /\ \E F \in SUBSET Fetchable :
                /\ fetcher'.batch = {rows[k].tx : k \in F} /\ fetcher'.pc = "nonces"
                /\ \A k \in DOMAIN rows : k \notin F => rows'[k] = rows[k]
<1>1. PICK F \in SUBSET Fetchable :
        /\ rows' = [k \in DOMAIN rows |->
                      IF k \in F THEN [rows[k] EXCEPT !.in_mempool = TRUE] ELSE rows[k]]
        /\ fetcher' = [At("nonces") EXCEPT !.batch = {rows[k].tx : k \in F}]
  BY DEF FetcherFetch
<1>2. fetcher'.batch = {rows[k].tx : k \in F} /\ fetcher'.pc = "nonces"
  BY <1>1 DEF At
<1>3. /\ DOMAIN rows' = DOMAIN rows
      /\ \A k \in DOMAIN rows :
           /\ k \in F => rows'[k] = [rows[k] EXCEPT !.in_mempool = TRUE]
           /\ k \notin F => rows'[k] = rows[k]
           /\ RowOf(k, rows[k])
  BY <1>1 DEF TableInv
<1>4. \A k \in DOMAIN rows :
        /\ RowOf(k, rows'[k]) /\ rows'[k].tx = rows[k].tx
        /\ rows'[k].miniblock = rows[k].miniblock /\ rows'[k].in_batch = rows[k].in_batch
  <2> TAKE k \in DOMAIN rows
  <2>1. RowOf(k, rows[k])
    BY <1>3
  <2>2. CASE k \in F
    <3>1. rows'[k] = [rows[k] EXCEPT !.in_mempool = TRUE]
      BY <1>3, <2>2
    <3> QED BY <2>1, <3>1, RowFetched
  <2>3. CASE k \notin F
    BY <1>3, <2>3
  <2> QED BY <2>2, <2>3
<1> QED BY <1>2, <1>3, <1>4 DEF TableInv, SameRows

\* mark_tx_as_rejected.
LEMMA RejectedRows ==
    ASSUME TableInv, MarkRejected
    PROVE  /\ TableInv' /\ SameRows(DOMAIN rows)
           /\ \A k \in DOMAIN rows : /\ rows[k].tx.hash = handling.hash => rows'[k].error
                                     /\ rows[k].tx.hash # handling.hash => rows'[k] = rows[k]
<1>1. /\ DOMAIN rows' = DOMAIN rows
      /\ \A k \in DOMAIN rows :
           /\ rows[k].tx.hash = handling.hash => rows'[k] = [rows[k] EXCEPT !.error = TRUE]
           /\ rows[k].tx.hash # handling.hash => rows'[k] = rows[k]
           /\ RowOf(k, rows[k])
  BY DEF MarkRejected, mark_tx_as_rejected, TableInv
<1>2. \A k \in DOMAIN rows :
        /\ RowOf(k, rows'[k]) /\ rows'[k].tx = rows[k].tx
        /\ rows'[k].miniblock = rows[k].miniblock /\ rows'[k].in_batch = rows[k].in_batch
        /\ rows[k].tx.hash = handling.hash => rows'[k].error
  BY <1>1, ErrorSet
<1> QED BY <1>1, <1>2 DEF TableInv, SameRows

\* Nothing is executed and unsealed when a batch is sealed.
LEMMA ExecutedEmpty ==
    ASSUME open = {}, sealing = <<>>
    PROVE  Executed = {}
BY DEF Executed

\* mark_txs_as_executed_in_l1_batch.
LEMMA BatchedRows ==
    ASSUME PoolInv, SealL1Batch
    PROVE  /\ TableInv' /\ DOMAIN rows' = DOMAIN rows
           /\ \A k \in DOMAIN rows :
                /\ rows'[k].tx = rows[k].tx /\ rows'[k].miniblock = rows[k].miniblock
                /\ rows'[k].in_mempool = rows[k].in_mempool /\ rows'[k].error = rows[k].error
                /\ rows[k].in_batch => rows'[k].in_batch
                /\ (\E u \in batch_txs : u.hash = rows[k].tx.hash) => rows'[k].in_batch
<1> DEFINE H == {t.hash : t \in batch_txs}
<1>1. Executed = {}
  BY ExecutedEmpty DEF SealL1Batch
<1>2. /\ DOMAIN rows' = DOMAIN rows
      /\ \A k \in DOMAIN rows :
           /\ rows[k].tx.hash \in H => rows'[k] = [rows[k] EXCEPT !.in_batch = TRUE]
           /\ rows[k].tx.hash \notin H => rows'[k] = rows[k]
  BY DEF SealL1Batch, mark_txs_as_executed_in_l1_batch
<1>3. ASSUME NEW k \in DOMAIN rows, rows[k].tx.hash \in H
      PROVE  rows[k].miniblock # 0
  <2>1. PICK u \in batch_txs : u.hash = rows[k].tx.hash
    BY <1>3
  <2>2. PICK t \in Transaction : t.hash = u.hash /\ Key(t) = Key(u)
    BY DEF PoolInv, BatchInv
  <2>3. PICK v \in Transaction : v.hash = rows[k].tx.hash /\ Key(v) = k
    BY DEF PoolInv, BaseInv, TableInv, RowOf
  <2>4. Key(t) = Key(v)
    BY <2>1, <2>2, <2>3, HashAssumption
  <2> QED BY <1>1, <2>2, <2>3, <2>4 DEF PoolInv, BatchInv
<1>4. ASSUME NEW k \in DOMAIN rows
      PROVE  /\ RowOf(k, rows'[k])
             /\ rows'[k].tx = rows[k].tx /\ rows'[k].miniblock = rows[k].miniblock
             /\ rows'[k].in_mempool = rows[k].in_mempool /\ rows'[k].error = rows[k].error
             /\ rows[k].in_batch => rows'[k].in_batch
             /\ rows[k].tx.hash \in H => rows'[k].in_batch
  <2>1. RowOf(k, rows[k])
    BY DEF PoolInv, BaseInv, TableInv
  <2> HIDE DEF H
  <2>2. CASE rows[k].tx.hash \in H
    BY <1>2, <1>3, <2>1, <2>2, RowBatched
  <2>3. CASE rows[k].tx.hash \notin H
    BY <1>2, <2>1, <2>3
  <2> QED BY <2>2, <2>3
<1> QED BY <1>2, <1>4 DEF TableInv

\* SealMiniblock writes the rows of its miniblock.
LEMMA MiniblockRows ==
    ASSUME PoolInv, SealMiniblock
    PROVE  /\ TableInv' /\ DOMAIN rows' = DOMAIN rows
           /\ \A k \in DOMAIN rows : k \notin Keys(sealing[1]) => rows'[k] = rows[k]
           /\ \A t \in sealing[1] : Key(t) \in DOMAIN rows =>
                /\ rows'[Key(t)].tx.hash = t.hash
                /\ rows'[Key(t)].miniblock = Len(ledger) + 1
                /\ rows'[Key(t)].in_batch = rows[Key(t)].in_batch
<1>1. /\ Len(sealing) \in Nat \ {0} /\ sealing[1] \in SUBSET Transaction
      /\ rows' = mark_txs_as_executed_in_miniblock(Len(ledger) + 1, sealing[1])
  BY FirstSealed DEF PoolInv, BaseInv
<1>2. OnePerNonce(sealing[1])
  BY <1>1 DEF PoolInv, OrderInv
<1>3. Len(ledger) + 1 \in Nat \ {0}
  BY DEF PoolInv, BaseInv, MemoryInv
<1> DEFINE n == Len(ledger) + 1
           txs == sealing[1]
<1>4. TableInv /\ n \in Nat \ {0} /\ txs \in SUBSET Transaction /\ OnePerNonce(txs)
      /\ rows' = mark_txs_as_executed_in_miniblock(n, txs)
  BY <1>1, <1>2, <1>3 DEF PoolInv, BaseInv
<1> HIDE DEF n, txs
<1>5. /\ TableInv' /\ DOMAIN rows' = DOMAIN rows
      /\ \A k \in DOMAIN rows : k \notin Keys(txs) => rows'[k] = rows[k]
      /\ \A t \in txs : Key(t) \in DOMAIN rows =>
                /\ rows'[Key(t)].tx.hash = t.hash
                /\ rows'[Key(t)].miniblock = n
                /\ rows'[Key(t)].in_batch = rows[Key(t)].in_batch
  BY <1>4, RowsSealed
<1> QED BY <1>5 DEF n, txs

\* Every statement leaves rows of transactions.
LEMMA TableKept ==
    ASSUME PoolInv, [PoolNext]_vars
    PROVE  TableInv'
<1> USE DEF PoolInv, BaseInv
<1>1. CASE UNCHANGED rows
  BY <1>1 DEF TableInv
<1>2. ASSUME NEW tx \in Transaction, SubmitTx(tx)
      PROVE  TableInv'
  BY <1>2, RowInserted DEF SubmitTx
<1> QED BY <1>1, <1>2, TableSteps, StartedRows, PurgedRows, FetchedRows, RejectedRows, BatchedRows,
           MiniblockRows

\* The types are kept.
LEMMA BaseKept ==
    ASSUME PoolInv, RoomLeft, [PoolNext]_vars
    PROVE  BaseInv'
BY StoreKept, TableKept, MemoryKept, HandsKept, FetcherKept DEF BaseInv

-----------------------------------------------------------------------------
(* Nonces are without gaps. *)

\* What is executed and not yet sealed.
LEMMA InExecuted ==
    ASSUME NEW t
    PROVE  t \in Executed <=> t \in open \/ \E i \in 1..Len(sealing) : t \in sealing[i]
BY Zenon DEF Executed

\* The same of the next state.
LEMMA InExecutedNext ==
    ASSUME NEW t
    PROVE  t \in Executed' <=> t \in open' \/ \E i \in 1..Len(sealing') : t \in sealing'[i]
BY Zenon DEF Executed

\* What is executed are transactions with nonces that are reached.
LEMMA BelowReached ==
    ASSUME PoolInv, NEW t \in Executed
    PROVE  /\ t \in Transaction /\ t.account \in DOMAIN accounts /\ t.nonce \in Nat
           /\ committed[t.account] <= t.nonce /\ t.nonce < Reached(t.account)
           /\ Reached(t.account) \in Int
<1>1. t \in Transaction
  BY InExecuted DEF PoolInv, BaseInv, MemoryInv
<1>2. t.account \in DOMAIN accounts /\ t.nonce \in Nat /\ Key(t) = <<t.account, t.nonce>>
  BY <1>1, TxFields DEF PoolInv, NonceInv
<1>3. t.nonce \in Nonces(Executed, t.account)
  BY <1>2 DEF Nonces
<1>4. t.nonce \in committed[t.account]..(Reached(t.account) - 1)
  BY <1>2, <1>3 DEF PoolInv, NonceInv
<1>5. committed[t.account] \in Int /\ Reached(t.account) \in Int
  <2>1. accounts[t.account] \in Nat /\ t.account \in Account
    BY <1>2 DEF PoolInv, BaseInv, StoreInv, TypeOK
  <2> QED BY <2>1 DEF PoolInv, BaseInv, MemoryInv, Reached, InFlight
<1> QED BY <1>1, <1>2, <1>4, <1>5

\* The transaction in flight has the nonce that is reached.
LEMMA TakenIsNext ==
    ASSUME PoolInv, stage = "taken"
    PROVE  /\ taken # NoTx /\ taken \in Transaction /\ taken.account \in DOMAIN accounts
           /\ taken.nonce \in Nat /\ taken.nonce = Reached(taken.account)
           /\ accounts[taken.account] = taken.nonce + 1
           /\ \A a : InFlight(a) = IF a = taken.account THEN 1 ELSE 0
<1>1. /\ taken # NoTx /\ taken \in Transaction /\ taken.account \in DOMAIN accounts
      /\ accounts[taken.account] = taken.nonce + 1
  BY DEF PoolInv, BaseInv, HandsInv, StoreInv, TypeOK
<1>2. taken.nonce \in Nat
  BY <1>1, TransactionType
<1>3. \A a : InFlight(a) = IF a = taken.account THEN 1 ELSE 0
  BY <1>1 DEF InFlight
<1> QED BY <1>1, <1>2, <1>3 DEF Reached

\* The steps that change what is executed.
LEMMA ExecutedSteps ==
    ASSUME [PoolNext]_vars
    PROVE  \/ UNCHANGED <<open, sealing>>
           \/ IncludeTx \/ SubmitMiniblock \/ SealMiniblock \/ Restart
BY DEF PoolNext, Fetch, Sequence, SubmitTx, FetcherStart, FetcherPurge, FetcherFetch,
       FetcherNonces, FetcherInfo, FetcherInsert, TakeTx, ExcludeTx, ReinsertTx, RejectTx,
       MarkRejected, CloseOnTimeout, SealL1Batch, vars, seqVars

\* What is executed later has the greater nonce.
LEMMA OrderKept ==
    ASSUME PoolInv, [PoolNext]_vars
    PROVE  OrderInv'
<1>1. CASE UNCHANGED <<open, sealing>>
  BY <1>1 DEF PoolInv, OrderInv, OnePerNonce
<1>2. CASE IncludeTx
  <2>1. open' = open \cup {taken} /\ UNCHANGED sealing /\ stage = "taken"
    BY <1>2 DEF IncludeTx
  <2>2. taken \in Transaction /\ taken.nonce = Reached(taken.account) /\ taken.nonce \in Nat
    BY <2>1, TakenIsNext
  <2>3. \A t \in Executed : t.account = taken.account => t.nonce < taken.nonce
    BY <2>2, BelowReached
  <2>4. \A t \in open : t \in Executed /\ t.nonce \in Nat
    BY InExecuted, BelowReached
  <2>5. \A i \in 1..Len(sealing) : \A t \in sealing[i] : t \in Executed
    BY InExecuted
  <2>6. OnePerNonce(open')
    BY <2>1, <2>2, <2>3, <2>4 DEF PoolInv, OrderInv, OnePerNonce, Key
  <2> QED BY <2>1, <2>3, <2>5, <2>6 DEF PoolInv, OrderInv
<1>3. CASE SubmitMiniblock
  <2>1. sealing' = Append(sealing, open) /\ open' = {}
    BY <1>3 DEF SubmitMiniblock
  <2>2. /\ Len(sealing') = Len(sealing) + 1 /\ Len(sealing) \in Nat
        /\ \A i \in 1..Len(sealing) : sealing'[i] = sealing[i]
        /\ sealing'[Len(sealing) + 1] = open
    BY <2>1 DEF PoolInv, BaseInv, MemoryInv
  <2>3. \A i \in 1..Len(sealing') : i \in 1..Len(sealing) \/ i = Len(sealing) + 1
    BY <2>2
  <2>4. \A i \in 1..Len(sealing') : OnePerNonce(sealing'[i])
    BY <2>2, <2>3 DEF PoolInv, OrderInv
  <2>5. \A i, j \in 1..Len(sealing') : i < j =>
          \A t \in sealing'[i], u \in sealing'[j] : t.account = u.account => t.nonce < u.nonce
    <3> SUFFICES ASSUME NEW i \in 1..Len(sealing'), NEW j \in 1..Len(sealing'), i < j
                 PROVE  \A t \in sealing'[i], u \in sealing'[j] :
                           t.account = u.account => t.nonce < u.nonce
      OBVIOUS
    <3>1. i \in 1..Len(sealing)
      BY <2>2, <2>3
    <3>2. CASE j \in 1..Len(sealing)
      BY <2>2, <3>1, <3>2 DEF PoolInv, OrderInv
    <3>3. CASE j = Len(sealing) + 1
      BY <2>2, <3>1, <3>3 DEF PoolInv, OrderInv
    <3> QED BY <2>3, <3>2, <3>3
  <2> QED BY <2>1, <2>4, <2>5 DEF OrderInv, OnePerNonce
<1>4. CASE SealMiniblock
  <2>1. /\ Len(sealing) \in Nat \ {0} /\ Len(sealing') = Len(sealing) - 1
        /\ \A i \in 1..Len(sealing') : sealing'[i] = sealing[i + 1]
    BY <1>4, FirstSealed DEF PoolInv, BaseInv
  <2>2. UNCHANGED open
    BY <1>4 DEF SealMiniblock
  <2>3. \A i \in 1..Len(sealing') : i + 1 \in 1..Len(sealing)
    BY <2>1
  <2>4. \A i, j \in 1..Len(sealing') : i < j => i + 1 < j + 1
    OBVIOUS
  <2> QED BY <2>1, <2>2, <2>3, <2>4 DEF PoolInv, OrderInv
<1>5. CASE Restart
  BY <1>5 DEF Restart, OrderInv, OnePerNonce
<1> QED BY <1>1, <1>2, <1>3, <1>4, <1>5, ExecutedSteps

\* A set of numbers from c on that has every number below its own is an interval.
LEMMA PrefixInterval ==
    ASSUME NEW c \in Nat, NEW S \in SUBSET Nat, IsFiniteSet(S),
           \A m \in S : c <= m /\ \A n \in c..m : n \in S
    PROVE  S = c..(c + Cardinality(S) - 1)
<1> DEFINE Bad == {n \in Nat : c <= n /\ n \notin S}
<1>1. Bad # {}
  <2> SUFFICES ASSUME Bad = {} PROVE FALSE
    OBVIOUS
  <2>0. Cardinality(S) \in Nat
    BY FS_CardinalityType
  <2>1. \A n \in Nat : c <= n => n \in S
    OBVIOUS
  <2>2. c..(c + Cardinality(S)) \in SUBSET S
    BY <2>0, <2>1
  <2>3. Cardinality(c..(c + Cardinality(S))) <= Cardinality(S)
    BY <2>2, FS_Subset
  <2>4. Cardinality(c..(c + Cardinality(S))) = Cardinality(S) + 1
    <3> DEFINE d == c + Cardinality(S)
    <3>1. c \in Int /\ d \in Int /\ ~ (c > d) /\ d - c + 1 = Cardinality(S) + 1
      BY <2>0
    <3> HIDE DEF d
    <3>2. Cardinality(c..d) = d - c + 1
      BY <3>1, FS_Interval
    <3> QED BY <3>1, <3>2 DEF d
  <2> QED BY <2>0, <2>3, <2>4
<1>2. Bad \subseteq Nat
  OBVIOUS
<1>3. PICK e \in Bad : \A y \in Bad : ~ (<<y, e>> \in OpToRel(<, Nat))
  <2> HIDE DEF Bad
  <2> QED BY <1>1, <1>2, NatLessThanWellFounded, WFMin, Zenon
<1>4. \A y \in Bad : ~ (y < e)
  <2> HIDE DEF Bad
  <2> QED BY <1>2, <1>3, Zenon DEF OpToRel
<1>5. e \in Nat /\ c <= e /\ e \notin S
  OBVIOUS
<1>6. \A n \in S : n \in c..(e - 1)
  BY <1>5
<1>7. \A n \in c..(e - 1) : n \in S
  <2> TAKE n \in c..(e - 1)
  <2>1. n \in Nat /\ c <= n /\ n < e
    BY <1>5
  <2>2. n \notin Bad
    BY <1>4, <2>1
  <2> QED BY <2>1, <2>2
<1>8. S = c..(e - 1)
  BY <1>6, <1>7
<1>9. Cardinality(S) = e - c
  <2>1. Cardinality(c..(e - 1)) = IF c > e - 1 THEN 0 ELSE (e - 1) - c + 1
    <3> DEFINE d == e - 1
    <3>1. c \in Int /\ d \in Int
      BY <1>5
    <3> HIDE DEF d
    <3>2. Cardinality(c..d) = IF c > d THEN 0 ELSE d - c + 1
      BY <3>1, FS_Interval
    <3> QED BY <3>2 DEF d
  <2>2. Cardinality(S) = Cardinality(c..(e - 1))
    BY <1>8, Zenon
  <2> QED BY <1>5, <2>1, <2>2
<1>10. c + Cardinality(S) - 1 = e - 1
  BY <1>5, <1>9
<1> QED BY <1>8, <1>10

\* With one transaction per nonce an account has as many of them as nonces.
LEMMA NonceCount ==
    ASSUME NEW S \in SUBSET Transaction, OnePerNonce(S), NEW a
    PROVE  /\ IsFiniteSet(Nonces(S, a))
           /\ Cardinality({t \in S : t.account = a}) = Cardinality(Nonces(S, a))
<1> DEFINE A == {t \in S : t.account = a}
           N == Nonces(S, a)
           f == [t \in A |-> t.nonce]
<1>1. \A t \in A : t \in S /\ t.nonce \in Nat /\ Key(t) = <<a, t.nonce>>
  BY TxFields
<1>2. \A t \in A : t.nonce \in N
  BY <1>1 DEF Nonces
<1>3. \A n \in N : \E t \in A : t.nonce = n
  <2> TAKE n \in N
  <2>1. PICK t \in S : Key(t) = <<a, n>>
    BY DEF Nonces
  <2> QED BY <2>1, TxFields
<1>4. \A t, u \in A : t.nonce = u.nonce => t = u
  BY <1>1 DEF OnePerNonce
<1>5. IsFiniteSet(A)
  BY AccountFinite
<1> HIDE DEF A, N
<1>6. f \in Bijection(A, N)
  BY <1>2, <1>3, <1>4 DEF Bijection, Injection, Surjection, IsInjective
<1>7. ExistsBijection(A, N)
  BY <1>6 DEF ExistsBijection
<1>8. IsFiniteSet(N) /\ Cardinality(N) = Cardinality(A)
  BY <1>5, <1>7, FS_Bijection
<1> QED BY <1>8 DEF A, N

\* The miniblock that is sealed comes first, the others keep their order.
LEMMA SealedFirst ==
    ASSUME PoolInv, SealMiniblock
    PROVE  /\ \A t \in Executed : t \in sealing[1] \/ t \in Executed'
           /\ \A t \in sealing[1] : t \in Executed
           /\ \A u \in Executed' : u \in Executed
           /\ \A t \in sealing[1], u \in Executed' : t.account = u.account => t.nonce < u.nonce
<1>1. /\ Len(sealing) \in Nat \ {0} /\ Len(sealing') = Len(sealing) - 1
      /\ \A i \in 1..Len(sealing') : sealing'[i] = sealing[i + 1]
  BY FirstSealed DEF PoolInv, BaseInv
<1>2. open' = open
  BY DEF SealMiniblock
<1>3. 1 \in 1..Len(sealing)
  BY <1>1
<1>4. \A i \in 1..Len(sealing') : i + 1 \in 1..Len(sealing) /\ 1 < i + 1
  BY <1>1
<1>5. \A j \in 1..Len(sealing) : j = 1 \/ (j - 1 \in 1..Len(sealing') /\ (j - 1) + 1 = j)
  BY <1>1
<1>6. ASSUME NEW t \in Executed
      PROVE  t \in sealing[1] \/ t \in Executed'
  <2>1. CASE t \in open
    BY <1>2, <2>1, InExecutedNext
  <2>2. ASSUME NEW j \in 1..Len(sealing), t \in sealing[j], j # 1
        PROVE  t \in Executed'
    <3>1. j - 1 \in 1..Len(sealing') /\ t \in sealing'[j - 1]
      BY <1>1, <1>5, <2>2
    <3> QED BY <3>1, InExecutedNext
  <2> QED BY <2>1, <2>2, InExecuted
<1>7. \A t \in sealing[1] : t \in Executed
  BY <1>3, InExecuted
<1>8. \A u \in Executed' : u \in open \/ \E j \in 1..Len(sealing) : 1 < j /\ u \in sealing[j]
  BY <1>1, <1>2, <1>4, InExecutedNext
<1>9. \A u \in Executed' : u \in Executed
  BY <1>8, InExecuted
<1>10. \A t \in sealing[1], u \in Executed' : t.account = u.account => t.nonce < u.nonce
  BY <1>3, <1>8 DEF PoolInv, OrderInv
<1> QED BY <1>6, <1>7, <1>9, <1>10

\* An account that the mempool does not know has nothing executed.
LEMMA UnknownAccount ==
    ASSUME PoolInv, SealMiniblock, NEW a \in Account, a \notin DOMAIN accounts
    PROVE  committed'[a] = committed[a]
<1>1. \A t \in sealing[1] : t.account \in DOMAIN accounts
  BY SealedFirst DEF PoolInv, NonceInv
<1>2. {t \in sealing[1] : t.account = a} = {}
  BY <1>1
<1>3. Cardinality({t \in sealing[1] : t.account = a}) = 0
  BY <1>2, FS_EmptySet, Zenon
<1>4. committed'[a] = committed[a] + Cardinality({t \in sealing[1] : t.account = a})
  BY FirstSealed DEF PoolInv, BaseInv
<1>5. committed[a] \in Nat
  BY DEF PoolInv, BaseInv, MemoryInv
<1> QED BY <1>3, <1>4, <1>5

\* The committed nonces move over those of the miniblock that is sealed.
LEMMA MiniblockNonces ==
    ASSUME PoolInv, SealMiniblock, NEW a \in DOMAIN accounts
    PROVE  /\ committed'[a] \in Nat /\ committed[a] <= committed'[a] /\ committed'[a] <= Reached(a)
           /\ Nonces(sealing[1], a) = committed[a]..(committed'[a] - 1)
           /\ Nonces(Executed', a) = committed'[a]..(Reached(a) - 1)
<1> DEFINE c == committed[a]
           d == committed'[a]
           R == Reached(a)
           S == Nonces(sealing[1], a)
<1>1. /\ a \in Account /\ c \in Nat /\ R \in Int /\ c <= R
      /\ Nonces(Executed, a) = c..(R - 1)
  <2>1. a \in Account /\ accounts[a] \in Nat
    BY DEF PoolInv, BaseInv, StoreInv, TypeOK
  <2>2. c \in Nat /\ R \in Int
    BY <2>1 DEF PoolInv, BaseInv, MemoryInv, Reached, InFlight
  <2> QED BY <2>1, <2>2 DEF PoolInv, NonceInv
<1>2. /\ sealing[1] \in SUBSET Transaction /\ OnePerNonce(sealing[1])
      /\ d = c + Cardinality({t \in sealing[1] : t.account = a})
  <2>1. Len(sealing) \in Nat \ {0} /\ sealing[1] \in SUBSET Transaction
    BY FirstSealed DEF PoolInv, BaseInv
  <2>2. d = c + Cardinality({t \in sealing[1] : t.account = a})
    BY <1>1, FirstSealed DEF PoolInv, BaseInv
  <2> QED BY <2>1, <2>2 DEF PoolInv, OrderInv
<1> DEFINE txs == sealing[1]
<1>3. IsFiniteSet(S) /\ d = c + Cardinality(S)
  <2>1. txs \in SUBSET Transaction /\ OnePerNonce(txs)
    BY <1>2
  <2> HIDE DEF txs
  <2>2. /\ IsFiniteSet(Nonces(txs, a))
        /\ Cardinality({t \in txs : t.account = a}) = Cardinality(Nonces(txs, a))
    BY <2>1, NonceCount
  <2> QED BY <1>2, <2>2 DEF txs
<1>4. \A n \in S : n \in c..(R - 1) /\ \E t \in sealing[1] : Key(t) = <<a, n>>
  <2> TAKE n \in S
  <2>1. PICK t \in sealing[1] : Key(t) = <<a, n>> /\ n \in Nat
    BY DEF Nonces
  <2>2. t \in Executed
    BY SealedFirst
  <2>3. n \in Nonces(Executed, a)
    BY <2>1, <2>2 DEF Nonces
  <2> QED BY <1>1, <2>1, <2>3
<1>5. \A t \in sealing[1], u \in Executed' : \A m, n :
        (Key(t) = <<a, m>> /\ Key(u) = <<a, n>>) => m < n
  BY SealedFirst DEF Key
<1>6. \A n \in c..(R - 1) : n \in S \/ n \in Nonces(Executed', a)
  <2> TAKE n \in c..(R - 1)
  <2>1. PICK t \in Executed : Key(t) = <<a, n>> /\ n \in Nat
    BY <1>1 DEF Nonces
  <2>2. t \in sealing[1] \/ t \in Executed'
    BY SealedFirst
  <2> QED BY <2>1, <2>2 DEF Nonces
<1>7. \A n \in Nonces(Executed', a) : /\ n \in c..(R - 1)
                                      /\ \E u \in Executed' : Key(u) = <<a, n>>
  <2> TAKE n \in Nonces(Executed', a)
  <2>1. PICK t \in Executed' : Key(t) = <<a, n>> /\ n \in Nat
    BY DEF Nonces
  <2>2. t \in Executed
    BY SealedFirst
  <2>3. n \in Nonces(Executed, a)
    BY <2>1, <2>2 DEF Nonces
  <2> QED BY <1>1, <2>1, <2>3
<1>8. \A m \in S, n \in Nonces(Executed', a) : m < n
  BY <1>4, <1>5, <1>7
<1> HIDE DEF S, R
<1>9. \A m \in S : c <= m /\ \A n \in c..m : n \in S
  <2> TAKE m \in S
  <2>1. m \in c..(R - 1)
    BY <1>4
  <2>2. \A n \in c..m : n \in c..(R - 1) /\ ~ (m < n)
    BY <1>1, <2>1
  <2> QED BY <1>1, <1>6, <1>8, <2>1, <2>2
<1>10. S \subseteq Nat
  BY <1>1, <1>4
<1>11. S = c..(c + Cardinality(S) - 1)
  <2> HIDE DEF c
  <2> QED BY <1>1, <1>3, <1>9, <1>10, PrefixInterval
<1>12. Cardinality(S) \in Nat
  BY <1>3, FS_CardinalityType
<1>13. d \in Nat /\ c <= d /\ S = c..(d - 1)
  BY <1>1, <1>3, <1>11, <1>12
<1> HIDE DEF c, d
<1>14. d <= R
  <2> SUFFICES ASSUME c < d PROVE d <= R
    BY <1>1, <1>13
  <2>1. d - 1 \in S
    BY <1>1, <1>13
  <2>2. d - 1 \in c..(R - 1)
    BY <1>4, <2>1
  <2> QED BY <1>1, <1>13, <2>2
<1>15. Nonces(Executed', a) = d..(R - 1)
  <2>1. ASSUME NEW n \in d..(R - 1)
        PROVE  n \in Nonces(Executed', a)
    <3>1. n \in c..(R - 1) /\ n \notin c..(d - 1)
      BY <1>1, <1>13, <2>1
    <3> QED BY <1>6, <1>13, <3>1
  <2>2. ASSUME NEW n \in Nonces(Executed', a)
        PROVE  n \in d..(R - 1)
    <3>1. n \in c..(R - 1)
      BY <1>7
    <3>2. n \notin c..(d - 1)
      <4> SUFFICES ASSUME n \in S PROVE FALSE
        BY <1>13
      <4> QED BY <1>1, <1>8, <3>1
    <3> QED BY <1>1, <1>13, <3>1, <3>2
  <2> QED BY <2>1, <2>2
<1> QED BY <1>13, <1>14, <1>15 DEF c, d, R, S

\* What is executed stays when it is only moved to the sealer's queue.
LEMMA ExecutedKept ==
    ASSUME PoolInv, UNCHANGED <<open, sealing>> \/ SubmitMiniblock
    PROVE  Executed' = Executed
<1>1. CASE UNCHANGED <<open, sealing>>
  BY <1>1, Zenon DEF Executed
<1>2. CASE SubmitMiniblock
  <2>1. sealing' = Append(sealing, open) /\ open' = {}
    BY <1>2 DEF SubmitMiniblock
  <2>2. /\ Len(sealing') = Len(sealing) + 1 /\ Len(sealing) \in Nat
        /\ \A i \in 1..Len(sealing) : sealing'[i] = sealing[i]
        /\ sealing'[Len(sealing) + 1] = open
    BY <2>1 DEF PoolInv, BaseInv, MemoryInv
  <2>3. /\ \A i \in 1..Len(sealing') : i \in 1..Len(sealing) \/ i = Len(sealing) + 1
        /\ \A i \in 1..Len(sealing) : i \in 1..Len(sealing')
        /\ Len(sealing) + 1 \in 1..Len(sealing')
    BY <2>2
  <2>4. \A t : t \in Executed' <=> t \in Executed
    <3> TAKE t
    <3>1. t \in Executed <=> t \in open \/ \E i \in 1..Len(sealing) : t \in sealing[i]
      BY InExecuted
    <3>2. t \in Executed' <=> t \in open' \/ \E i \in 1..Len(sealing') : t \in sealing'[i]
      BY InExecutedNext
    <3>3. ASSUME t \in Executed PROVE t \in Executed'
      BY <2>2, <2>3, <3>1, <3>2, <3>3
    <3>4. ASSUME t \in Executed' PROVE t \in Executed
      BY <2>1, <2>2, <2>3, <3>1, <3>2, <3>4
    <3> QED BY <3>3, <3>4
  <2> QED BY <2>4
<1> QED BY <1>1, <1>2

\* A step that neither seals nor executes, and at most takes or gives back.
LEMMA NonceFrame ==
    ASSUME PoolInv, UNCHANGED committed, Executed' = Executed,
           DOMAIN accounts' = DOMAIN accounts,
           \A a \in DOMAIN accounts : Reached(a)' = Reached(a),
           fetcher'.pc = "insert" => UNCHANGED fetcher
    PROVE  NonceInv'
<1>1. \A a \in DOMAIN accounts' :
         /\ committed'[a] <= Reached(a)'
         /\ Nonces(Executed', a) = committed'[a]..(Reached(a)' - 1)
  <2> TAKE a \in DOMAIN accounts'
  <2>1. Nonces(Executed', a) = Nonces(Executed, a)
    BY Zenon
  <2> QED BY <2>1 DEF PoolInv, NonceInv
<1>2. \A t \in Executed' : t.account \in DOMAIN accounts'
  BY DEF PoolInv, NonceInv
<1>3. fetcher'.pc = "insert" => \A a \in DOMAIN fetcher'.nonces :
        a \notin DOMAIN accounts' => fetcher'.nonces[a] = committed'[a]
  BY DEF PoolInv, NonceInv
<1> QED BY <1>1, <1>2, <1>3 DEF NonceInv

\* The nonces stay without gaps.
LEMMA NonceKept ==
    ASSUME PoolInv, RoomLeft, [PoolNext]_vars
    PROVE  NonceInv'
<1>1. CASE SealMiniblock
  <2>1. UNCHANGED <<accounts, taken, fetcher>>
    BY <1>1 DEF SealMiniblock, mempoolVars
  <2>2. \A a : Reached(a)' = Reached(a)
    BY <2>1 DEF Reached, InFlight
  <2>3. \A a \in DOMAIN accounts' :
         /\ committed'[a] <= Reached(a)'
         /\ Nonces(Executed', a) = committed'[a]..(Reached(a)' - 1)
    BY <1>1, <2>1, <2>2, MiniblockNonces
  <2>4. \A t \in Executed' : t.account \in DOMAIN accounts'
    BY <1>1, <2>1, SealedFirst DEF PoolInv, NonceInv
  <2>5. fetcher'.pc = "insert" => \A a \in DOMAIN fetcher'.nonces :
          a \notin DOMAIN accounts' => fetcher'.nonces[a] = committed'[a]
    <3> SUFFICES ASSUME fetcher.pc = "insert", NEW a \in DOMAIN fetcher.nonces,
                        a \notin DOMAIN accounts
                 PROVE  fetcher.nonces[a] = committed'[a]
      BY <2>1
    <3>1. a \in Account
      BY TransactionType DEF PoolInv, BaseInv, FetcherInv, Carries
    <3> QED BY <1>1, <3>1, UnknownAccount DEF PoolInv, NonceInv
  <2> QED BY <2>3, <2>4, <2>5 DEF NonceInv
<1>2. CASE FetcherNonces
  <2>1. UNCHANGED <<accounts, taken, committed, open, sealing>>
    BY <1>2 DEF FetcherNonces, mempoolVars, dbVars, seqVars
  <2>2. \A a : Reached(a)' = Reached(a)
    BY <2>1 DEF Reached, InFlight
  <2>3. Executed' = Executed
    BY <2>1, ExecutedKept
  <2>4. \A a : Nonces(Executed', a) = Nonces(Executed, a)
    BY <2>3, Zenon
  <2>5. \A a \in DOMAIN fetcher'.nonces : fetcher'.nonces[a] = committed[a]
    <3> DEFINE nonces == [a \in {t.account : t \in fetcher.batch} |-> committed[a]]
    <3>1. PICK p, b, n : fetcher = [pc |-> p, purged |-> {}, batch |-> b, nonces |-> n]
      BY DEF PoolInv, BaseInv, FetcherInv
    <3>2. fetcher' = [fetcher EXCEPT !.pc = "insert", !.nonces = nonces]
      BY <1>2 DEF FetcherNonces
    <3>3. \A a \in DOMAIN nonces : nonces[a] = committed[a]
      OBVIOUS
    <3> HIDE DEF nonces
    <3>4. fetcher'.nonces = nonces
      BY <3>1, <3>2
    <3> QED BY <3>3, <3>4
  <2> QED BY <2>1, <2>2, <2>3, <2>4, <2>5 DEF PoolInv, NonceInv
<1>3. CASE Elsewhere /\ ~SealMiniblock /\ ~FetcherNonces
  <2>1. UNCHANGED <<accounts, taken>>
    BY <1>3, ElsewhereUnchanged DEF mempoolVars
  <2>2. UNCHANGED committed /\ (UNCHANGED <<open, sealing>> \/ SubmitMiniblock)
    BY <1>3 DEF Elsewhere, SubmitTx, FetcherStart, FetcherPurge, FetcherFetch,
                MarkRejected, CloseOnTimeout, SubmitMiniblock, SealL1Batch, vars, seqVars, dbVars
  <2>3. fetcher'.pc = "insert" => UNCHANGED fetcher
    <3>1. \/ UNCHANGED fetcher
          \/ fetcher' \in {At("info"), At("fetch")}
          \/ FetcherFetch
      BY <1>3 DEF Elsewhere, SubmitTx, FetcherStart, FetcherPurge,
                  MarkRejected, CloseOnTimeout, SubmitMiniblock, SealL1Batch, vars
    <3> QED BY <3>1, FetchedRows DEF PoolInv, BaseInv, At
  <2>4. Executed' = Executed
    BY <2>2, ExecutedKept
  <2>5. \A a : Reached(a)' = Reached(a)
    BY <2>1 DEF Reached, InFlight
  <2> QED BY <2>1, <2>2, <2>3, <2>4, <2>5, NonceFrame
<1>4. CASE FetcherInfo
  <2>1. /\ UNCHANGED <<storeVars, taken, committed, open, sealing>>
        /\ fetcher' = [At("purge") EXCEPT !.purged = Purged]
    BY <1>4, NothingPurged DEF FetcherInfo, dbVars, seqVars, PoolInv, BaseInv
  <2>2. fetcher'.pc = "purge" /\ UNCHANGED accounts
    BY <2>1 DEF At, storeVars
  <2>3. Executed' = Executed
    BY <2>1, ExecutedKept
  <2>4. \A a : Reached(a)' = Reached(a)
    BY <2>1, <2>2 DEF Reached, InFlight
  <2> QED BY <2>1, <2>2, <2>3, <2>4, NonceFrame
<1>5. CASE FetcherInsert
  <2>1. /\ Insert(fetcher.batch, fetcher.nonces) /\ UNCHANGED <<taken, committed, open, sealing>>
        /\ fetcher.pc = "insert" /\ fetcher' = At("info")
    BY <1>5 DEF FetcherInsert, dbVars, seqVars
  <2>2. /\ fetcher.batch \in SUBSET Transaction
        /\ DOMAIN fetcher.nonces = {t.account : t \in fetcher.batch}
    BY <2>1 DEF PoolInv, BaseInv, FetcherInv, Carries
  <2>3. /\ DOMAIN accounts' = DOMAIN accounts \cup {t.account : t \in fetcher.batch}
        /\ \A a \in DOMAIN accounts : accounts'[a] = accounts[a]
        /\ \A t \in fetcher.batch : t.account \notin DOMAIN accounts =>
             accounts'[t.account] = fetcher.nonces[t.account]
    <3> DEFINE S == fetcher.batch
               db == fetcher.nonces
    <3>1. S \in SUBSET Transaction /\ Insert(S, db) /\ StoreInv
      BY <2>1, <2>2 DEF PoolInv, BaseInv
    <3>2. DOMAIN db = {t.account : t \in S}
      BY <2>2
    <3> HIDE DEF S, db
    <3>3. /\ DOMAIN accounts' = DOMAIN accounts \cup {t.account : t \in S}
          /\ \A a \in DOMAIN accounts : accounts'[a] = accounts[a]
          /\ \A t \in S : t.account \notin DOMAIN accounts =>
               accounts'[t.account] = IF t.account \in DOMAIN db THEN db[t.account] ELSE 0
      BY <3>1, Inserted
    <3> QED BY <3>2, <3>3 DEF S, db
  <2>4. Executed' = Executed
    BY <2>1, ExecutedKept
  <2>5. \A a : Nonces(Executed', a) = Nonces(Executed, a)
    BY <2>4, Zenon
  <2>6. \A t \in Executed' : t.account \in DOMAIN accounts'
    BY <2>3, <2>4 DEF PoolInv, NonceInv
  <2>7. \A a \in DOMAIN accounts : Reached(a)' = Reached(a)
    BY <2>1, <2>3 DEF Reached, InFlight
  <2>8. ASSUME NEW a \in DOMAIN accounts', a \notin DOMAIN accounts
        PROVE  Reached(a)' = committed[a] /\ committed[a] \in Nat /\ Nonces(Executed, a) = {}
    <3>1. a \in DOMAIN fetcher.nonces /\ accounts'[a] = fetcher.nonces[a] /\ a \in Account
      BY <2>2, <2>3, <2>8, TransactionType
    <3>2. accounts'[a] = committed[a] /\ committed[a] \in Nat
      BY <2>1, <2>8, <3>1 DEF PoolInv, NonceInv, BaseInv, MemoryInv
    <3>3. InFlight(a)' = 0
      BY <2>1, <2>8 DEF InFlight, PoolInv, BaseInv, HandsInv
    <3>4. Nonces(Executed, a) = {}
      <4> SUFFICES ASSUME NEW t \in Executed, NEW n, Key(t) = <<a, n>> PROVE FALSE
        BY DEF Nonces
      <4> QED BY <2>8 DEF Key, PoolInv, NonceInv
    <3> QED BY <3>2, <3>3, <3>4 DEF Reached
  <2>9. \A a \in DOMAIN accounts' :
         /\ committed'[a] <= Reached(a)'
         /\ Nonces(Executed', a) = committed'[a]..(Reached(a)' - 1)
    <3> TAKE a \in DOMAIN accounts'
    <3>1. CASE a \in DOMAIN accounts
      <4>1. committed[a] <= Reached(a) /\ Nonces(Executed, a) = committed[a]..(Reached(a) - 1)
        BY <3>1 DEF PoolInv, NonceInv
      <4> QED BY <2>1, <2>5, <2>7, <3>1, <4>1
    <3>2. CASE a \notin DOMAIN accounts
      <4>1. committed[a]..(committed[a] - 1) = {}
        BY <2>8, <3>2
      <4>2. Reached(a)' = committed[a] /\ committed[a] \in Nat /\ Nonces(Executed, a) = {}
        BY <2>8, <3>2
      <4>3. Nonces(Executed', a) = {}
        BY <2>5, <4>2, Zenon
      <4>4. committed'[a] <= Reached(a)'
        BY <2>1, <4>2
      <4> QED BY <2>1, <4>1, <4>2, <4>3, <4>4
    <3> QED BY <3>1, <3>2
  <2>10. fetcher'.pc = "info"
    BY <2>1 DEF At
  <2> QED BY <2>6, <2>9, <2>10 DEF NonceInv
<1>6. CASE TakeTx
  <2>1. /\ NextTransaction /\ stage = "idle" /\ UNCHANGED <<committed, open, sealing, fetcher>>
    BY <1>6 DEF TakeTx, dbVars
  <2>2. /\ taken' # NoTx /\ taken'.account \in DOMAIN accounts /\ DOMAIN accounts' = DOMAIN accounts
        /\ accounts'[taken'.account] = taken'.nonce + 1 /\ accounts[taken'.account] = taken'.nonce
        /\ \A a \in DOMAIN accounts : a # taken'.account => accounts'[a] = accounts[a]
        /\ taken' \in Transaction
    BY <2>1, TakenOut DEF PoolInv, BaseInv
  <2>3. taken = NoTx
    BY <2>1 DEF PoolInv, BaseInv, HandsInv
  <2>4. \A a \in DOMAIN accounts : Reached(a)' = Reached(a)
    <3> TAKE a \in DOMAIN accounts
    <3>1. accounts[a] \in Nat /\ InFlight(a) = 0
      BY <2>3 DEF PoolInv, BaseInv, StoreInv, TypeOK, InFlight
    <3>2. InFlight(a)' = IF taken'.account = a THEN 1 ELSE 0
      BY <2>2 DEF InFlight
    <3> QED BY <2>2, <3>1, <3>2 DEF Reached
  <2>5. Executed' = Executed
    BY <2>1, ExecutedKept
  <2> QED BY <2>1, <2>2, <2>4, <2>5, NonceFrame
<1>7. CASE IncludeTx
  <2>1. /\ stage = "taken" /\ open' = open \cup {taken} /\ taken' = NoTx
        /\ UNCHANGED <<accounts, committed, sealing, fetcher>>
    BY <1>7 DEF IncludeTx, storeVars, dbVars
  <2>2. /\ taken # NoTx /\ taken \in Transaction /\ taken.account \in DOMAIN accounts
        /\ taken.nonce \in Nat /\ taken.nonce = Reached(taken.account)
        /\ accounts[taken.account] = taken.nonce + 1
        /\ \A a : InFlight(a) = IF a = taken.account THEN 1 ELSE 0
    BY <2>1, TakenIsNext
  <2>3. \A t : t \in Executed' <=> (t \in Executed \/ t = taken)
    <3> TAKE t
    <3>1. t \in Executed <=> t \in open \/ \E i \in 1..Len(sealing) : t \in sealing[i]
      BY InExecuted
    <3>2. t \in Executed' <=> t \in open' \/ \E i \in 1..Len(sealing') : t \in sealing'[i]
      BY InExecutedNext
    <3> QED BY <2>1, <3>1, <3>2
  <2>4. \A a \in DOMAIN accounts :
          Reached(a)' = IF a = taken.account THEN Reached(a) + 1 ELSE Reached(a)
    <3> TAKE a \in DOMAIN accounts
    <3>1. accounts[a] \in Nat /\ Reached(a)' = accounts[a]
      BY <2>1 DEF PoolInv, BaseInv, StoreInv, TypeOK, Reached, InFlight
    <3> QED BY <2>2, <3>1 DEF Reached
  <2>5. \A a \in DOMAIN accounts' :
         /\ committed'[a] <= Reached(a)'
         /\ Nonces(Executed', a) = committed'[a]..(Reached(a)' - 1)
    <3> SUFFICES ASSUME NEW a \in DOMAIN accounts
                 PROVE  /\ committed[a] <= Reached(a)'
                        /\ Nonces(Executed', a) = committed[a]..(Reached(a)' - 1)
      BY <2>1
    <3>1. /\ committed[a] \in Nat /\ Reached(a) \in Int /\ committed[a] <= Reached(a)
          /\ Nonces(Executed, a) = committed[a]..(Reached(a) - 1)
      <4>1. a \in Account /\ accounts[a] \in Nat
        BY DEF PoolInv, BaseInv, StoreInv, TypeOK
      <4>2. committed[a] \in Nat /\ Reached(a) \in Int
        BY <4>1 DEF PoolInv, BaseInv, MemoryInv, Reached, InFlight
      <4> QED BY <4>2 DEF PoolInv, NonceInv
    <3>2. Key(taken) = <<taken.account, taken.nonce>>
      BY DEF Key
    <3>3. CASE a = taken.account
      <4>1. Nonces(Executed', a) = Nonces(Executed, a) \cup {Reached(a)}
        BY <2>2, <2>3, <3>2, <3>3 DEF Nonces
      <4>2. Reached(a)' = Reached(a) + 1
        BY <2>4, <3>3
      <4>3. committed[a]..((Reached(a) + 1) - 1) = (committed[a]..(Reached(a) - 1))
              \cup {Reached(a)}
        BY <3>1
      <4> QED BY <3>1, <4>1, <4>2, <4>3
    <3>4. CASE a # taken.account
      <4>1. Nonces(Executed', a) = Nonces(Executed, a)
        BY <2>3, <3>2, <3>4 DEF Nonces
      <4> QED BY <2>4, <3>1, <3>4, <4>1
    <3> QED BY <3>3, <3>4
  <2>6. \A t \in Executed' : t.account \in DOMAIN accounts'
    BY <2>1, <2>2, <2>3 DEF PoolInv, NonceInv
  <2> QED BY <2>1, <2>5, <2>6 DEF NonceInv, PoolInv
<1>8. CASE ExcludeTx \/ RejectTx
  <2>1. /\ stage = "taken" /\ Rollback(taken) /\ taken' = NoTx
        /\ UNCHANGED <<committed, open, sealing, fetcher>>
    BY <1>8 DEF ExcludeTx, RejectTx, dbVars
  <2>2. /\ taken \in Transaction /\ taken.account \in DOMAIN accounts
        /\ accounts[taken.account] = taken.nonce + 1
        /\ DOMAIN accounts' = DOMAIN accounts /\ accounts'[taken.account] = taken.nonce
        /\ \A a \in DOMAIN accounts : a # taken.account => accounts'[a] = accounts[a]
    BY <2>1, RolledBack DEF PoolInv, BaseInv
  <2>3. taken.nonce \in Nat /\ \A a : InFlight(a) = IF a = taken.account THEN 1 ELSE 0
    BY <2>1, TakenIsNext
  <2>4. \A a : InFlight(a)' = 0
    BY <2>1 DEF InFlight
  <2>5. \A a \in DOMAIN accounts : Reached(a)' = Reached(a)
    <3> TAKE a \in DOMAIN accounts
    <3>1. accounts[a] \in Nat
      BY DEF PoolInv, BaseInv, StoreInv, TypeOK
    <3> QED BY <2>2, <2>3, <2>4, <3>1 DEF Reached
  <2>6. Executed' = Executed
    BY <2>1, ExecutedKept
  <2> QED BY <2>1, <2>2, <2>5, <2>6, NonceFrame
<1>9. CASE ReinsertTx
  <2> DEFINE db == [a \in {} |-> 0]
             S == {handling}
  <2>1. Insert(S, db) /\ UNCHANGED <<taken, committed, open, sealing, fetcher>>
    BY <1>9 DEF ReinsertTx, dbVars
  <2>2. handling \in Transaction /\ handling.account \in DOMAIN accounts
    BY <1>9 DEF ReinsertTx, PoolInv, BaseInv, HandsInv
  <2>3. S \in SUBSET Transaction /\ {t.account : t \in S} = {handling.account}
    BY <2>2
  <2> HIDE DEF db, S
  <2>4. /\ DOMAIN accounts' = DOMAIN accounts
        /\ \A a \in DOMAIN accounts : accounts'[a] = accounts[a]
    <3>1. /\ DOMAIN accounts' = DOMAIN accounts \cup {t.account : t \in S}
          /\ \A a \in DOMAIN accounts : accounts'[a] = accounts[a]
      BY <2>1, <2>3, Inserted DEF PoolInv, BaseInv
    <3> QED BY <2>2, <2>3, <3>1
  <2>5. \A a \in DOMAIN accounts : Reached(a)' = Reached(a)
    BY <2>1, <2>4 DEF Reached, InFlight
  <2>6. Executed' = Executed
    BY <2>1, ExecutedKept
  <2> QED BY <2>1, <2>4, <2>5, <2>6, NonceFrame
<1>10. CASE Restart
  <2>1. /\ accounts' = [a \in {} |-> 0] /\ open' = {} /\ sealing' = <<>> /\ fetcher' = At("start")
    BY <1>10 DEF Restart
  <2>2. Executed' = {}
    BY <2>1, InExecutedNext
  <2> QED BY <2>1, <2>2 DEF NonceInv, At
<1> QED BY <1>1, <1>2, <1>3, <1>4, <1>5, <1>6, <1>7, <1>8, <1>9, <1>10, Steps

-----------------------------------------------------------------------------
(* What is held has a row. *)

\* What the tasks hold is what they held, and what sync_mempool fetched.
LEMMA HeldNext ==
    ASSUME PoolInv, RoomLeft, [PoolNext]_vars, NEW t \in Held'
    PROVE  t \in Held \/ (FetcherFetch /\ t \in fetcher'.batch)
<1>1. t \in transactions' \/ t \in fetcher'.batch \/ t \in Executed'
        \/ (t = taken' /\ taken' # NoTx) \/ (t = handling' /\ handling' # NoTx)
  BY DEF Held, Hands
<1>2. \A u : (u \in transactions \/ u \in fetcher.batch \/ u \in Executed
        \/ (u = taken /\ taken # NoTx) \/ (u = handling /\ handling # NoTx)) => u \in Held
  BY DEF Held, Hands
<1>3. CASE Elsewhere
  <2>1. UNCHANGED <<transactions, taken>>
    BY <1>3, ElsewhereUnchanged DEF mempoolVars
  <2>2. SealMiniblock \/ UNCHANGED <<open, sealing>> \/ SubmitMiniblock
    BY <1>3 DEF Elsewhere, SubmitTx, FetcherStart, FetcherPurge, FetcherFetch, FetcherNonces,
                MarkRejected, CloseOnTimeout, SealL1Batch, vars, seqVars
  <2>3. \A u \in Executed' : u \in Executed
    BY <2>2, SealedFirst, ExecutedKept
  <2>4. UNCHANGED handling \/ handling' = NoTx
    BY <1>3 DEF Elsewhere, SubmitTx, FetcherStart, FetcherPurge, FetcherFetch, FetcherNonces,
                MarkRejected, CloseOnTimeout, SubmitMiniblock, SealL1Batch, SealMiniblock, vars,
                seqVars
  <2>5. FetcherFetch \/ fetcher'.batch \subseteq fetcher.batch
    <3>1. \/ UNCHANGED fetcher
          \/ fetcher' \in {At("info"), At("fetch")}
          \/ FetcherFetch \/ FetcherNonces
      BY <1>3 DEF Elsewhere, SubmitTx, FetcherStart, FetcherPurge,
                  MarkRejected, CloseOnTimeout, SubmitMiniblock, SealL1Batch, SealMiniblock, vars
    <3>2. CASE FetcherNonces
      <4> DEFINE nonces == [a \in {v.account : v \in fetcher.batch} |-> committed[a]]
      <4>1. PICK p, b, n : fetcher = [pc |-> p, purged |-> {}, batch |-> b, nonces |-> n]
        BY DEF PoolInv, BaseInv, FetcherInv
      <4>2. fetcher' = [fetcher EXCEPT !.pc = "insert", !.nonces = nonces]
        BY <3>2 DEF FetcherNonces
      <4> HIDE DEF nonces
      <4> QED BY <4>1, <4>2
    <3> QED BY <3>1, <3>2 DEF At
  <2> QED BY <1>1, <1>2, <2>1, <2>3, <2>4, <2>5
<1>4. CASE FetcherInfo
  <2>1. /\ UNCHANGED <<storeVars, taken, handling, open, sealing>>
        /\ fetcher' = [At("purge") EXCEPT !.purged = Purged]
    BY <1>4, NothingPurged DEF FetcherInfo, seqVars, PoolInv, BaseInv
  <2>2. fetcher'.batch = {} /\ UNCHANGED transactions
    BY <2>1 DEF At, storeVars
  <2>3. Executed' = Executed
    BY <2>1, ExecutedKept
  <2> QED BY <1>1, <1>2, <2>1, <2>2, <2>3
<1>5. CASE FetcherInsert
  <2> DEFINE S == fetcher.batch
             db == fetcher.nonces
  <2>1. Insert(S, db) /\ UNCHANGED <<taken, handling, open, sealing>> /\ fetcher' = At("info")
    BY <1>5 DEF FetcherInsert, seqVars
  <2>2. S \in SUBSET Transaction
    BY DEF PoolInv, BaseInv, FetcherInv, Carries
  <2> HIDE DEF S, db
  <2>3. transactions' \subseteq transactions \cup S
    BY <2>1, <2>2, Inserted DEF PoolInv, BaseInv
  <2>4. Executed' = Executed
    BY <2>1, ExecutedKept
  <2>5. fetcher'.batch = {}
    BY <2>1 DEF At
  <2> QED BY <1>1, <1>2, <2>1, <2>3, <2>4, <2>5 DEF S
<1>6. CASE TakeTx
  <2>1. NextTransaction /\ UNCHANGED <<handling, open, sealing, fetcher>>
    BY <1>6 DEF TakeTx
  <2>2. taken' \in transactions /\ transactions' = transactions \ {taken'}
    BY <2>1, TakenOut DEF PoolInv, BaseInv
  <2>3. Executed' = Executed
    BY <2>1, ExecutedKept
  <2> QED BY <1>1, <1>2, <2>1, <2>2, <2>3
<1>7. CASE IncludeTx
  <2>1. /\ stage = "taken" /\ open' = open \cup {taken} /\ taken' = NoTx
        /\ UNCHANGED <<transactions, handling, sealing, fetcher>>
    BY <1>7 DEF IncludeTx, storeVars
  <2>2. taken # NoTx
    BY <2>1, TakenIsNext
  <2>3. t \in Executed' => t \in Executed \/ t = taken
    <3>1. t \in Executed <=> t \in open \/ \E i \in 1..Len(sealing) : t \in sealing[i]
      BY InExecuted
    <3>2. t \in Executed' <=> t \in open' \/ \E i \in 1..Len(sealing') : t \in sealing'[i]
      BY InExecutedNext
    <3> QED BY <2>1, <3>1, <3>2
  <2> QED BY <1>1, <1>2, <2>1, <2>2, <2>3
<1>8. CASE ExcludeTx \/ RejectTx
  <2>1. /\ stage = "taken" /\ Rollback(taken) /\ taken' = NoTx /\ handling' = taken
        /\ UNCHANGED <<open, sealing, fetcher>>
    BY <1>8 DEF ExcludeTx, RejectTx
  <2>2. transactions' = transactions
    BY <2>1, RolledBack DEF PoolInv, BaseInv
  <2>3. Executed' = Executed
    BY <2>1, ExecutedKept
  <2> QED BY <1>1, <1>2, <2>1, <2>2, <2>3
<1>9. CASE ReinsertTx
  <2> DEFINE db == [a \in {} |-> 0]
             S == {handling}
  <2>1. /\ Insert(S, db) /\ handling' = NoTx
        /\ UNCHANGED <<taken, open, sealing, fetcher>>
    BY <1>9 DEF ReinsertTx
  <2>2. S \in SUBSET Transaction /\ handling # NoTx
    BY <1>9, TransactionType DEF ReinsertTx, PoolInv, BaseInv, HandsInv
  <2> HIDE DEF db, S
  <2>3. transactions' \subseteq transactions \cup S
    BY <2>1, <2>2, Inserted DEF PoolInv, BaseInv
  <2>4. Executed' = Executed
    BY <2>1, ExecutedKept
  <2> QED BY <1>1, <1>2, <2>1, <2>2, <2>3, <2>4 DEF S
<1>10. CASE Restart
  <2>1. /\ transactions' = {} /\ taken' = NoTx /\ handling' = NoTx
        /\ open' = {} /\ sealing' = <<>> /\ fetcher' = At("start")
    BY <1>10 DEF Restart
  <2>2. t \notin Executed'
    BY <2>1, InExecutedNext
  <2> QED BY <1>1, <2>1, <2>2 DEF At
<1> QED BY <1>3, <1>4, <1>5, <1>6, <1>7, <1>8, <1>9, <1>10, Steps

\* The row says that its transaction is sealed in a miniblock.
Sealed(k) == k \in DOMAIN rows /\ rows[k].miniblock # 0

\* Rows of miniblocks are changed by the sealer and when a batch is sealed.
LEMMA SealedRowsKept ==
    ASSUME PoolInv, [PoolNext]_vars, ~SealMiniblock, ~SealL1Batch
    PROVE  \A k : /\ Sealed(k)' <=> Sealed(k)
                  /\ Sealed(k) => /\ rows'[k].tx = rows[k].tx
                                  /\ rows'[k].miniblock = rows[k].miniblock
                                  /\ rows'[k].in_batch = rows[k].in_batch
<1>0. TableInv /\ FetcherInv
  BY DEF PoolInv, BaseInv
<1>1. CASE UNCHANGED rows
  BY <1>1 DEF Sealed
<1>2. ASSUME NEW tx \in Transaction, SubmitTx(tx)
      PROVE  \A k : /\ Sealed(k)' <=> Sealed(k)
                    /\ Sealed(k) => rows'[k] = rows[k]
  <2>1. rows' = insert_transaction_l2(tx)
    BY <1>2 DEF SubmitTx
  <2>2. /\ DOMAIN rows' = DOMAIN rows \cup {Key(tx)}
        /\ \A k \in DOMAIN rows : (k # Key(tx) \/ rows[k].miniblock # 0) => rows'[k] = rows[k]
        /\ (Key(tx) \in DOMAIN rows /\ rows[Key(tx)].miniblock # 0)
                \/ (rows'[Key(tx)].miniblock = 0 /\ ~rows'[Key(tx)].in_mempool)
    BY <1>0, <2>1, RowInserted
  <2> QED BY <2>2 DEF Sealed
<1>3. CASE FetcherStart
  <2>1. PICK D \in SUBSET DOMAIN rows :
                /\ SameRows(D)
                /\ \A k \in DOMAIN rows : rows[k].miniblock # 0 => k \in D
    BY <1>0, <1>3, StartedRows
  <2> QED BY <2>1 DEF SameRows, Sealed
<1>4. CASE FetcherPurge \/ FetcherFetch \/ MarkRejected
  <2>1. SameRows(DOMAIN rows)
    BY <1>0, <1>4, PurgedRows, FetchedRows, RejectedRows
  <2> QED BY <2>1 DEF SameRows, Sealed
<1> QED BY <1>1, <1>2, <1>3, <1>4, TableSteps

\* Rows leave the table only when nothing is held.
LEMMA RowsStay ==
    ASSUME PoolInv, [PoolNext]_vars, ~FetcherStart
    PROVE  \A k \in DOMAIN rows : k \in DOMAIN rows'
<1>0. TableInv /\ FetcherInv
  BY DEF PoolInv, BaseInv
<1>1. CASE UNCHANGED rows
  BY <1>1
<1>2. ASSUME NEW tx \in Transaction, SubmitTx(tx)
      PROVE  DOMAIN rows' = DOMAIN rows \cup {Key(tx)}
  BY <1>0, <1>2, RowInserted DEF SubmitTx
<1>3. CASE FetcherPurge \/ FetcherFetch \/ MarkRejected
  <2>1. SameRows(DOMAIN rows)
    BY <1>0, <1>3, PurgedRows, FetchedRows, RejectedRows
  <2> QED BY <2>1 DEF SameRows
<1>4. CASE SealL1Batch \/ SealMiniblock
  BY <1>4, BatchedRows, MiniblockRows
<1> QED BY <1>1, <1>2, <1>3, <1>4, TableSteps

\* A transaction that is executed and not sealed has an unsealed row.
LEMMA ExecutedIsUnsealed ==
    ASSUME PoolInv, NEW t \in Executed
    PROVE  Key(t) \in DOMAIN rows /\ rows[Key(t)].miniblock = 0 /\ ~rows[Key(t)].in_batch
<1>1. t \in Held
  BY DEF Held
<1>2. Key(t) \in DOMAIN rows
  BY <1>1 DEF PoolInv, RowInv
<1>3. /\ t.account \in DOMAIN accounts /\ t.nonce \in Nat
      /\ committed[t.account] <= t.nonce
  BY BelowReached
<1>4. Key(t) = <<t.account, t.nonce>> /\ committed[t.account] \in Nat
  BY <1>3 DEF Key, PoolInv, BaseInv, StoreInv, TypeOK, MemoryInv
<1>5. rows[Key(t)].miniblock = 0
  <2> SUFFICES ASSUME rows[Key(t)].miniblock # 0 PROVE FALSE
    OBVIOUS
  <2>1. t.nonce < committed[t.account]
    BY <1>2, <1>4 DEF PoolInv, RowInv
  <2> QED BY <1>3, <1>4, <2>1
<1> QED BY <1>2, <1>5 DEF PoolInv, BaseInv, TableInv, RowOf

\* The rows that SealMiniblock makes rows of miniblocks are those of its own.
LEMMA SealedRowsAdded ==
    ASSUME PoolInv, SealMiniblock
    PROVE  /\ \A k : Sealed(k)' <=> Sealed(k) \/ k \in Keys(sealing[1])
           /\ \A k : Sealed(k) => k \notin Keys(sealing[1]) /\ rows'[k] = rows[k]
           /\ \A t \in sealing[1] :
                /\ rows'[Key(t)].tx.hash = t.hash
                /\ rows'[Key(t)].miniblock = Len(ledger) + 1
                /\ ~rows'[Key(t)].in_batch
<1>1. /\ DOMAIN rows' = DOMAIN rows
      /\ \A k \in DOMAIN rows : k \notin Keys(sealing[1]) => rows'[k] = rows[k]
      /\ \A t \in sealing[1] : Key(t) \in DOMAIN rows =>
                /\ rows'[Key(t)].tx.hash = t.hash
                /\ rows'[Key(t)].miniblock = Len(ledger) + 1
                /\ rows'[Key(t)].in_batch = rows[Key(t)].in_batch
  BY MiniblockRows
<1>2. \A t \in sealing[1] : /\ Key(t) \in DOMAIN rows /\ rows[Key(t)].miniblock = 0
                            /\ ~rows[Key(t)].in_batch
  BY SealedFirst, ExecutedIsUnsealed
<1>3. Len(ledger) + 1 # 0
  BY DEF PoolInv, BaseInv, MemoryInv
<1>4. \A k \in Keys(sealing[1]) : \E t \in sealing[1] : k = Key(t)
  BY DEF Keys
<1>5. \A k \in Keys(sealing[1]) : k \in DOMAIN rows /\ rows[k].miniblock = 0
        /\ rows'[k].miniblock # 0
  BY <1>1, <1>2, <1>3, <1>4
<1>6. \A k : Sealed(k)' <=> Sealed(k) \/ k \in Keys(sealing[1])
  BY <1>1, <1>5 DEF Sealed
<1>7. \A k : Sealed(k) => k \notin Keys(sealing[1]) /\ rows'[k] = rows[k]
  BY <1>1, <1>5 DEF Sealed
<1> QED BY <1>1, <1>2, <1>6, <1>7

\* The committed nonces change with a miniblock only.
LEMMA CommittedSteps ==
    ASSUME [PoolNext]_vars
    PROVE  UNCHANGED committed \/ SealMiniblock
BY DEF PoolNext, Fetch, Sequence, SubmitTx, FetcherStart, FetcherPurge, FetcherFetch,
       FetcherNonces, FetcherInfo, FetcherInsert, TakeTx, IncludeTx, ExcludeTx, ReinsertTx,
               RejectTx,
       MarkRejected, CloseOnTimeout, SubmitMiniblock, SealL1Batch, Restart, vars, dbVars

\* A batch seals no transaction.
LEMMA BatchSealsNone ==
    ASSUME PoolInv, SealL1Batch
    PROVE  \A k : Sealed(k)' <=> Sealed(k)
BY BatchedRows DEF Sealed

\* The fetcher is back at its start with a restart only.
LEMMA BackAtStart ==
    ASSUME PoolInv, [PoolNext]_vars, fetcher'.pc = "start"
    PROVE  Restart \/ (UNCHANGED fetcher /\ ~FetcherFetch)
<1>1. \/ Restart \/ UNCHANGED fetcher
      \/ fetcher' \in {At("info"), At("fetch"), [At("purge") EXCEPT !.purged = Purged]}
      \/ FetcherFetch \/ FetcherNonces
  BY DEF PoolNext, Fetch, Sequence, SubmitTx, FetcherStart, FetcherPurge,
       FetcherInfo, FetcherInsert, TakeTx, IncludeTx, ExcludeTx, ReinsertTx, RejectTx,
       MarkRejected, CloseOnTimeout, SubmitMiniblock, SealL1Batch, SealMiniblock, vars
<1>2. FetcherFetch => fetcher'.pc = "nonces"
  BY FetchedRows DEF PoolInv, BaseInv
<1>3. ASSUME FetcherNonces PROVE fetcher'.pc = "insert"
  <2> DEFINE nonces == [a \in {v.account : v \in fetcher.batch} |-> committed[a]]
  <2>1. PICK p, b, n : fetcher = [pc |-> p, purged |-> {}, batch |-> b, nonces |-> n]
    BY DEF PoolInv, BaseInv, FetcherInv
  <2>2. fetcher' = [fetcher EXCEPT !.pc = "insert", !.nonces = nonces]
    BY <1>3 DEF FetcherNonces
  <2> HIDE DEF nonces
  <2> QED BY <2>1, <2>2
<1>4. At("info").pc = "info" /\ At("fetch").pc = "fetch"
      /\ [At("purge") EXCEPT !.purged = Purged].pc = "purge"
  BY DEF At
<1> QED BY <1>1, <1>2, <1>3, <1>4

\* No row is lost on the way, and the committed nonces are those of rows.
LEMMA RowKept ==
    ASSUME PoolInv, RoomLeft, [PoolNext]_vars
    PROVE  RowInv'
<1>1. ASSUME fetcher'.pc = "start" PROVE Held' = {}
  <2>1. ASSUME NEW t \in Held' PROVE FALSE
    <3>1. t \in Held \/ (FetcherFetch /\ t \in fetcher'.batch)
      BY HeldNext
    <3>2. CASE Restart
      <4>1. /\ transactions' = {} /\ taken' = NoTx /\ handling' = NoTx
            /\ open' = {} /\ sealing' = <<>> /\ fetcher' = At("start")
        BY <3>2 DEF Restart
      <4>2. t \notin Executed'
        BY <4>1, InExecutedNext
      <4> QED BY <4>1, <4>2 DEF Held, Hands, At
    <3>3. CASE UNCHANGED fetcher /\ ~FetcherFetch
      BY <1>1, <3>1, <3>3 DEF PoolInv, RowInv
    <3> QED BY <1>1, <3>2, <3>3, BackAtStart
  <2> QED BY <2>1
<1>2. ASSUME NEW t \in Held' PROVE Key(t) \in DOMAIN rows'
  <2>1. CASE FetcherStart
    <3>1. fetcher.pc = "start" /\ ~(t \in Held)
      BY <2>1 DEF FetcherStart, PoolInv, RowInv
    <3>2. fetcher'.batch = {}
      BY <2>1 DEF FetcherStart, At
    <3> QED BY <3>1, <3>2, HeldNext
  <2>2. CASE ~FetcherStart
    <3>1. CASE t \in Held
      BY <2>2, <3>1, RowsStay DEF PoolInv, RowInv
    <3>2. CASE FetcherFetch /\ t \in fetcher'.batch
      <4>1. PICK F \in SUBSET Fetchable : fetcher'.batch = {rows[k].tx : k \in F}
        BY <3>2, FetchedRows DEF PoolInv, BaseInv
      <4>2. \A k \in F : k \in DOMAIN rows /\ Key(rows[k].tx) = k
        BY Fetched DEF PoolInv, BaseInv
      <4>3. Key(t) \in DOMAIN rows
        BY <3>2, <4>1, <4>2
      <4> QED BY <2>2, <4>3, RowsStay
    <3> QED BY <3>1, <3>2, HeldNext
  <2> QED BY <2>1, <2>2
<1>3. /\ \A k : Sealed(k)' => k[2] < committed'[k[1]]
      /\ \A a \in Account : \A n \in 0..(committed'[a] - 1) : Sealed(<<a, n>>)'
  <2>1. /\ \A k : Sealed(k) => k[2] < committed[k[1]]
        /\ \A a \in Account : \A n \in 0..(committed[a] - 1) : Sealed(<<a, n>>)
    BY DEF PoolInv, RowInv, Sealed
  <2>2. CASE ~SealMiniblock
    <3>1. UNCHANGED committed
      BY <2>2, CommittedSteps
    <3>2. \A k : Sealed(k)' <=> Sealed(k)
      BY <2>2, SealedRowsKept, BatchSealsNone
    <3> QED BY <2>1, <3>1, <3>2
  <2>3. CASE SealMiniblock
    <3>1. \A k : Sealed(k)' <=> Sealed(k) \/ k \in Keys(sealing[1])
      BY <2>3, SealedRowsAdded
    <3>2. \A a \in DOMAIN accounts :
            /\ committed'[a] \in Nat /\ committed[a] <= committed'[a]
            /\ Nonces(sealing[1], a) = committed[a]..(committed'[a] - 1)
      BY <2>3, MiniblockNonces
    <3>3. \A a \in Account : committed[a] \in Nat
      BY DEF PoolInv, BaseInv, MemoryInv
    <3>4. \A a \in Account : a \notin DOMAIN accounts => committed'[a] = committed[a]
      BY <2>3, UnknownAccount
    <3>5. ASSUME NEW k, Sealed(k)' PROVE k[2] < committed'[k[1]]
      <4>1. CASE Sealed(k)
        <5>1. k[1] \in Account /\ k[2] \in Nat
          BY <4>1, RowFields DEF Sealed, PoolInv, BaseInv, TableInv
        <5>2. k[2] < committed[k[1]]
          BY <2>1, <4>1
        <5>3. committed'[k[1]] \in Nat /\ committed[k[1]] <= committed'[k[1]]
          BY <3>2, <3>3, <3>4, <5>1
        <5> QED BY <3>3, <5>1, <5>2, <5>3
      <4>2. CASE k \in Keys(sealing[1])
        <5>1. PICK t \in sealing[1] : k = Key(t)
          BY <4>2 DEF Keys
        <5>2. t \in Executed
          BY <2>3, SealedFirst
        <5>3. t.account \in DOMAIN accounts /\ t.nonce \in Nat
          BY <5>2, BelowReached
        <5>4. k = <<t.account, t.nonce>>
          BY <5>1 DEF Key
        <5>5. t.nonce \in Nonces(sealing[1], t.account)
          BY <5>1, <5>3, <5>4 DEF Nonces
        <5>6. t.nonce \in committed[t.account]..(committed'[t.account] - 1)
          BY <3>2, <5>3, <5>5
        <5>7. committed[t.account] \in Nat /\ committed'[t.account] \in Nat
          BY <3>2, <3>3, <5>3 DEF PoolInv, BaseInv, StoreInv, TypeOK
        <5>8. t.nonce < committed'[t.account]
          BY <5>6, <5>7
        <5> QED BY <5>4, <5>8
      <4> QED BY <3>1, <3>5, <4>1, <4>2
    <3>6. ASSUME NEW a \in Account, NEW n \in 0..(committed'[a] - 1)
          PROVE  Sealed(<<a, n>>)'
      <4>1. CASE n \in 0..(committed[a] - 1)
        BY <2>1, <3>1, <4>1
      <4>2. CASE n \notin 0..(committed[a] - 1)
        <5>1. a \in DOMAIN accounts
          BY <3>4, <4>2
        <5>2. committed[a] \in Nat /\ committed'[a] \in Nat
          BY <3>2, <3>3, <5>1
        <5>3. n \in committed[a]..(committed'[a] - 1)
          BY <4>2, <5>2
        <5>4. n \in Nonces(sealing[1], a)
          BY <3>2, <5>1, <5>3
        <5>5. <<a, n>> \in Keys(sealing[1])
          BY <5>4 DEF Nonces, Keys
        <5> QED BY <3>1, <5>5
      <4> QED BY <4>1, <4>2
    <3> QED BY <3>5, <3>6
  <2> QED BY <2>2, <2>3
<1> QED BY <1>1, <1>2, <1>3 DEF RowInv, Sealed

-----------------------------------------------------------------------------
(* The pending batch. *)

\* PendingBatchComplete, row by row and transaction by transaction.
Pending(k) == Sealed(k) /\ ~rows[k].in_batch
RowIsExecuted(k) ==
    /\ rows[k].miniblock \in (batched + 1)..Len(ledger)
    /\ \E t \in ledger[rows[k].miniblock] : t.hash = rows[k].tx.hash
HasRow(i, t) == \E k : Pending(k) /\ rows[k].miniblock = i /\ rows[k].tx.hash = t.hash

PendingAgrees ==
    /\ \A k : Pending(k) => RowIsExecuted(k)
    /\ \A i \in (batched + 1)..Len(ledger) : \A t \in ledger[i] : HasRow(i, t)

\* Both forms say the same.
LEMMA PendingForms == PendingBatchComplete <=> PendingAgrees
<1> DEFINE Rec(h, i) == [hash |-> h, miniblock |-> i]
<1>1. \A r : r \in RecordedPending <=>
        \E k : Pending(k) /\ r = Rec(rows[k].tx.hash, rows[k].miniblock)
  BY DEF RecordedPending, PendingRows, Pending, Sealed
<1>2. \A r : r \in ExecutedPending <=>
        \E i \in (batched + 1)..Len(ledger) : \E t \in ledger[i] : r = Rec(t.hash, i)
  <2> DEFINE OfBlock(i) == {Rec(t.hash, i) : t \in ledger[i]}
  <2>1. ExecutedPending = UNION {OfBlock(i) : i \in (batched + 1)..Len(ledger)}
    BY Zenon DEF ExecutedPending
  <2>2. \A r, i : r \in OfBlock(i) <=> \E t \in ledger[i] : r = Rec(t.hash, i)
    OBVIOUS
  <2> HIDE DEF OfBlock, Rec
  <2>3. \A r : r \in ExecutedPending <=>
          \E i \in (batched + 1)..Len(ledger) : r \in OfBlock(i)
    BY <2>1, Zenon
  <2> QED BY <2>2, <2>3, Zenon
<1>3. \A h, g, i, j : Rec(h, i) = Rec(g, j) <=> h = g /\ i = j
  OBVIOUS
<1> HIDE DEF Rec
<1>4. ASSUME PendingBatchComplete PROVE PendingAgrees
  <2>1. \A r : r \in RecordedPending <=> r \in ExecutedPending
    BY <1>4 DEF PendingBatchComplete
  <2>2. ASSUME NEW k, Pending(k) PROVE RowIsExecuted(k)
    <3>1. Rec(rows[k].tx.hash, rows[k].miniblock) \in ExecutedPending
      BY <1>1, <2>1, <2>2
    <3>2. PICK i \in (batched + 1)..Len(ledger) : \E t \in ledger[i] :
            Rec(rows[k].tx.hash, rows[k].miniblock) = Rec(t.hash, i)
      BY <1>2, <3>1
    <3>3. PICK t \in ledger[i] : Rec(rows[k].tx.hash, rows[k].miniblock) = Rec(t.hash, i)
      BY <3>2
    <3>4. rows[k].tx.hash = t.hash /\ rows[k].miniblock = i
      BY <1>3, <3>3
    <3> QED BY <3>4 DEF RowIsExecuted
  <2>3. ASSUME NEW i \in (batched + 1)..Len(ledger), NEW t \in ledger[i] PROVE HasRow(i, t)
    <3>1. Rec(t.hash, i) \in RecordedPending
      BY <1>2, <2>1
    <3>2. PICK k : Pending(k) /\ Rec(t.hash, i) = Rec(rows[k].tx.hash, rows[k].miniblock)
      BY <1>1, <3>1
    <3>3. rows[k].tx.hash = t.hash /\ rows[k].miniblock = i
      BY <1>3, <3>2
    <3> QED BY <3>2, <3>3 DEF HasRow
  <2> QED BY <2>2, <2>3 DEF PendingAgrees
<1>5. ASSUME PendingAgrees PROVE PendingBatchComplete
  <2>1. ASSUME NEW r \in RecordedPending PROVE r \in ExecutedPending
    <3>1. PICK k : Pending(k) /\ r = Rec(rows[k].tx.hash, rows[k].miniblock)
      BY <1>1
    <3>2. RowIsExecuted(k)
      BY <1>5, <3>1 DEF PendingAgrees
    <3>3. PICK t \in ledger[rows[k].miniblock] : t.hash = rows[k].tx.hash
      BY <3>2 DEF RowIsExecuted
    <3>4. rows[k].miniblock \in (batched + 1)..Len(ledger)
      BY <3>2 DEF RowIsExecuted
    <3> QED BY <1>2, <3>1, <3>3, <3>4
  <2>2. ASSUME NEW r \in ExecutedPending PROVE r \in RecordedPending
    <3>1. PICK i \in (batched + 1)..Len(ledger) : \E t \in ledger[i] : r = Rec(t.hash, i)
      BY <1>2
    <3>2. PICK t \in ledger[i] : r = Rec(t.hash, i)
      BY <3>1
    <3>3. PICK k : Pending(k) /\ rows[k].miniblock = i /\ rows[k].tx.hash = t.hash
      BY <1>5 DEF PendingAgrees, HasRow
    <3> QED BY <1>1, <3>2, <3>3
  <2> QED BY <2>1, <2>2 DEF PendingBatchComplete
<1> QED BY <1>4, <1>5

\* The steps that change the open batch or what is sealed.
LEMMA BatchSteps ==
    ASSUME [PoolNext]_vars
    PROVE  \/ UNCHANGED <<batch_txs, ledger, batched>> /\ ~SealMiniblock /\ ~SealL1Batch
                /\ (UNCHANGED <<open, sealing>> \/ SubmitMiniblock)
           \/ IncludeTx \/ SealL1Batch \/ SealMiniblock \/ Restart
BY DEF PoolNext, Fetch, Sequence, SubmitTx, FetcherStart, FetcherPurge, FetcherFetch,
       FetcherNonces, FetcherInfo, FetcherInsert, TakeTx, ExcludeTx, ReinsertTx, RejectTx,
       MarkRejected, CloseOnTimeout, SubmitMiniblock, vars, dbVars, seqVars

\* A step that seals nothing leaves the pending batch alone.
LEMMA PendingFrame ==
    ASSUME PoolInv, [PoolNext]_vars, ~SealMiniblock, ~SealL1Batch, UNCHANGED <<ledger, batched>>
    PROVE  PendingBatchComplete'
<1>1. PendingAgrees
  BY PendingForms DEF PoolInv, BatchInv
<1>2. \A k : /\ Sealed(k)' <=> Sealed(k)
             /\ Sealed(k) => /\ rows'[k].tx = rows[k].tx
                             /\ rows'[k].miniblock = rows[k].miniblock
                             /\ rows'[k].in_batch = rows[k].in_batch
  BY SealedRowsKept
<1>3. \A k : Pending(k)' <=> Pending(k)
  BY <1>2 DEF Pending
<1>4. \A k : Pending(k) => (RowIsExecuted(k)' <=> RowIsExecuted(k))
  BY <1>2 DEF Pending, RowIsExecuted
<1>5. \A k : Pending(k) => rows'[k].miniblock = rows[k].miniblock /\ rows'[k].tx = rows[k].tx
  BY <1>2 DEF Pending
<1>6. ASSUME NEW i, NEW t, HasRow(i, t)
      PROVE  \E k : Pending(k)' /\ rows'[k].miniblock = i /\ rows'[k].tx.hash = t.hash
  BY <1>3, <1>5, <1>6 DEF HasRow
<1>7. \A k : Pending(k)' => RowIsExecuted(k)'
  BY <1>1, <1>3, <1>4 DEF PendingAgrees
<1>8. \A i \in (batched' + 1)..Len(ledger') : \A t \in ledger'[i] :
        \E k : Pending(k)' /\ rows'[k].miniblock = i /\ rows'[k].tx.hash = t.hash
  BY <1>1, <1>6 DEF PendingAgrees
<1>9. PendingAgrees'
  BY <1>7, <1>8 DEF PendingAgrees, HasRow
<1>10. PendingAgrees' => PendingBatchComplete'
  BY PendingForms, PTL
<1> QED BY <1>9, <1>10

\* A miniblock is recorded as it was executed.
LEMMA PendingGrows ==
    ASSUME PoolInv, SealMiniblock
    PROVE  PendingBatchComplete'
<1> DEFINE N == Len(ledger)
<1>1. PendingAgrees
  BY PendingForms DEF PoolInv, BatchInv
<1>2. /\ \A k : Sealed(k)' <=> Sealed(k) \/ k \in Keys(sealing[1])
      /\ \A k : Sealed(k) => k \notin Keys(sealing[1]) /\ rows'[k] = rows[k]
      /\ \A t \in sealing[1] :
           /\ rows'[Key(t)].tx.hash = t.hash
           /\ rows'[Key(t)].miniblock = N + 1
           /\ ~rows'[Key(t)].in_batch
  BY SealedRowsAdded
<1>3. /\ N \in Nat /\ batched \in 0..N /\ UNCHANGED batched
      /\ Len(ledger') = N + 1 /\ ledger'[N + 1] = sealing[1]
      /\ \A i \in 1..N : ledger'[i] = ledger[i]
  <2>1. ledger' = Append(ledger, sealing[1]) /\ ledger \in Seq(SUBSET Transaction)
        /\ sealing[1] \in SUBSET Transaction
    BY FirstSealed DEF PoolInv, BaseInv, MemoryInv
  <2>2. batched \in 0..N /\ UNCHANGED batched
    BY DEF PoolInv, BaseInv, MemoryInv, SealMiniblock
  <2> QED BY <2>1, <2>2
<1> HIDE DEF N
<1>4. \A i \in (batched + 1)..N : i \in 1..N /\ i \in (batched' + 1)..Len(ledger')
  BY <1>3
<1>5. N + 1 \in (batched' + 1)..Len(ledger')
  BY <1>3
<1>6. \A i \in (batched' + 1)..Len(ledger') : i \in (batched + 1)..N \/ i = N + 1
  BY <1>3
<1>7. \A k \in Keys(sealing[1]) : \E t \in sealing[1] : k = Key(t)
  BY DEF Keys
<1>8. ASSUME NEW k, Pending(k)' PROVE RowIsExecuted(k)'
  <2>1. CASE Sealed(k)
    <3>1. Pending(k) /\ rows'[k] = rows[k]
      BY <1>2, <1>8, <2>1 DEF Pending
    <3>2. /\ rows[k].miniblock \in (batched + 1)..N
          /\ \E t \in ledger[rows[k].miniblock] : t.hash = rows[k].tx.hash
      BY <1>1, <3>1 DEF PendingAgrees, RowIsExecuted, N
    <3> QED BY <1>3, <1>4, <3>1, <3>2 DEF RowIsExecuted
  <2>2. CASE k \in Keys(sealing[1])
    <3>1. PICK t \in sealing[1] : k = Key(t)
      BY <1>7, <2>2
    <3>2. rows'[k].tx.hash = t.hash /\ rows'[k].miniblock = N + 1
      BY <1>2, <3>1
    <3> QED BY <1>3, <1>5, <3>2 DEF RowIsExecuted
  <2> QED BY <1>2, <1>8, <2>1, <2>2 DEF Pending
<1>9. ASSUME NEW i \in (batched' + 1)..Len(ledger'), NEW t \in ledger'[i]
      PROVE  \E k : Pending(k)' /\ rows'[k].miniblock = i /\ rows'[k].tx.hash = t.hash
  <2>1. CASE i \in (batched + 1)..N
    <3>1. t \in ledger[i]
      BY <1>3, <1>4, <2>1
    <3>2. PICK k : Pending(k) /\ rows[k].miniblock = i /\ rows[k].tx.hash = t.hash
      BY <1>1, <2>1, <3>1 DEF PendingAgrees, HasRow, N
    <3>3. rows'[k] = rows[k] /\ Sealed(k)'
      BY <1>2, <3>2 DEF Pending
    <3>4. Pending(k)'
      BY <3>2, <3>3 DEF Pending
    <3> QED BY <3>2, <3>3, <3>4
  <2>2. CASE i = N + 1
    <3>1. t \in sealing[1] /\ Key(t) \in Keys(sealing[1])
      BY <1>3, <2>2 DEF Keys
    <3>2. Sealed(Key(t))'
      BY <1>2, <3>1
    <3>3. /\ rows'[Key(t)].tx.hash = t.hash /\ rows'[Key(t)].miniblock = i
          /\ ~rows'[Key(t)].in_batch
      BY <1>2, <2>2, <3>1
    <3> DEFINE k == Key(t)
    <3>4. Pending(k)'
      BY <3>2, <3>3 DEF Pending
    <3> QED BY <3>3, <3>4
  <2> QED BY <1>6, <2>1, <2>2
<1>10. PendingAgrees'
  BY <1>8, <1>9 DEF PendingAgrees, HasRow
<1>11. PendingAgrees' => PendingBatchComplete'
  BY PendingForms, PTL
<1> QED BY <1>10, <1>11

\* A sealed batch leaves nothing pending.
LEMMA PendingEmptied ==
    ASSUME PoolInv, SealL1Batch
    PROVE  PendingBatchComplete' /\ (batched' + 1)..Len(ledger') = {}
<1>1. PendingAgrees
  BY PendingForms DEF PoolInv, BatchInv
<1>2. (batched' + 1)..Len(ledger') = {}
  <2>1. ledger' = Append(ledger, {}) /\ batched' = Len(ledger) + 1
          /\ ledger \in Seq(SUBSET Transaction)
    BY DEF SealL1Batch, PoolInv, BaseInv, MemoryInv
  <2>2. Len(ledger') = Len(ledger) + 1 /\ Len(ledger) \in Nat
    BY <2>1
  <2> QED BY <2>1, <2>2
<1>3. ASSUME NEW k, Pending(k)' PROVE FALSE
  <2>1. /\ k \in DOMAIN rows /\ rows[k].miniblock # 0 /\ ~rows[k].in_batch
        /\ (\E u \in batch_txs : u.hash = rows[k].tx.hash) => rows'[k].in_batch
    BY <1>3, BatchedRows DEF Pending, Sealed
  <2>2. RowIsExecuted(k)
    BY <1>1, <2>1 DEF PendingAgrees, Pending, Sealed
  <2>3. PICK t \in ledger[rows[k].miniblock] : t.hash = rows[k].tx.hash
    BY <2>2 DEF RowIsExecuted
  <2>4. \E u \in batch_txs : u.hash = t.hash
    BY <2>2, <2>3 DEF PoolInv, BatchInv, RowIsExecuted
  <2> QED BY <1>3, <2>1, <2>3, <2>4 DEF Pending
<1>4. PendingAgrees'
  BY <1>2, <1>3 DEF PendingAgrees
<1>5. PendingAgrees' => PendingBatchComplete'
  BY PendingForms, PTL
<1> QED BY <1>2, <1>4, <1>5

\* The open batch stays what is executed and what is pending.
LEMMA BatchKept ==
    ASSUME PoolInv, RoomLeft, [PoolNext]_vars
    PROVE  BatchInv'
<1>0. /\ \A t \in Executed : t \in batch_txs
      /\ \A u \in batch_txs : /\ \E t \in Transaction : t.hash = u.hash /\ Key(t) = Key(u)
                              /\ u \in Executed \/ Sealed(Key(u))
      /\ \A i \in (batched + 1)..Len(ledger) : \A t \in ledger[i] :
           \E u \in batch_txs : u.hash = t.hash
  BY DEF PoolInv, BatchInv, Sealed
<1> DEFINE Goal ==
      /\ \A t \in Executed' : t \in batch_txs'
      /\ \A u \in batch_txs' : /\ \E t \in Transaction : t.hash = u.hash /\ Key(t) = Key(u)
                               /\ u \in Executed' \/ Sealed(Key(u))'
      /\ \A i \in (batched' + 1)..Len(ledger') : \A t \in ledger'[i] :
           \E u \in batch_txs' : u.hash = t.hash
      /\ PendingBatchComplete'
<1>1. SUFFICES Goal
  BY DEF BatchInv, Sealed
<1>2. CASE /\ UNCHANGED <<batch_txs, ledger, batched>> /\ ~SealMiniblock /\ ~SealL1Batch
           /\ (UNCHANGED <<open, sealing>> \/ SubmitMiniblock)
  <2>1. Executed' = Executed
    BY <1>2, ExecutedKept
  <2>2. \A k : Sealed(k)' <=> Sealed(k)
    BY <1>2, SealedRowsKept
  <2>3. PendingBatchComplete'
    BY <1>2, PendingFrame
  <2> QED BY <1>0, <1>2, <2>1, <2>2, <2>3
<1>3. CASE IncludeTx
  <2>1. /\ stage = "taken" /\ open' = open \cup {taken} /\ batch_txs' = batch_txs \cup {taken}
        /\ UNCHANGED <<sealing, ledger, batched, rows>>
    BY <1>3 DEF IncludeTx, dbVars
  <2>2. taken \in Transaction
    BY <2>1, TakenIsNext
  <2>3. \A t : t \in Executed' <=> (t \in Executed \/ t = taken)
    <3> TAKE t
    <3>1. t \in Executed <=> t \in open \/ \E i \in 1..Len(sealing) : t \in sealing[i]
      BY InExecuted
    <3>2. t \in Executed' <=> t \in open' \/ \E i \in 1..Len(sealing') : t \in sealing'[i]
      BY InExecutedNext
    <3> QED BY <2>1, <3>1, <3>2
  <2>4. ~SealMiniblock /\ ~SealL1Batch
    BY <1>3, <2>1 DEF SealMiniblock, SealL1Batch, IncludeTx, PoolInv, BaseInv, MemoryInv
  <2>5. PendingBatchComplete'
    BY <2>1, <2>4, PendingFrame
  <2>6. \A k : Sealed(k)' <=> Sealed(k)
    BY <2>1 DEF Sealed
  <2> QED BY <1>0, <2>1, <2>2, <2>3, <2>5, <2>6
<1>4. CASE SealL1Batch
  <2>1. batch_txs' = {} /\ open = {} /\ sealing = <<>> /\ UNCHANGED <<open, sealing>>
    BY <1>4 DEF SealL1Batch
  <2>2. Executed' = {}
    BY <2>1, InExecutedNext
  <2> QED BY <1>4, <2>1, <2>2, PendingEmptied
<1>5. CASE SealMiniblock
  <2>1. /\ Len(ledger') = Len(ledger) + 1 /\ ledger'[Len(ledger) + 1] = sealing[1]
        /\ \A i \in 1..Len(ledger) : ledger'[i] = ledger[i]
        /\ Len(ledger) \in Nat /\ batched \in 0..Len(ledger) /\ UNCHANGED <<batched, batch_txs>>
    <3>1. ledger' = Append(ledger, sealing[1]) /\ ledger \in Seq(SUBSET Transaction)
          /\ sealing[1] \in SUBSET Transaction
      BY <1>5, FirstSealed DEF PoolInv, BaseInv, MemoryInv
    <3>2. batched \in 0..Len(ledger) /\ UNCHANGED <<batched, batch_txs>>
      BY <1>5 DEF PoolInv, BaseInv, MemoryInv, SealMiniblock
    <3> QED BY <3>1, <3>2
  <2>2. /\ \A t \in Executed : t \in sealing[1] \/ t \in Executed'
        /\ \A t \in sealing[1] : t \in Executed
        /\ \A u \in Executed' : u \in Executed
    BY <1>5, SealedFirst
  <2>3. \A k : Sealed(k)' <=> Sealed(k) \/ k \in Keys(sealing[1])
    BY <1>5, SealedRowsAdded
  <2>4. \A t \in sealing[1] : Key(t) \in Keys(sealing[1])
    BY DEF Keys
  <2>5. \A i \in (batched' + 1)..Len(ledger') : \A t \in ledger'[i] :
           \E u \in batch_txs' : u.hash = t.hash
    <3> SUFFICES ASSUME NEW i \in (batched' + 1)..Len(ledger'), NEW t \in ledger'[i]
                 PROVE  \E u \in batch_txs' : u.hash = t.hash
      OBVIOUS
    <3>1. CASE i = Len(ledger) + 1
      BY <1>0, <2>1, <2>2, <3>1
    <3>2. CASE i # Len(ledger) + 1
      <4>1. i \in (batched + 1)..Len(ledger) /\ i \in 1..Len(ledger)
        BY <2>1, <3>2
      <4> QED BY <1>0, <2>1, <4>1
    <3> QED BY <3>1, <3>2
  <2>6. PendingBatchComplete'
    BY <1>5, PendingGrows
  <2>7. \A u \in batch_txs' : u \in Executed' \/ Sealed(Key(u))'
    <3> SUFFICES ASSUME NEW u \in batch_txs PROVE u \in Executed' \/ Sealed(Key(u))'
      BY <2>1
    <3> DEFINE k == Key(u)
    <3>1. Sealed(k)' <=> Sealed(k) \/ k \in Keys(sealing[1])
      BY <2>3
    <3> QED BY <1>0, <2>2, <2>4, <3>1
  <2> QED BY <1>0, <2>1, <2>2, <2>5, <2>6, <2>7
<1>6. CASE Restart
  <2>1. /\ open' = {} /\ sealing' = <<>> /\ batch_txs' = {rows[k].tx : k \in PendingRows}
        /\ UNCHANGED <<rows, ledger, batched>>
    BY <1>6 DEF Restart, dbVars
  <2>2. Executed' = {}
    BY <2>1, InExecutedNext
  <2>3. PendingBatchComplete'
    BY <2>1 DEF PoolInv, BatchInv, PendingBatchComplete, RecordedPending, ExecutedPending,
            PendingRows
  <2>4. ASSUME NEW u \in batch_txs'
        PROVE  (\E t \in Transaction : t.hash = u.hash /\ Key(t) = Key(u)) /\ Sealed(Key(u))'
    <3>1. PICK k \in DOMAIN rows : u = rows[k].tx /\ rows[k].miniblock # 0
      BY <2>1, <2>4 DEF PendingRows
    <3>2. /\ Key(u) = k /\ \E t \in Transaction : t.hash = u.hash /\ Key(t) = k
      BY <3>1 DEF PoolInv, BaseInv, TableInv, RowOf
    <3> QED BY <2>1, <3>1, <3>2 DEF Sealed
  <2>5. ASSUME NEW i \in (batched + 1)..Len(ledger), NEW t \in ledger[i]
        PROVE  \E u \in batch_txs' : u.hash = t.hash
    <3>1. PICK k : Pending(k) /\ rows[k].tx.hash = t.hash
      BY PendingForms DEF PoolInv, BatchInv, PendingAgrees, HasRow
    <3>2. k \in PendingRows
      BY <3>1 DEF Pending, Sealed, PendingRows
    <3> QED BY <2>1, <3>1, <3>2
  <2> QED BY <2>1, <2>2, <2>3, <2>4, <2>5
<1> QED BY <1>2, <1>3, <1>4, <1>5, <1>6, BatchSteps

-----------------------------------------------------------------------------
(* The invariant. *)

\* A node that starts for the first time.
LEMMA PoolStarts == PoolInit => PoolInv
<1> SUFFICES ASSUME PoolInit PROVE PoolInv
  OBVIOUS
<1>1. /\ accounts = [a \in {} |-> 0] /\ transactions = {} /\ taken = NoTx
      /\ rows = [k \in {} |-> 0] /\ committed = [a \in Account |-> 0]
      /\ ledger = <<>> /\ batched = 0 /\ fetcher = At("start")
      /\ stage = "idle" /\ handling = NoTx /\ open = {} /\ batch_txs = {} /\ sealing = <<>>
  BY DEF PoolInit, Init
<1>2. Executed = {}
  BY <1>1, InExecuted
<1>3. StoreInv
  BY InitStoreInv DEF PoolInit
<1>4. TableInv /\ MemoryInv /\ HandsInv
  BY <1>1 DEF TableInv, MemoryInv, HandsInv
<1>5. FetcherInv
  BY <1>1, CarriesNothing DEF FetcherInv
<1>6. OrderInv
  BY <1>1 DEF OrderInv, OnePerNonce
<1>7. NonceInv
  BY <1>1, <1>2 DEF NonceInv, At
<1>8. RowInv
  <2>1. Held = {}
    BY <1>1, <1>2 DEF Held, Hands, At
  <2>2. \A a \in Account : 0..(committed[a] - 1) = {}
    BY <1>1
  <2> QED BY <1>1, <2>1, <2>2 DEF RowInv
<1>9. BatchInv
  <2>1. (batched + 1)..Len(ledger) = {}
    BY <1>1
  <2>2. PendingAgrees
    BY <1>1, <2>1 DEF PendingAgrees, Pending, Sealed
  <2>3. PendingBatchComplete
    BY <2>2, PendingForms
  <2> QED BY <1>1, <1>2, <2>1, <2>3 DEF BatchInv
<1> QED BY <1>3, <1>4, <1>5, <1>6, <1>7, <1>8, <1>9 DEF PoolInv, BaseInv

\* Every step of the four tasks, and every restart, keeps it.
LEMMA PoolStep == PoolInv /\ RoomLeft /\ [PoolNext]_vars => PoolInv'
BY BaseKept, OrderKept, NonceKept, RowKept, BatchKept DEF PoolInv

\* The invariant holds as long as the mempool never fills up.
THEOREM PoolInvariant == PoolSpec /\ []RoomLeft => []PoolInv
BY PoolStarts, PoolStep, PTL DEF PoolSpec

\* A pool that could hold every transaction never fills up: for such a capacity
\* the hypothesis RoomLeft of the theorems below always holds.
THEOREM LargePoolHasRoom ==
    ASSUME Cardinality(Keys(Transaction)) < Capacity
    PROVE  PoolSpec => []RoomLeft
<1>1. PoolInv => RoomLeft
  <2> SUFFICES ASSUME StoreInv PROVE size < Capacity
    BY DEF PoolInv, BaseInv, RoomLeft
  <2>1. size = Cardinality(Keys(transactions)) /\ transactions \in SUBSET Transaction
    BY DEF StoreInv, SizeExact, TypeOK
  <2>2. Keys(transactions) \subseteq Keys(Transaction)
    BY <2>1 DEF Keys
  <2>3. IsFiniteSet(Keys(Transaction)) /\ Cardinality(Keys(Transaction)) \in Nat
    BY KeysFinite
  <2>4. Cardinality(Keys(transactions)) <= Cardinality(Keys(Transaction))
    BY <2>2, <2>3, FS_Subset
  <2>5. Cardinality(Keys(transactions)) \in Nat
    BY <2>1, KeysFinite
  <2> QED BY <2>1, <2>3, <2>4, <2>5, MempoolAssumption
<1> QED BY <1>1, PoolStarts, PoolStep, PTL DEF PoolSpec

\* No two executed and unsealed transactions have the same account and nonce.
LEMMA ExecutedOnce ==
    ASSUME PoolInv
    PROVE  Executed \in SUBSET Transaction /\ OnePerNonce(Executed)
<1>1. \A t \in Executed : t \in Transaction /\ t.nonce \in Nat
  BY BelowReached
<1>2. ASSUME NEW t \in Executed, NEW u \in Executed, Key(t) = Key(u)
      PROVE  t = u
  <2>1. t.account = u.account /\ t.nonce = u.nonce /\ ~ (t.nonce < u.nonce) /\ ~ (u.nonce < t.nonce)
    BY <1>1, <1>2 DEF Key
  <2>2. \/ t \in open /\ u \in open
        \/ \E i \in 1..Len(sealing) : t \in sealing[i] /\ u \in open
        \/ \E i \in 1..Len(sealing) : u \in sealing[i] /\ t \in open
        \/ \E i, j \in 1..Len(sealing) : t \in sealing[i] /\ u \in sealing[j]
    BY InExecuted
  <2>3. CASE t \in open /\ u \in open
    BY <1>2, <2>3 DEF PoolInv, OrderInv, OnePerNonce
  <2>4. ASSUME NEW i \in 1..Len(sealing), NEW j \in 1..Len(sealing), t \in sealing[i],
          u \in sealing[j]
        PROVE  t = u
    <3>1. CASE i = j
      BY <1>2, <2>4, <3>1 DEF PoolInv, OrderInv, OnePerNonce
    <3>2. CASE i < j \/ j < i
      BY <2>1, <2>4, <3>2 DEF PoolInv, OrderInv
    <3> QED BY <3>1, <3>2
  <2>5. ASSUME NEW i \in 1..Len(sealing), (t \in sealing[i] /\ u \in open) \/ (u \in sealing[i]
          /\ t \in open)
        PROVE  FALSE
    BY <2>1, <2>5 DEF PoolInv, OrderInv
  <2> QED BY <2>2, <2>3, <2>4, <2>5
<1> QED BY <1>1, <1>2 DEF OnePerNonce

\* AccountTransactions::nonce is the committed nonce plus the number of
\* transactions sent to the sequencer and not yet sealed, each counted once,
\* whatever the fetcher, the sequencer, the sealer and restarts do.
THEOREM NonceTracks == PoolSpec /\ []RoomLeft => []NonceTracksSequencer
<1>1. PoolInv => NonceTracksSequencer
  <2> SUFFICES ASSUME PoolInv, NEW a \in DOMAIN accounts
               PROVE  accounts[a] = committed[a] + Cardinality({t \in Executed : t.account = a})
                                      + InFlight(a)
    BY DEF NonceTracksSequencer
  <2> DEFINE c == committed[a]
             d == Reached(a) - 1
             S == Executed
  <2>1. accounts[a] \in Nat /\ c \in Nat /\ InFlight(a) \in {0, 1}
    BY DEF PoolInv, BaseInv, StoreInv, TypeOK, MemoryInv, InFlight
  <2>2. c <= Reached(a) /\ Nonces(S, a) = c..d
    BY DEF PoolInv, NonceInv
  <2>3. d \in Int /\ d = accounts[a] - InFlight(a) - 1 /\ c \in Int /\ c <= d + 1
    BY <2>1, <2>2 DEF Reached
  <2>4. S \in SUBSET Transaction /\ OnePerNonce(S)
    BY ExecutedOnce
  <2> HIDE DEF S, d, c
  <2>5. Cardinality({t \in S : t.account = a}) = Cardinality(Nonces(S, a))
    BY <2>4, NonceCount
  <2>6. Cardinality(Nonces(S, a)) = Cardinality(c..d)
    BY <2>2, Zenon
  <2>7. Cardinality(c..d) = IF c > d THEN 0 ELSE d - c + 1
    BY <2>3, FS_Interval
  <2>8. Cardinality({t \in S : t.account = a}) = d + 1 - c
    BY <2>1, <2>3, <2>5, <2>6, <2>7
  <2> QED BY <2>1, <2>3, <2>8 DEF S, c
<1> QED BY <1>1, PoolInvariant, PTL

\* What the table says of the pending miniblocks is what was executed, so that
\* get_miniblocks_to_reexecute returns all of it and nothing else.
THEOREM PendingIsComplete == PoolSpec /\ []RoomLeft => []PendingBatchComplete
<1>1. PoolInv => PendingBatchComplete
  BY DEF PoolInv, BatchInv
<1> QED BY <1>1, PoolInvariant, PTL

-----------------------------------------------------------------------------
(* The contract of the mempool. *)

\* The nonces that Postgres reports are among those the contract speaks of.
NoncesKnown == \A a \in Account : committed[a] \in DbNonce

\* The fetcher carries nonces that Postgres reported.
CarriesKnown ==
    fetcher.pc = "insert" => \A a \in DOMAIN fetcher.nonces : fetcher.nonces[a] \in DbNonce

\* The fetcher reads them once and keeps them until it inserts.
LEMMA CarriesKnownKept == PoolInv /\ NoncesKnown /\ CarriesKnown /\ [PoolNext]_vars => CarriesKnown'
<1> SUFFICES ASSUME PoolInv, NoncesKnown, CarriesKnown, [PoolNext]_vars PROVE CarriesKnown'
  OBVIOUS
<1>1. \/ UNCHANGED fetcher
      \/ fetcher' \in {At("start"), At("info"), At("fetch"), [At("purge") EXCEPT !.purged = Purged]}
      \/ FetcherFetch \/ FetcherNonces
  BY DEF PoolNext, Fetch, Sequence, SubmitTx, FetcherStart, FetcherPurge,
       FetcherInfo, FetcherInsert, TakeTx, IncludeTx, ExcludeTx, ReinsertTx, RejectTx,
       MarkRejected, CloseOnTimeout, SubmitMiniblock, SealL1Batch, SealMiniblock, Restart, vars
<1>2. FetcherFetch => fetcher'.pc = "nonces"
  BY FetchedRows DEF PoolInv, BaseInv
<1>3. ASSUME FetcherNonces PROVE \A a \in DOMAIN fetcher'.nonces : fetcher'.nonces[a] \in DbNonce
  <2> DEFINE nonces == [a \in {v.account : v \in fetcher.batch} |-> committed[a]]
  <2>1. PICK p, b, n : fetcher = [pc |-> p, purged |-> {}, batch |-> b, nonces |-> n]
    BY DEF PoolInv, BaseInv, FetcherInv
  <2>2. fetcher' = [fetcher EXCEPT !.pc = "insert", !.nonces = nonces]
    BY <1>3 DEF FetcherNonces
  <2>3. fetcher.batch \subseteq Transaction
    BY DEF PoolInv, BaseInv, FetcherInv, Carries
  <2>4. \A a \in DOMAIN nonces : nonces[a] \in DbNonce
    BY <2>3, TransactionType DEF NoncesKnown
  <2> HIDE DEF nonces
  <2>5. fetcher'.nonces = nonces
    BY <2>1, <2>2
  <2> QED BY <2>4, <2>5
<1>4. /\ At("start").pc = "start" /\ At("info").pc = "info" /\ At("fetch").pc = "fetch"
      /\ [At("purge") EXCEPT !.purged = Purged].pc = "purge"
  BY DEF At
<1> QED BY <1>1, <1>2, <1>3, <1>4 DEF CarriesKnown

\* A batch with nonces of its accounts is inserted by a step of Mempool.
LEMMA InsertedBatch ==
    ASSUME NEW S \in SUBSET Transaction, OnePerNonce(S),
           NEW db \in [{t.account : t \in S} -> DbNonce], Insert(S, db), UNCHANGED taken
    PROVE  InsertStep
BY DEF InsertStep

\* The nonce that comes with a known account does not matter.
LEMMA KnownAccount ==
    ASSUME NEW t, t.account \in DOMAIN accounts, NEW n, Insert({t}, [a \in {} |-> 0])
    PROVE  Insert({t}, [a \in {t.account} |-> n])
<1>1. AccountsWith({t}, [a \in {} |-> 0]) = AccountsWith({t}, [a \in {t.account} |-> n])
  <2>1. \A a \in DOMAIN accounts \cup {tx.account : tx \in {t}} : a \in DOMAIN accounts
    OBVIOUS
  <2> QED BY <2>1 DEF AccountsWith
<1> QED BY <1>1, Zenon DEF Insert

\* Every step of the tasks keeps the contract.
LEMMA ContractStep ==
    PoolInv /\ RoomLeft /\ NoncesKnown /\ CarriesKnown /\ [PoolNext]_vars
      => [Next \/ Init']_mempoolVars
<1> SUFFICES ASSUME PoolInv, RoomLeft, NoncesKnown, CarriesKnown, [PoolNext]_vars
             PROVE  Next \/ Init' \/ UNCHANGED mempoolVars
  OBVIOUS
<1> USE DEF PoolInv, BaseInv
<1>1. CASE Elsewhere
  BY <1>1, ElsewhereUnchanged
<1>2. CASE FetcherInfo
  BY <1>2 DEF FetcherInfo, InfoStep, Next
<1>3. CASE FetcherInsert
  <2> DEFINE S == fetcher.batch
             db == fetcher.nonces
             full == [a \in {t.account : t \in S} |-> db[a]]
  <2>1. Insert(S, db) /\ UNCHANGED taken /\ fetcher.pc = "insert"
    BY <1>3 DEF FetcherInsert
  <2>2. /\ S \in SUBSET Transaction /\ OnePerNonce(S) /\ DOMAIN db = {t.account : t \in S}
        /\ \A a \in DOMAIN db : db[a] \in DbNonce
    BY <2>1 DEF FetcherInv, Carries, CarriesKnown
  <2> HIDE DEF S, db
  <2>3. full \in [{t.account : t \in S} -> DbNonce]
    BY <2>2
  <2>4. AccountsWith(S, db) = AccountsWith(S, full)
    BY <2>2 DEF AccountsWith
  <2>5. Insert(S, full)
    BY <2>1, <2>4, Zenon DEF Insert
  <2> HIDE DEF full
  <2> QED BY <2>1, <2>2, <2>3, <2>5, InsertedBatch DEF Next
<1>4. CASE TakeTx
  BY <1>4 DEF TakeTx, TakeStep, HandsInv, Next
<1>5. CASE IncludeTx
  BY <1>5 DEF IncludeTx, SettleStep, HandsInv, Next
<1>6. CASE ExcludeTx \/ RejectTx
  BY <1>6 DEF ExcludeTx, RejectTx, RollbackStep, HandsInv, Next
<1>7. CASE ReinsertTx
  <2> DEFINE n == committed[handling.account]
             db == [a \in {handling.account} |-> n]
             S == {handling}
  <2>1. Insert({handling}, [a \in {} |-> 0]) /\ UNCHANGED taken
    BY <1>7 DEF ReinsertTx
  <2>2. handling \in Transaction /\ handling.account \in DOMAIN accounts
    BY <1>7 DEF ReinsertTx, HandsInv
  <2>3. n \in DbNonce
    BY <2>2, TransactionType DEF NoncesKnown
  <2> HIDE DEF n
  <2>4. Insert(S, db)
    BY <2>1, <2>2, KnownAccount
  <2>5. /\ S \in SUBSET Transaction /\ OnePerNonce(S) /\ {t.account : t \in S} = {handling.account}
    BY <2>2 DEF OnePerNonce
  <2>6. db \in [{handling.account} -> DbNonce]
    BY <2>3
  <2> HIDE DEF db, S
  <2>7. db \in [{t.account : t \in S} -> DbNonce]
    BY <2>5, <2>6, Zenon
  <2> QED BY <2>1, <2>4, <2>5, <2>7, InsertedBatch DEF Next
<1>8. CASE Restart
  BY <1>8 DEF Restart, Init
<1> QED BY <1>1, <1>2, <1>3, <1>4, <1>5, <1>6, <1>7, <1>8, Steps

\* Between two restarts the fetcher and the sequencer use the store the way
\* its comments ask for, so that what is proved of Mempool holds in the node.
THEOREM ContractIsKept == PoolSpec /\ []RoomLeft /\ []NoncesKnown => MempoolContract
<1>1. PoolInit => CarriesKnown
  BY DEF PoolInit, CarriesKnown, At
<1> QED BY <1>1, CarriesKnownKept, ContractStep, PoolInvariant, PTL DEF PoolSpec, MempoolContract

-----------------------------------------------------------------------------
(* The flag in_mempool. *)

\* No transaction takes the nonce of another one.
NoReplacement == \A t, u \in Transaction : Key(t) = Key(u) => t.hash = u.hash

\* The row waits and is flagged.
Flagged(k) == k \in DOMAIN rows /\ rows[k].in_mempool /\ rows[k].miniblock = 0 /\ ~rows[k].error

\* InMempoolIsHeld, row by row.
LEMMA HeldForms ==
    InMempoolIsHeld <=> (fetcher.pc # "start" => \A k : Flagged(k) => \E t \in Held : Key(t) = k)
BY DEF InMempoolIsHeld, Flagged, Held, Hands, Keys

\* Only sync_mempool flags a row.
LEMMA FlaggedNext ==
    ASSUME PoolInv, [PoolNext]_vars, ~Restart, NEW k, Flagged(k)'
    PROVE  \/ Flagged(k) /\ fetcher.pc # "start"
           \/ Flagged(k) /\ UNCHANGED fetcher
           \/ FetcherFetch /\ \E t \in fetcher'.batch : Key(t) = k
<1>0. TableInv /\ FetcherInv
  BY DEF PoolInv, BaseInv
<1>a. fetcher.pc # "start" \/ FetcherStart \/ UNCHANGED fetcher
  BY DEF PoolNext, Fetch, Sequence, SubmitTx, FetcherPurge, FetcherFetch, FetcherNonces,
         FetcherInfo, FetcherInsert, TakeTx, IncludeTx, ExcludeTx, ReinsertTx, RejectTx,
         MarkRejected, CloseOnTimeout, SubmitMiniblock, SealL1Batch, SealMiniblock, vars
<1>1. CASE FetcherStart
  <2>1. PICK D \in SUBSET DOMAIN rows : SameRows(D) /\ \A l \in D : ~rows'[l].in_mempool
    BY <1>0, <1>1, StartedRows
  <2> QED BY <2>1 DEF SameRows, Flagged
<1>2. CASE FetcherFetch
  <2>1. PICK F \in SUBSET Fetchable :
          /\ fetcher'.batch = {rows[l].tx : l \in F}
          /\ \A l \in DOMAIN rows : l \notin F => rows'[l] = rows[l]
    BY <1>0, <1>2, FetchedRows
  <2>2. DOMAIN rows' = DOMAIN rows
    BY <1>0, <1>2, FetchedRows DEF SameRows
  <2>3. CASE k \in F
    <3>1. Key(rows[k].tx) = k /\ rows[k].tx \in fetcher'.batch
      BY <1>0, <2>1, <2>3, Fetched
    <3> QED BY <1>2, <3>1
  <2>4. CASE k \notin F
    <3>1. Flagged(k)
      BY <2>1, <2>2, <2>4 DEF Flagged
    <3> QED BY <1>2, <3>1 DEF FetcherFetch
  <2> QED BY <2>3, <2>4
<1>3. CASE ~FetcherStart /\ ~FetcherFetch
  <2>1. SUFFICES Flagged(k)
    BY <1>3, <1>a
  <2>2. CASE UNCHANGED rows
    BY <2>2 DEF Flagged
  <2>3. ASSUME NEW tx \in Transaction, SubmitTx(tx) PROVE Flagged(k)
    <3>1. rows' = insert_transaction_l2(tx)
      BY <2>3 DEF SubmitTx
    <3>2. /\ DOMAIN rows' = DOMAIN rows \cup {Key(tx)}
          /\ \A l \in DOMAIN rows : (l # Key(tx) \/ rows[l].miniblock # 0) => rows'[l] = rows[l]
          /\ (Key(tx) \in DOMAIN rows /\ rows[Key(tx)].miniblock # 0)
                \/ (rows'[Key(tx)].miniblock = 0 /\ ~rows'[Key(tx)].in_mempool)
      BY <1>0, <3>1, RowInserted
    <3> QED BY <3>2 DEF Flagged
  <2>4. CASE FetcherPurge
    <3>1. SameRows(DOMAIN rows) /\ \A l \in DOMAIN rows : rows'[l] = rows[l]
      BY <1>0, <2>4, PurgedRows
    <3> QED BY <3>1 DEF SameRows, Flagged
  <2>5. CASE MarkRejected
    <3>1. /\ SameRows(DOMAIN rows)
          /\ \A l \in DOMAIN rows : /\ rows[l].tx.hash = handling.hash => rows'[l].error
                                    /\ rows[l].tx.hash # handling.hash => rows'[l] = rows[l]
      BY <1>0, <2>5, RejectedRows
    <3> QED BY <3>1 DEF SameRows, Flagged
  <2>6. CASE SealL1Batch
    BY <2>6, BatchedRows DEF Flagged
  <2>7. CASE SealMiniblock
    <3>1. \A l : Sealed(l)' <=> Sealed(l) \/ l \in Keys(sealing[1])
      BY <2>7, SealedRowsAdded
    <3>2. /\ DOMAIN rows' = DOMAIN rows
          /\ \A l \in DOMAIN rows : l \notin Keys(sealing[1]) => rows'[l] = rows[l]
      BY <2>7, MiniblockRows
    <3>3. k \notin Keys(sealing[1])
      BY <3>1 DEF Sealed, Flagged
    <3> QED BY <3>2, <3>3 DEF Flagged
  <2> QED BY <1>3, <2>2, <2>3, <2>4, <2>5, <2>6, <2>7, TableSteps
<1> QED BY <1>1, <1>2, <1>3

\* A nonce below that of the account is sealed, executed or in flight.
LEMMA OldIsAccountedFor ==
    ASSUME PoolInv, NEW t \in Transaction, t.account \in DOMAIN accounts,
           t.nonce < accounts[t.account]
    PROVE  Sealed(Key(t)) \/ \E u : (u \in Executed \/ (u = taken /\ taken # NoTx))
            /\ Key(u) = Key(t)
<1> DEFINE a == t.account
<1>1. /\ a \in Account /\ t.nonce \in Nat /\ Key(t) = <<a, t.nonce>>
      /\ committed[a] \in Nat /\ accounts[a] \in Nat
  BY TxFields DEF PoolInv, BaseInv, MemoryInv, StoreInv, TypeOK
<1>2. CASE t.nonce < committed[a]
  <2>1. t.nonce \in 0..(committed[a] - 1)
    BY <1>1, <1>2
  <2> QED BY <1>1, <2>1 DEF PoolInv, RowInv, Sealed
<1>3. CASE committed[a] <= t.nonce /\ t.nonce < Reached(a)
  <2>1. Reached(a) \in Int
    BY <1>1 DEF Reached, InFlight
  <2>2. t.nonce \in committed[a]..(Reached(a) - 1)
    BY <1>1, <1>3, <2>1
  <2>3. t.nonce \in Nonces(Executed, a)
    BY <2>2 DEF PoolInv, NonceInv
  <2> QED BY <1>1, <2>3 DEF Nonces
<1>4. CASE ~ (t.nonce < Reached(a))
  <2>1. taken # NoTx /\ taken.account = a
    BY <1>1, <1>4 DEF Reached, InFlight
  <2>2. accounts[a] = taken.nonce + 1 /\ taken \in Transaction
    BY <2>1 DEF PoolInv, BaseInv, HandsInv, StoreInv, TypeOK
  <2>3. taken.nonce \in Nat /\ Reached(a) = taken.nonce
    BY <2>1, <2>2, TransactionType DEF Reached, InFlight
  <2>4. taken.nonce = t.nonce
    BY <1>1, <1>4, <2>2, <2>3
  <2>5. Key(taken) = Key(t)
    BY <1>1, <2>1, <2>4 DEF Key
  <2> QED BY <2>1, <2>5
<1>5. Reached(a) \in Int
  BY <1>1 DEF Reached, InFlight
<1> QED BY <1>1, <1>2, <1>3, <1>4, <1>5

\* While its row is flagged, a held transaction stays held.
LEMMA HeldStays ==
    ASSUME NoReplacement, PoolInv, RoomLeft, [PoolNext]_vars, ~Restart,
           NEW t \in Held, Flagged(Key(t))'
    PROVE  \E u \in Held' : Key(u) = Key(t)
<1>1. t \in transactions \/ t \in fetcher.batch \/ t \in Executed
        \/ (t = taken /\ taken # NoTx) \/ (t = handling /\ handling # NoTx)
  BY DEF Held, Hands
<1>2. \A u : (u \in transactions' \/ u \in fetcher'.batch \/ u \in Executed'
        \/ (u = taken' /\ taken' # NoTx) \/ (u = handling' /\ handling' # NoTx)) => u \in Held'
  BY DEF Held, Hands
<1>3. fetcher.pc \in {"nonces", "insert"} \/ fetcher.batch = {}
  BY DEF PoolInv, BaseInv, FetcherInv, Carries
<1>4. CASE Elsewhere
  <2>1. UNCHANGED <<transactions, taken>>
    BY <1>4, ElsewhereUnchanged DEF mempoolVars
  <2>2. t \in fetcher.batch => t \in fetcher'.batch
    <3>1. UNCHANGED fetcher \/ fetcher.pc \in {"start", "purge", "fetch"} \/ FetcherNonces
      BY <1>4 DEF Elsewhere, SubmitTx, FetcherStart, FetcherPurge, FetcherFetch,
                  MarkRejected, CloseOnTimeout, SubmitMiniblock, SealL1Batch, SealMiniblock, vars
    <3>2. ASSUME FetcherNonces PROVE fetcher'.batch = fetcher.batch
      <4> DEFINE nonces == [a \in {v.account : v \in fetcher.batch} |-> committed[a]]
      <4>1. PICK p, b, n : fetcher = [pc |-> p, purged |-> {}, batch |-> b, nonces |-> n]
        BY DEF PoolInv, BaseInv, FetcherInv
      <4>2. fetcher' = [fetcher EXCEPT !.pc = "insert", !.nonces = nonces]
        BY <3>2 DEF FetcherNonces
      <4> HIDE DEF nonces
      <4> QED BY <4>1, <4>2
    <3> QED BY <1>3, <3>1, <3>2
  <2>3. t \in Executed => t \in Executed'
    <3>1. SealMiniblock \/ UNCHANGED <<open, sealing>> \/ SubmitMiniblock
      BY <1>4 DEF Elsewhere, SubmitTx, FetcherStart, FetcherPurge, FetcherFetch, FetcherNonces,
                  MarkRejected, CloseOnTimeout, SealL1Batch, vars, seqVars
    <3>2. CASE SealMiniblock
      <4> DEFINE k == Key(t)
      <4>1. \A l : Sealed(l)' <=> Sealed(l) \/ l \in Keys(sealing[1])
        BY <3>2, SealedRowsAdded
      <4>2. k \notin Keys(sealing[1])
        BY <4>1 DEF Sealed, Flagged
      <4>3. t \notin sealing[1]
        BY <4>2 DEF Keys
      <4> QED BY <3>2, <4>3, SealedFirst
    <3> QED BY <3>1, <3>2, ExecutedKept
  <2>4. (t = handling /\ handling # NoTx) => (t = handling' /\ handling' # NoTx)
    <3>1. UNCHANGED handling \/ MarkRejected
      BY <1>4 DEF Elsewhere, SubmitTx, FetcherStart, FetcherPurge, FetcherFetch, FetcherNonces,
                  CloseOnTimeout, SubmitMiniblock, SealL1Batch, SealMiniblock, vars, seqVars
    <3>2. ASSUME MarkRejected, t = handling, handling # NoTx PROVE FALSE
      <4> DEFINE k == Key(t)
      <4>1. /\ SameRows(DOMAIN rows)
            /\ \A l \in DOMAIN rows : rows[l].tx.hash = handling.hash => rows'[l].error
        BY <3>2, RejectedRows DEF PoolInv, BaseInv
      <4>2. k \in DOMAIN rows /\ rows[k].miniblock = 0 /\ ~rows'[k].error
        BY <4>1 DEF Flagged, SameRows
      <4>3. rows[k].tx \in Transaction /\ Key(rows[k].tx) = k
        BY <4>2 DEF PoolInv, BaseInv, TableInv, RowOf
      <4>4. handling \in Transaction
        BY <3>2 DEF PoolInv, BaseInv, HandsInv
      <4>5. rows[k].tx.hash = handling.hash
        BY <3>2, <4>3, <4>4 DEF NoReplacement
      <4> QED BY <4>1, <4>2, <4>5
    <3> QED BY <3>1, <3>2
  <2> QED BY <1>1, <1>2, <2>1, <2>2, <2>3, <2>4
<1>5. CASE FetcherInfo
  <2>1. UNCHANGED <<storeVars, taken, handling, open, sealing>> /\ fetcher.pc = "info"
    BY <1>5, NothingPurged DEF FetcherInfo, seqVars, PoolInv, BaseInv
  <2>2. Executed' = Executed
    BY <2>1, ExecutedKept
  <2> QED BY <1>1, <1>2, <1>3, <2>1, <2>2 DEF storeVars
<1>6. CASE FetcherInsert
  <2> DEFINE S == fetcher.batch
             db == fetcher.nonces
  <2>1. /\ Insert(S, db) /\ UNCHANGED <<taken, handling, open, sealing, rows>>
        /\ fetcher.pc = "insert"
    BY <1>6 DEF FetcherInsert, seqVars, dbVars
  <2>2. S \in SUBSET Transaction /\ DOMAIN db = {u.account : u \in S}
    BY <2>1 DEF PoolInv, BaseInv, FetcherInv, Carries
  <2>3. \A a \in DOMAIN db : a \notin DOMAIN accounts => db[a] = committed[a]
    BY <2>1 DEF PoolInv, NonceInv
  <2>4. Executed' = Executed
    BY <2>1, ExecutedKept
  <2>5. t \in fetcher.batch <=> t \in S
    OBVIOUS
  <2> HIDE DEF S, db
  <2>6. /\ \A a \in DOMAIN accounts : accounts'[a] = accounts[a]
        /\ \A u \in S : u.account \notin DOMAIN accounts =>
             accounts'[u.account] = IF u.account \in DOMAIN db THEN db[u.account] ELSE 0
        /\ \A u \in transactions : Key(u) \in Keys(transactions')
        /\ \A u \in S : u.nonce >= accounts'[u.account] => u \in transactions'
    BY <2>1, <2>2, Inserted DEF PoolInv, BaseInv
  <2>7. CASE t \in transactions
    <3>1. \E u \in transactions' : Key(u) = Key(t)
      BY <2>6, <2>7 DEF Keys
    <3> QED BY <1>2, <3>1
  <2>8. CASE t \in S
    <3>1. t \in Transaction /\ t.account \in Account /\ t.nonce \in Nat
            /\ Key(t) = <<t.account, t.nonce>>
      BY <2>2, <2>8, TxFields
    <3>2. ~Sealed(Key(t))
      BY <2>1 DEF Sealed, Flagged
    <3>3. CASE t.account \in DOMAIN accounts
      <4>1. accounts[t.account] \in Nat /\ accounts'[t.account] = accounts[t.account]
        BY <2>6, <3>3 DEF PoolInv, BaseInv, StoreInv, TypeOK
      <4>2. CASE t.nonce < accounts[t.account]
        <5>1. \E u : (u \in Executed \/ (u = taken /\ taken # NoTx)) /\ Key(u) = Key(t)
          BY <3>1, <3>2, <3>3, <4>2, OldIsAccountedFor
        <5> QED BY <1>2, <2>1, <2>4, <5>1
      <4>3. CASE t.nonce >= accounts[t.account]
        BY <1>2, <2>6, <2>8, <4>1, <4>3
      <4> QED BY <3>1, <4>1, <4>2, <4>3
    <3>4. CASE t.account \notin DOMAIN accounts
      <4>1. accounts'[t.account] = committed[t.account] /\ committed[t.account] \in Nat
        <5>1. t.account \in DOMAIN db
          BY <2>2, <2>8
        <5>2. accounts'[t.account] = db[t.account]
          BY <2>6, <2>8, <3>4, <5>1
        <5>3. db[t.account] = committed[t.account]
          BY <2>3, <3>4, <5>1
        <5> QED BY <3>1, <5>2, <5>3 DEF PoolInv, BaseInv, MemoryInv
      <4>2. ~ (t.nonce < committed[t.account])
        <5> SUFFICES ASSUME t.nonce < committed[t.account] PROVE FALSE
          OBVIOUS
        <5>1. t.nonce \in 0..(committed[t.account] - 1)
          BY <3>1, <4>1
        <5> QED BY <3>1, <3>2, <5>1 DEF PoolInv, RowInv, Sealed
      <4> QED BY <1>2, <2>6, <2>8, <3>1, <4>1, <4>2
    <3> QED BY <3>3, <3>4
  <2> QED BY <1>1, <1>2, <2>1, <2>4, <2>5, <2>7, <2>8
<1>7. CASE TakeTx
  <2>1. NextTransaction /\ stage = "idle" /\ UNCHANGED <<handling, open, sealing, fetcher>>
    BY <1>7 DEF TakeTx
  <2>2. taken' # NoTx /\ transactions' = transactions \ {taken'}
    BY <2>1, TakenOut DEF PoolInv, BaseInv
  <2>3. Executed' = Executed /\ taken = NoTx
    BY <2>1, ExecutedKept DEF PoolInv, BaseInv, HandsInv
  <2> QED BY <1>1, <1>2, <2>1, <2>2, <2>3
<1>8. CASE IncludeTx
  <2>1. /\ open' = open \cup {taken} /\ UNCHANGED <<transactions, handling, sealing, fetcher>>
    BY <1>8 DEF IncludeTx, storeVars
  <2>2. t \in Executed \/ t = taken => t \in Executed'
    <3>1. t \in Executed <=> t \in open \/ \E i \in 1..Len(sealing) : t \in sealing[i]
      BY InExecuted
    <3>2. t \in Executed' <=> t \in open' \/ \E i \in 1..Len(sealing') : t \in sealing'[i]
      BY InExecutedNext
    <3> QED BY <2>1, <3>1, <3>2
  <2> QED BY <1>1, <1>2, <2>1, <2>2
<1>9. CASE ExcludeTx \/ RejectTx
  <2>1. /\ stage = "taken" /\ Rollback(taken) /\ handling' = taken
        /\ UNCHANGED <<open, sealing, fetcher>>
    BY <1>9 DEF ExcludeTx, RejectTx
  <2>2. transactions' = transactions /\ taken # NoTx /\ handling = NoTx
    BY <2>1, RolledBack DEF PoolInv, BaseInv, HandsInv
  <2>3. Executed' = Executed
    BY <2>1, ExecutedKept
  <2> QED BY <1>1, <1>2, <2>1, <2>2, <2>3
<1>10. CASE ReinsertTx
  <2> DEFINE db == [a \in {} |-> 0]
             S == {handling}
  <2>1. Insert(S, db) /\ UNCHANGED <<taken, open, sealing, fetcher>>
    BY <1>10 DEF ReinsertTx
  <2>2. /\ S \in SUBSET Transaction /\ handling \in S /\ handling.account \in DOMAIN accounts
        /\ accounts[handling.account] = handling.nonce /\ handling.nonce \in Nat
    BY <1>10, TransactionType DEF ReinsertTx, PoolInv, BaseInv, HandsInv
  <2> HIDE DEF db, S
  <2>3. /\ \A a \in DOMAIN accounts : accounts'[a] = accounts[a]
        /\ \A u \in transactions : Key(u) \in Keys(transactions')
        /\ \A u \in S : u.nonce >= accounts'[u.account] => u \in transactions'
    BY <2>1, <2>2, Inserted DEF PoolInv, BaseInv
  <2>4. handling \in transactions'
    BY <2>2, <2>3
  <2>5. ASSUME t \in transactions PROVE \E u \in transactions' : Key(u) = Key(t)
    BY <2>3, <2>5 DEF Keys
  <2>6. Executed' = Executed
    BY <2>1, ExecutedKept
  <2> QED BY <1>1, <1>2, <2>1, <2>4, <2>5, <2>6
<1> QED BY <1>4, <1>5, <1>6, <1>7, <1>8, <1>9, <1>10, Steps

\* A row that is flagged in_mempool and waits is really on its way, if no
\* transaction replaces another: mark_tx_as_rejected, which goes by the hash,
\* then always meets the row of the transaction that the sequencer gave up.
THEOREM FlagIsTrue ==
    ASSUME NoReplacement
    PROVE  PoolSpec /\ []RoomLeft => []InMempoolIsHeld
<1>1. PoolInit => InMempoolIsHeld
  BY DEF PoolInit, InMempoolIsHeld, At
<1>2. PoolInv /\ RoomLeft /\ InMempoolIsHeld /\ [PoolNext]_vars => InMempoolIsHeld'
  <2> SUFFICES ASSUME PoolInv, RoomLeft, InMempoolIsHeld, [PoolNext]_vars, fetcher'.pc # "start",
                      NEW k, Flagged(k)'
               PROVE  \E t \in Held' : Key(t) = k
    <3>1. ASSUME fetcher'.pc # "start" => \A k : Flagged(k)' => \E t \in Held' : Key(t) = k
          PROVE  InMempoolIsHeld'
      BY <3>1 DEF InMempoolIsHeld, Flagged, Held, Hands, Keys
    <3> QED BY <3>1
  <2>1. ~Restart
    BY DEF Restart, At
  <2>2. fetcher.pc # "start" => (Flagged(k) => \E t \in Held : Key(t) = k)
    BY HeldForms
  <2>3. CASE FetcherFetch /\ \E t \in fetcher'.batch : Key(t) = k
    BY <2>3 DEF Held
  <2>4. CASE Flagged(k) /\ (fetcher.pc # "start" \/ UNCHANGED fetcher)
    <3>1. PICK t \in Held : Key(t) = k
      BY <2>2, <2>4
    <3> QED BY <2>1, <3>1, HeldStays
  <2> QED BY <2>1, <2>3, <2>4, FlaggedNext
<1> QED BY <1>1, <1>2, PoolInvariant, PTL DEF PoolSpec
=============================================================================
