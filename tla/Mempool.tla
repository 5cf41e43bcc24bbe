------------------------------ MODULE Mempool ------------------------------
(***************************************************************************)
(* The in-memory transaction pool of the sequencer node: `MempoolStore'    *)
(* (mempool/src/mempool_store.rs) and the per-account maps it is built     *)
(* from, `AccountTransactions' (mempool/src/types.rs).                     *)
(*                                                                         *)
(* Two tasks share the store through the mutex of `MempoolGuard': the      *)
(* fetcher inserts transactions read from Postgres and collects garbage,   *)
(* the sequencer takes transactions and rolls them back.  Every method     *)
(* runs under the mutex, so every method is one action here.               *)
(*                                                                         *)
(* Here the store is used the way its own comments ask for: a single       *)
(* consumer, and a rollback only of the transaction handed out last, whose *)
(* account has not been garbage-collected meanwhile.  Module TxPool puts   *)
(* the real callers around the store and asks whether they keep to it.     *)
(***************************************************************************)
EXTENDS Integers, FiniteSets

CONSTANTS
    Account,      \* initiator addresses; they are ordered, so they are numbers
    Transaction,  \* the L2 transactions that may be inserted
    DbNonce,      \* nonces that Postgres may report for an account
    Capacity,     \* `MempoolConfig::capacity'
    NoTx          \* no transaction

ASSUME MempoolAssumption ==
    /\ Account \subseteq Nat
    /\ Transaction \subseteq [hash : Nat, account : Account,
                              nonce : Nat, received_at_ms : Nat]
    /\ IsFiniteSet(Transaction)  \* 256-bit hashes, 32-bit nonces
    /\ DbNonce \subseteq Nat
    /\ Capacity \in Nat
    /\ NoTx \notin Transaction

VARIABLES
    accounts,      \* keys of `l2_transactions_per_account', with each account's mempool nonce
    transactions,  \* the transactions held for those accounts
    l2_priority_queue,  \* one score per account that is ready to be executed
    size,          \* the counter compared with the capacity
    taken          \* transaction handed to the sequencer and not yet settled

storeVars == <<accounts, transactions, l2_priority_queue, size>>
mempoolVars == <<accounts, transactions, l2_priority_queue, size, taken>>

-----------------------------------------------------------------------------
(* Scores and account maps. *)

Key(tx) == <<tx.account, tx.nonce>>
Keys(S) == {Key(tx) : tx \in S}

\* A set of transactions with at most one transaction per account and nonce.
OnePerNonce(S) == \A t, u \in S : Key(t) = Key(u) => t = u

score_for_transaction(tx) ==
    [account |-> tx.account, received_at_ms |-> tx.received_at_ms]

\* Mutant: the latest arrival is the greatest score.
NotBelow_LatestFirst(s, o) ==
    \/ s.received_at_ms > o.received_at_ms
    \/ s.received_at_ms = o.received_at_ms /\ s.account >= o.account

\* `MempoolScore::cmp': an earlier arrival is greater, ties go to the address.
NotBelow(s, o) ==
    \/ s.received_at_ms < o.received_at_ms
    \/ s.received_at_ms = o.received_at_ms /\ s.account >= o.account

has_next == l2_priority_queue # {}

IsHead(tx) == tx.nonce = accounts[tx.account]

Init ==
    /\ accounts = [a \in {} |-> 0]
    /\ transactions = {}
    /\ l2_priority_queue = {}
    /\ size = 0
    /\ taken = NoTx

-----------------------------------------------------------------------------
(* The methods of the store. *)

\* Accounts after a batch S arrived with the committed nonces `initial_nonces'.
AccountsWith(S, initial_nonces) ==
    [a \in DOMAIN accounts \cup {tx.account : tx \in S} |->
        IF a \in DOMAIN accounts THEN accounts[a]
        ELSE IF a \in DOMAIN initial_nonces THEN initial_nonces[a] ELSE 0]

\* Mutant: a replacement is counted as one more transaction.
Insert_CountsReplaced(S, initial_nonces) ==
    LET nonces   == AccountsWith(S, initial_nonces)
        accepted == {tx \in S : tx.nonce >= nonces[tx.account]}
        replaced == {tx \in transactions : Key(tx) \in Keys(accepted)}
        Ready(T) == {tx \in T : tx.nonce = nonces[tx.account]}
    IN  /\ accounts' = nonces
        /\ transactions' = (transactions \ replaced) \cup accepted
        /\ l2_priority_queue' =
              (l2_priority_queue \ {score_for_transaction(tx) : tx \in Ready(replaced)})
                 \cup {score_for_transaction(tx) : tx \in Ready(accepted)}
        /\ size' = size + Cardinality(accepted)

\* `MempoolStore::insert' of a batch with one transaction per account and
\* nonce.  Old transactions are skipped, one with an occupied nonce replaces
\* the transaction there, a transaction at its account's nonce is queued.
Insert(S, initial_nonces) ==
    LET nonces   == AccountsWith(S, initial_nonces)
        accepted == {tx \in S : tx.nonce >= nonces[tx.account]}
        replaced == {tx \in transactions : Key(tx) \in Keys(accepted)}
        Ready(T) == {tx \in T : tx.nonce = nonces[tx.account]}
    IN  /\ accounts' = nonces
        /\ transactions' = (transactions \ replaced) \cup accepted
        /\ l2_priority_queue' =
              (l2_priority_queue \ {score_for_transaction(tx) : tx \in Ready(replaced)})
                 \cup {score_for_transaction(tx) : tx \in Ready(accepted)}
        /\ size' = size + Cardinality(Keys(accepted) \ Keys(transactions))

\* Mutant: the account's next transaction is not queued.
NextTransaction_ForgetsSuccessor ==
    \E s \in l2_priority_queue, tx \in transactions :
        /\ \A o \in l2_priority_queue : NotBelow(s, o)
        /\ tx.account = s.account
        /\ IsHead(tx)
        /\ accounts' = [accounts EXCEPT ![s.account] = @ + 1]
        /\ transactions' = transactions \ {tx}
        /\ l2_priority_queue' = l2_priority_queue \ {s}
        /\ size' = size - 1
        /\ taken' = tx

\* `MempoolStore::next_transaction': the greatest score names the account.
\* Nothing is ever above that score, so nothing is stashed.
NextTransaction ==
    \E s \in l2_priority_queue, tx \in transactions :
        /\ \A o \in l2_priority_queue : NotBelow(s, o)
        /\ tx.account = s.account
        /\ IsHead(tx)
        /\ accounts' = [accounts EXCEPT ![s.account] = @ + 1]
        /\ transactions' = transactions \ {tx}
        /\ l2_priority_queue' = (l2_priority_queue \ {s}) \cup
              {score_for_transaction(u) : u \in
                 {u \in transactions : Key(u) = <<s.account, tx.nonce + 1>>}}
        /\ size' = size - 1
        /\ taken' = tx

\* Mutant: the successor of the transaction stays queued.
Rollback_KeepsSuccessor(tx) ==
    /\ tx.account \in DOMAIN accounts
    /\ accounts' = [accounts EXCEPT ![tx.account] = IF @ < tx.nonce THEN @ ELSE tx.nonce]
    /\ UNCHANGED <<transactions, l2_priority_queue, size>>

\* Mutant: the account's nonce is not reset.
Rollback_KeepsNonce(tx) ==
    /\ tx.account \in DOMAIN accounts
    /\ l2_priority_queue' = l2_priority_queue \
          {score_for_transaction(u) : u \in
             {u \in transactions : Key(u) = <<tx.account, tx.nonce + 1>>}}
    /\ UNCHANGED <<accounts, transactions, size>>

\* `MempoolStore::rollback': reset the nonce, unqueue the successor.
Rollback(tx) ==
    /\ tx.account \in DOMAIN accounts
    /\ accounts' = [accounts EXCEPT ![tx.account] = IF @ < tx.nonce THEN @ ELSE tx.nonce]
    /\ l2_priority_queue' = l2_priority_queue \
          {score_for_transaction(u) : u \in
             {u \in transactions : Key(u) = <<tx.account, tx.nonce + 1>>}}
    /\ UNCHANGED <<transactions, size>>

\* Mutant: the accounts with a queued score are the ones dropped.
Purged_Queued == IF size >= Capacity
                 THEN DOMAIN accounts \cap {s.account : s \in l2_priority_queue}
                 ELSE {}

\* Accounts that `MempoolStore::gc' drains: a full pool drops every account
\* without a queued score.
Purged == IF size >= Capacity
          THEN DOMAIN accounts \ {s.account : s \in l2_priority_queue}
          ELSE {}

\* Mutant: the counter becomes the number of accounts.
GetMempoolInfo_CountsAccounts ==
    LET kept == {tx \in transactions : tx.account \notin Purged}
    IN  /\ accounts' = [a \in DOMAIN accounts \ Purged |-> accounts[a]]
        /\ transactions' = kept
        /\ size' = IF size >= Capacity THEN Cardinality({tx.account : tx \in kept}) ELSE size
        /\ UNCHANGED l2_priority_queue

\* `MempoolStore::get_mempool_info'.
GetMempoolInfo ==
    LET kept == {tx \in transactions : tx.account \notin Purged}
    IN  /\ accounts' = [a \in DOMAIN accounts \ Purged |-> accounts[a]]
        /\ transactions' = kept
        /\ size' = IF size >= Capacity THEN Cardinality(Keys(kept)) ELSE size
        /\ UNCHANGED l2_priority_queue

-----------------------------------------------------------------------------
(* The store under the contract its callers are to keep. *)

\* The fetcher's batch: some transactions with the nonces Postgres reports.
InsertStep ==
    \E S \in SUBSET Transaction : \E nonces \in [{tx.account : tx \in S} -> DbNonce] :
        /\ OnePerNonce(S)
        /\ Insert(S, nonces)
        /\ UNCHANGED taken

TakeStep == taken = NoTx /\ NextTransaction

\* The transaction was executed.
SettleStep ==
    /\ taken # NoTx
    /\ taken' = NoTx
    /\ UNCHANGED storeVars

\* Only the transaction handed out last is rolled back, and its account's
\* nonce still counts it.
RollbackStep ==
    /\ taken # NoTx
    /\ taken.account \in DOMAIN accounts
    /\ accounts[taken.account] = taken.nonce + 1
    /\ Rollback(taken)
    /\ taken' = NoTx

InfoStep == GetMempoolInfo /\ UNCHANGED taken

Next == InsertStep \/ TakeStep \/ SettleStep \/ RollbackStep \/ InfoStep

Spec == Init /\ [][Next]_mempoolVars

-----------------------------------------------------------------------------
(* Properties. *)

Score == [account : Account, received_at_ms : Nat]

\* The shape of the store: account map, held transactions, queue and counter.
TypeOK ==
    /\ DOMAIN accounts \subseteq Account
    /\ accounts \in [DOMAIN accounts -> Nat]
    /\ transactions \subseteq Transaction
    /\ l2_priority_queue \subseteq Score
    /\ size \in Nat
    /\ taken \in Transaction \cup {NoTx}

\* A held transaction belongs to a known account, is not older than the
\* account's nonce and is alone at its nonce.
HeldByAccounts ==
    /\ \A tx \in transactions : tx.account \in DOMAIN accounts
    /\ \A tx \in transactions : tx.nonce >= accounts[tx.account]
    /\ OnePerNonce(transactions)

\* Every queued score stands for the transaction at its account's nonce: the
\* two `expect's of next_transaction ("dangling pointer in priority queue",
\* "missing transaction in mempool") are never reached.
NoDanglingPointer ==
    \A s \in l2_priority_queue : \E tx \in transactions :
        /\ tx.account = s.account
        /\ tx.account \in DOMAIN accounts
        /\ IsHead(tx)
        /\ score_for_transaction(tx) = s

\* Every transaction at its account's nonce is queued: none is forgotten.
HeadsQueued ==
    \A tx \in transactions :
        (tx.account \in DOMAIN accounts /\ IsHead(tx))
            => score_for_transaction(tx) \in l2_priority_queue

\* The counter that triggers garbage collection is the number of transactions
\* in the per-account maps, so "mempool size can't be negative" holds.
SizeExact == size = Cardinality(Keys(transactions))

\* next_transaction hands out the oldest of all executable transactions.
OldestFirst ==
    [][(taken = NoTx /\ taken' # NoTx) =>
          \A tx \in transactions :
             IsHead(tx) => tx.received_at_ms >= taken'.received_at_ms]_mempoolVars

\* gc never drops a transaction that could be executed next.
GcKeepsExecutable ==
    [][GetMempoolInfo =>
          \A tx \in transactions : IsHead(tx) => tx \in transactions']_mempoolVars
=============================================================================
