--------------------------- MODULE MempoolProofs ---------------------------
(***************************************************************************)
(* Machine-checked proofs about Mempool, for every set of accounts and     *)
(* transactions and every capacity.  The inductive invariant is            *)
(* StoreInv: the queue is exact (no dangling pointer, no forgotten head)   *)
(* only together with the facts that no held transaction is older than     *)
(* its account's nonce and that nonces are unique, because a rollback      *)
(* unqueues the successor by its nonce and not by its account; and the     *)
(* size counter stays a natural number only because it is exact.           *)
(***************************************************************************)
EXTENDS Mempool, FiniteSetTheorems, TLAPS

StoreInv == TypeOK /\ HeldByAccounts /\ NoDanglingPointer /\ HeadsQueued /\ SizeExact

\* The fields of a transaction have the types the constants promise.
LEMMA TransactionType ==
    ASSUME NEW tx \in Transaction
    PROVE  /\ tx.account \in Account
           /\ tx.nonce \in Nat
           /\ tx.received_at_ms \in Nat
           /\ score_for_transaction(tx) \in Score
           /\ tx # NoTx
BY MempoolAssumption DEF score_for_transaction, Score

\* Finitely many transactions have finitely many (account, nonce) keys.
LEMMA KeysFinite ==
    ASSUME NEW S \in SUBSET Transaction
    PROVE  IsFiniteSet(Keys(S)) /\ Cardinality(Keys(S)) \in Nat
<1> DEFINE f == [tx \in S |-> Key(tx)]
<1>1. IsFiniteSet(S)
  BY MempoolAssumption, FS_Subset
<1>2. f \in Surjection(S, Keys(S))
  BY DEF Surjection, Keys
<1> QED BY <1>1, <1>2, FS_Surjection, FS_CardinalityType

\* The cardinality of a disjoint union.
LEMMA DisjointUnion ==
    ASSUME NEW A, NEW B, IsFiniteSet(A), IsFiniteSet(B), A \cap B = {}
    PROVE  Cardinality(A \cup B) = Cardinality(A) + Cardinality(B)
<1>1. Cardinality(A \cup B) = Cardinality(A) + Cardinality(B) - Cardinality(A \cap B)
  BY FS_Union
<1>2. Cardinality(A \cap B) = 0
  BY FS_EmptySet
<1>3. Cardinality(A) \in Nat /\ Cardinality(B) \in Nat
  BY FS_CardinalityType
<1> QED BY <1>1, <1>2, <1>3

\* The empty store of MempoolStore::new satisfies the invariant.
LEMMA InitStoreInv == Init => StoreInv
<1> SUFFICES ASSUME Init PROVE StoreInv
  OBVIOUS
<1>1. SizeExact
  <2>1. Keys(transactions) = {}
    BY DEF Init, Keys
  <2> QED BY <2>1, FS_EmptySet DEF Init, SizeExact
<1> QED BY <1>1 DEF Init, StoreInv, TypeOK, HeldByAccounts, NoDanglingPointer,
                    HeadsQueued, OnePerNonce

\* Inserting a batch (MempoolStore::insert) keeps the queue exact, whatever
\* nonces come with it.
LEMMA InsertKeeps ==
    ASSUME StoreInv, NEW S \in SUBSET Transaction, OnePerNonce(S),
           NEW db, \A a \in DOMAIN db : db[a] \in Nat,
           Insert(S, db), UNCHANGED taken
    PROVE  StoreInv'
<1> USE DEF StoreInv, TypeOK
<1>1. OnePerNonce(S) /\ Insert(S, db) /\ UNCHANGED taken
  OBVIOUS
<1> DEFINE nonces   == AccountsWith(S, db)
           accepted == {tx \in S : tx.nonce >= nonces[tx.account]}
           replaced == {tx \in transactions : Key(tx) \in Keys(accepted)}
           Ready(T) == {tx \in T : tx.nonce = nonces[tx.account]}
<1>2. /\ accounts' = nonces
      /\ transactions' = (transactions \ replaced) \cup accepted
      /\ l2_priority_queue' =
            (l2_priority_queue \ {score_for_transaction(tx) : tx \in Ready(replaced)})
               \cup {score_for_transaction(tx) : tx \in Ready(accepted)}
      /\ size' = size + Cardinality(Keys(accepted) \ Keys(transactions))
  BY <1>1 DEF Insert
<1>3. /\ DOMAIN nonces = DOMAIN accounts \cup {tx.account : tx \in S}
      /\ \A a \in DOMAIN accounts : nonces[a] = accounts[a]
      /\ DOMAIN nonces \subseteq Account
      /\ \A a \in DOMAIN nonces : nonces[a] \in Nat
      /\ nonces \in [DOMAIN nonces -> Nat]
  BY MempoolAssumption, TransactionType DEF AccountsWith
<1>4. \A tx \in S : tx.account \in DOMAIN nonces
  BY <1>3
<1> HIDE DEF nonces
<1>5. TypeOK'
  <2>1. Cardinality(Keys(accepted) \ Keys(transactions)) \in Nat
    <3>1. IsFiniteSet(Keys(accepted))
      BY KeysFinite
    <3> QED BY <3>1, FS_Difference, FS_CardinalityType
  <2>2. l2_priority_queue' \subseteq Score
    BY <1>2, TransactionType
  <2> QED BY <1>1, <1>2, <1>3, <2>1, <2>2
<1>6. HeldByAccounts'
  <2>1. \A tx \in transactions' : tx.account \in DOMAIN accounts'
    BY <1>2, <1>3, <1>4 DEF HeldByAccounts
  <2>2. \A tx \in transactions' : tx.nonce >= accounts'[tx.account]
    BY <1>2, <1>3, <1>4 DEF HeldByAccounts
  <2>3. OnePerNonce(transactions')
    BY <1>1, <1>2 DEF OnePerNonce, HeldByAccounts, Keys
  <2> QED BY <2>1, <2>2, <2>3 DEF HeldByAccounts
<1>7. NoDanglingPointer'
  <2> SUFFICES ASSUME NEW s \in l2_priority_queue'
               PROVE  \E tx \in transactions' :
                         /\ tx.account = s.account
                         /\ tx.account \in DOMAIN accounts'
                         /\ tx.nonce = accounts'[tx.account]
                         /\ score_for_transaction(tx) = s
    BY DEF NoDanglingPointer, IsHead
  <2>1. CASE s \in {score_for_transaction(tx) : tx \in Ready(accepted)}
    BY <2>1, <1>2, <1>4 DEF score_for_transaction
  <2>2. CASE /\ s \in l2_priority_queue
             /\ s \notin {score_for_transaction(tx) : tx \in Ready(replaced)}
    <3>1. PICK tx \in transactions :
             /\ tx.account = s.account
             /\ tx.account \in DOMAIN accounts
             /\ tx.nonce = accounts[tx.account]
             /\ score_for_transaction(tx) = s
      BY <2>2 DEF NoDanglingPointer, IsHead
    <3>2. tx \notin replaced
      BY <3>1, <2>2, <1>3
    <3> QED BY <3>1, <3>2, <1>2, <1>3
  <2> QED BY <2>1, <2>2, <1>2
<1>8. HeadsQueued'
  <2> SUFFICES ASSUME NEW tx \in transactions',
                      tx.account \in DOMAIN accounts',
                      tx.nonce = accounts'[tx.account]
               PROVE  score_for_transaction(tx) \in l2_priority_queue'
    BY DEF HeadsQueued, IsHead
  <2>1. CASE tx \in accepted
    BY <2>1, <1>2
  <2>2. CASE tx \in transactions /\ tx \notin replaced
    <3>1. score_for_transaction(tx) \in l2_priority_queue
      BY <2>2, <1>2, <1>3 DEF HeadsQueued, HeldByAccounts, IsHead
    <3>2. ASSUME NEW u \in Ready(replaced),
                 score_for_transaction(u) = score_for_transaction(tx)
          PROVE  FALSE
      <4>1. u \in transactions /\ u.account = tx.account /\ u.nonce = tx.nonce
        BY <3>2, <1>2 DEF score_for_transaction
      <4>2. u = tx
        BY <4>1, <2>2 DEF HeldByAccounts, OnePerNonce, Key
      <4> QED BY <4>2, <2>2, <3>2
    <3> QED BY <3>1, <3>2, <1>2
  <2> QED BY <2>1, <2>2, <1>2
<1>9. SizeExact'
  <2> DEFINE old == Keys(transactions)
             new == Keys(accepted) \ Keys(transactions)
  <2>1. Keys(transactions') = old \cup new
    BY <1>2 DEF Keys
  <2>2. IsFiniteSet(old) /\ IsFiniteSet(new) /\ Cardinality(old) \in Nat /\ Cardinality(new) \in Nat
    BY KeysFinite, FS_Difference, FS_CardinalityType
  <2>3. old \cap new = {}
    OBVIOUS
  <2>4. Cardinality(old \cup new) = Cardinality(old) + Cardinality(new)
    BY <2>2, <2>3, DisjointUnion
  <2> QED BY <2>1, <2>4, <1>2 DEF SizeExact
<1> QED BY <1>5, <1>6, <1>7, <1>8, <1>9

\* The fetcher's batch comes with the nonces that Postgres reports.
LEMMA InsertStoreInv == StoreInv /\ InsertStep => StoreInv'
<1> SUFFICES ASSUME StoreInv, InsertStep PROVE StoreInv'
  OBVIOUS
<1>1. PICK S \in SUBSET Transaction : \E nn \in [{tx.account : tx \in S} -> DbNonce] :
         OnePerNonce(S) /\ Insert(S, nn) /\ UNCHANGED taken
  BY DEF InsertStep
<1>2. PICK db \in [{tx.account : tx \in S} -> DbNonce] :
         OnePerNonce(S) /\ Insert(S, db) /\ UNCHANGED taken
  BY <1>1
<1>3. \A a \in DOMAIN db : db[a] \in Nat
  BY MempoolAssumption
<1> QED BY <1>2, <1>3, InsertKeeps

\* Handing out a transaction (MempoolStore::next_transaction) keeps the queue
\* exact: the account's score is replaced by the score of its next transaction.
LEMMA TakeStoreInv == StoreInv /\ TakeStep => StoreInv'
<1> SUFFICES ASSUME StoreInv, TakeStep PROVE StoreInv'
  OBVIOUS
<1> USE DEF StoreInv, TypeOK
<1>1. PICK s \in l2_priority_queue, tx \in transactions :
        /\ tx.account = s.account
        /\ IsHead(tx)
        /\ accounts' = [accounts EXCEPT ![s.account] = @ + 1]
        /\ transactions' = transactions \ {tx}
        /\ l2_priority_queue' = (l2_priority_queue \ {s}) \cup
              {score_for_transaction(u) : u \in
                 {u \in transactions : Key(u) = <<s.account, tx.nonce + 1>>}}
        /\ size' = size - 1
        /\ taken' = tx
  BY DEF TakeStep, NextTransaction
<1>2. tx \in Transaction /\ tx.account \in DOMAIN accounts /\ tx.nonce = accounts[tx.account]
  BY <1>1 DEF HeldByAccounts, IsHead
<1>3. score_for_transaction(tx) = s
  <2>1. PICK u \in transactions : u.account = s.account /\ IsHead(u) /\ score_for_transaction(u) = s
    BY DEF NoDanglingPointer
  <2>2. u = tx
    BY <2>1, <1>1, <1>2 DEF HeldByAccounts, OnePerNonce, Key, IsHead
  <2> QED BY <2>1, <2>2
<1>4. /\ DOMAIN accounts' = DOMAIN accounts
      /\ accounts'[tx.account] = tx.nonce + 1
      /\ \A a \in DOMAIN accounts : a # tx.account => accounts'[a] = accounts[a]
      /\ accounts' \in [DOMAIN accounts' -> Nat]
  BY <1>1, <1>2
<1>5. SizeExact' /\ size' \in Nat
  <2>1. Keys(transactions') = Keys(transactions) \ {Key(tx)}
    BY <1>1 DEF Keys, HeldByAccounts, OnePerNonce
  <2>2. Key(tx) \in Keys(transactions)
    BY DEF Keys
  <2>3. IsFiniteSet(Keys(transactions)) /\ IsFiniteSet(Keys(transactions'))
    BY KeysFinite, <1>1
  <2>4. Cardinality(Keys(transactions')) = Cardinality(Keys(transactions)) - 1
    BY <2>1, <2>2, <2>3, FS_RemoveElement
  <2>5. Cardinality(Keys(transactions')) \in Nat
    BY <2>3, FS_CardinalityType
  <2> QED BY <2>4, <2>5, <1>1 DEF SizeExact
<1>6. TypeOK'
  <2>1. l2_priority_queue' \subseteq Score
    BY <1>1, TransactionType
  <2> QED BY <1>1, <1>2, <1>4, <1>5, <2>1
<1>7. HeldByAccounts'
  <2>1. ASSUME NEW u \in transactions' PROVE u.nonce >= accounts'[u.account]
    <3>1. u \in Transaction /\ u.account \in DOMAIN accounts /\ u.nonce >= accounts[u.account]
      BY <1>1 DEF HeldByAccounts
    <3>2. CASE u.account = tx.account
      <4>1. u.nonce # tx.nonce
        BY <3>2, <2>1, <1>1 DEF HeldByAccounts, OnePerNonce, Key
      <4> QED BY <4>1, <3>1, <3>2, <1>2, <1>4, TransactionType
    <3> QED BY <3>1, <3>2, <1>4
  <2>2. (\A u \in transactions' : u.account \in DOMAIN accounts') /\ OnePerNonce(transactions')
    BY <1>1, <1>4 DEF HeldByAccounts, OnePerNonce
  <2> QED BY <2>1, <2>2 DEF HeldByAccounts
<1>8. NoDanglingPointer'
  <2> SUFFICES ASSUME NEW o \in l2_priority_queue'
               PROVE  \E u \in transactions' :
                         /\ u.account = o.account
                         /\ u.account \in DOMAIN accounts'
                         /\ u.nonce = accounts'[u.account]
                         /\ score_for_transaction(u) = o
    BY DEF NoDanglingPointer, IsHead
  <2>1. CASE o \in l2_priority_queue /\ o # s
    <3>1. PICK u \in transactions : /\ u.account = o.account
                                    /\ u.account \in DOMAIN accounts
                                    /\ u.nonce = accounts[u.account]
                                    /\ score_for_transaction(u) = o
      BY <2>1 DEF NoDanglingPointer, IsHead
    <3>2. u.account # tx.account
      BY <3>1, <2>1, <1>2, <1>3 DEF HeldByAccounts, OnePerNonce, Key
    <3> QED BY <3>1, <3>2, <1>1, <1>4
  <2>2. CASE \E u \in transactions : /\ Key(u) = <<s.account, tx.nonce + 1>>
                                     /\ o = score_for_transaction(u)
    <3>1. PICK u \in transactions : /\ Key(u) = <<s.account, tx.nonce + 1>>
                                    /\ o = score_for_transaction(u)
      BY <2>2
    <3>2. u.account = tx.account /\ u.nonce = tx.nonce + 1
      BY <3>1, <1>1 DEF Key
    <3>3. u # tx
      BY <3>2, <1>2, TransactionType
    <3> QED BY <3>1, <3>2, <3>3, <1>1, <1>2, <1>4 DEF score_for_transaction
  <2> QED BY <2>1, <2>2, <1>1
<1>9. HeadsQueued'
  <2> SUFFICES ASSUME NEW u \in transactions',
                      u.account \in DOMAIN accounts',
                      u.nonce = accounts'[u.account]
               PROVE  score_for_transaction(u) \in l2_priority_queue'
    BY DEF HeadsQueued, IsHead
  <2>1. CASE u.account = tx.account
    BY <2>1, <1>1, <1>4 DEF Key
  <2>2. CASE u.account # tx.account
    <3>1. score_for_transaction(u) \in l2_priority_queue
      BY <2>2, <1>1, <1>4 DEF HeadsQueued, IsHead
    <3>2. score_for_transaction(u) # s
      BY <2>2, <1>3 DEF score_for_transaction
    <3> QED BY <3>1, <3>2, <1>1
  <2> QED BY <2>1, <2>2
<1> QED BY <1>5, <1>6, <1>7, <1>8, <1>9

\* Rolling back the transaction handed out last (MempoolStore::rollback) keeps
\* the queue exact: the score it removes is the account's, if it had one.
LEMMA RollbackStoreInv == StoreInv /\ RollbackStep => StoreInv'
<1> SUFFICES ASSUME StoreInv, RollbackStep PROVE StoreInv'
  OBVIOUS
<1> USE DEF StoreInv, TypeOK
<1> DEFINE a == taken.account
<1>1. /\ taken \in Transaction /\ a \in DOMAIN accounts
      /\ accounts[a] = taken.nonce + 1 /\ taken.nonce \in Nat
  BY TransactionType DEF RollbackStep
<1>2. /\ accounts' = [accounts EXCEPT ![a] = taken.nonce]
      /\ transactions' = transactions /\ size' = size /\ taken' = NoTx
      /\ l2_priority_queue' = l2_priority_queue \
            {score_for_transaction(u) : u \in
               {u \in transactions : Key(u) = <<a, taken.nonce + 1>>}}
  <2>1. ~(accounts[a] < taken.nonce)
    BY <1>1
  <2>2. accounts' = [accounts EXCEPT ![a] = IF accounts[a] < taken.nonce THEN accounts[a] ELSE taken.nonce]
    BY DEF RollbackStep, Rollback
  <2> QED BY <2>1, <2>2 DEF RollbackStep, Rollback
<1>3. /\ DOMAIN accounts' = DOMAIN accounts
      /\ accounts'[a] = taken.nonce
      /\ \A b \in DOMAIN accounts : b # a => accounts'[b] = accounts[b]
      /\ accounts' \in [DOMAIN accounts' -> Nat]
  BY <1>1, <1>2
<1> HIDE DEF a
<1>4. TypeOK'
  BY <1>2, <1>3
<1>5. HeldByAccounts'
  <2>1. ASSUME NEW u \in transactions' PROVE u.nonce >= accounts'[u.account]
    <3>1. u \in Transaction /\ u.account \in DOMAIN accounts /\ u.nonce >= accounts[u.account]
      BY <1>2 DEF HeldByAccounts
    <3> QED BY <3>1, <1>1, <1>3, TransactionType
  <2> QED BY <2>1, <1>2, <1>3 DEF HeldByAccounts, OnePerNonce
<1>6. NoDanglingPointer'
  <2> SUFFICES ASSUME NEW o \in l2_priority_queue'
               PROVE  \E u \in transactions' :
                         /\ u.account = o.account
                         /\ u.account \in DOMAIN accounts'
                         /\ u.nonce = accounts'[u.account]
                         /\ score_for_transaction(u) = o
    BY DEF NoDanglingPointer, IsHead
  <2>1. PICK u \in transactions : /\ u.account = o.account
                                  /\ u.account \in DOMAIN accounts
                                  /\ u.nonce = accounts[u.account]
                                  /\ score_for_transaction(u) = o
    BY <1>2 DEF NoDanglingPointer, IsHead
  <2>2. u.account # a
    BY <2>1, <1>1, <1>2 DEF Key
  <2> QED BY <2>1, <2>2, <1>2, <1>3
<1>7. HeadsQueued'
  <2> SUFFICES ASSUME NEW u \in transactions',
                      u.account \in DOMAIN accounts',
                      u.nonce = accounts'[u.account]
               PROVE  score_for_transaction(u) \in l2_priority_queue'
    BY DEF HeadsQueued, IsHead
  <2>1. u.account # a
    BY <1>1, <1>2, <1>3 DEF HeldByAccounts
  <2>2. score_for_transaction(u) \in l2_priority_queue
    BY <2>1, <1>2, <1>3 DEF HeadsQueued, IsHead
  <2> QED BY <2>1, <2>2, <1>2 DEF score_for_transaction, Key
<1>8. SizeExact'
  BY <1>2 DEF SizeExact, Keys
<1> QED BY <1>4, <1>5, <1>6, <1>7, <1>8

\* Garbage collection (MempoolStore::gc) drops only accounts without a score.
LEMMA InfoStoreInv == StoreInv /\ InfoStep => StoreInv'
<1> SUFFICES ASSUME StoreInv, InfoStep PROVE StoreInv'
  OBVIOUS
<1> USE DEF StoreInv, TypeOK
<1> DEFINE kept == {tx \in transactions : tx.account \notin Purged}
<1>1. /\ accounts' = [a \in DOMAIN accounts \ Purged |-> accounts[a]]
      /\ transactions' = kept
      /\ size' = IF size >= Capacity THEN Cardinality(Keys(kept)) ELSE size
      /\ l2_priority_queue' = l2_priority_queue /\ taken' = taken
  BY DEF InfoStep, GetMempoolInfo
<1>2. \A s \in l2_priority_queue : s.account \notin Purged
  BY DEF Purged
<1>3. SizeExact' /\ size' \in Nat
  <2>1. CASE size >= Capacity
    BY <2>1, <1>1, KeysFinite DEF SizeExact
  <2>2. CASE ~(size >= Capacity)
    <3>1. transactions' = transactions
      BY <2>2, <1>1 DEF Purged
    <3> QED BY <3>1, <2>2, <1>1 DEF SizeExact, Keys
  <2> QED BY <2>1, <2>2
<1>4. TypeOK'
  BY <1>1, <1>3
<1>5. HeldByAccounts'
  BY <1>1 DEF HeldByAccounts, OnePerNonce
<1>6. NoDanglingPointer'
  BY <1>1, <1>2 DEF NoDanglingPointer, IsHead
<1>7. HeadsQueued'
  BY <1>1 DEF HeadsQueued, IsHead
<1> QED BY <1>3, <1>4, <1>5, <1>6, <1>7

\* Every method of the store keeps the inductive invariant.
LEMMA NextStoreInv == StoreInv /\ [Next]_mempoolVars => StoreInv'
<1> SUFFICES ASSUME StoreInv, [Next]_mempoolVars PROVE StoreInv'
  OBVIOUS
<1>1. CASE SettleStep \/ UNCHANGED mempoolVars
  BY <1>1 DEF StoreInv, SettleStep, storeVars, mempoolVars, TypeOK, HeldByAccounts,
              NoDanglingPointer, HeadsQueued, SizeExact, OnePerNonce, IsHead, Keys
<1> QED BY <1>1, InsertStoreInv, TakeStoreInv, RollbackStoreInv, InfoStoreInv DEF Next

\* The inductive invariant holds in every reachable state of the store.
THEOREM StoreInvariant == Spec => []StoreInv
BY InitStoreInv, NextStoreInv, PTL DEF Spec

\* The store keeps its shape, under every sequence of calls that respects the
\* contract; in particular the size counter never goes below zero.
THEOREM TypeCorrect == Spec => []TypeOK
BY StoreInvariant, PTL DEF StoreInv

\* The priority queue of MempoolStore holds exactly the scores of the
\* transactions at their account's nonce: no `expect' of next_transaction
\* fails, and no executable transaction is forgotten.
THEOREM QueueExact == Spec => [](NoDanglingPointer /\ HeadsQueued)
BY StoreInvariant, PTL DEF StoreInv

\* No executable transaction is forgotten: what insert, next_transaction and
\* rollback leave at its account's nonce is in the priority queue.
THEOREM HeadsAreQueued == Spec => []HeadsQueued
BY StoreInvariant, PTL DEF StoreInv

\* The counter that next_transaction decrements with checked_sub and gc compares
\* with the capacity is the number of held transactions.
THEOREM SizeIsExact == Spec => []SizeExact
BY StoreInvariant, PTL DEF StoreInv

\* next_transaction hands out an oldest transaction among the executable ones.
THEOREM TakesOldest == Spec => OldestFirst
<1>1. ASSUME StoreInv, [Next]_mempoolVars, taken = NoTx, taken' # NoTx,
             NEW tx \in transactions, IsHead(tx)
      PROVE  tx.received_at_ms >= taken'.received_at_ms
  <2>1. TakeStep
    BY <1>1 DEF Next, InsertStep, SettleStep, RollbackStep, InfoStep, mempoolVars
  <2>2. PICK s \in l2_priority_queue, u \in transactions :
           /\ \A o \in l2_priority_queue : NotBelow(s, o)
           /\ u.account = s.account /\ IsHead(u) /\ taken' = u
    BY <2>1 DEF TakeStep, NextTransaction
  <2>3. PICK w \in transactions : w.account = s.account /\ IsHead(w) /\ score_for_transaction(w) = s
    BY <1>1 DEF StoreInv, NoDanglingPointer
  <2>4. w = u
    BY <2>2, <2>3, <1>1 DEF StoreInv, HeldByAccounts, OnePerNonce, Key, IsHead
  <2>5. score_for_transaction(tx) \in l2_priority_queue
    BY <1>1 DEF StoreInv, HeldByAccounts, HeadsQueued
  <2>6. NotBelow(s, score_for_transaction(tx))
    BY <2>2, <2>5
  <2>7. tx \in Transaction /\ u \in Transaction
    BY <1>1, <2>2 DEF StoreInv, TypeOK
  <2>8. u.received_at_ms <= tx.received_at_ms
    <3>1. s.received_at_ms = u.received_at_ms
      BY <2>3, <2>4 DEF score_for_transaction
    <3>2. score_for_transaction(tx).received_at_ms = tx.received_at_ms
      BY DEF score_for_transaction
    <3>3. u.received_at_ms \in Nat /\ tx.received_at_ms \in Nat
      BY <2>7, TransactionType
    <3> QED BY <3>1, <3>2, <3>3, <2>6 DEF NotBelow
  <2> QED BY <2>2, <2>8, <2>7, TransactionType
<1>2. StoreInv /\ [Next]_mempoolVars =>
        [(taken = NoTx /\ taken' # NoTx) =>
            \A tx \in transactions : IsHead(tx) => tx.received_at_ms >= taken'.received_at_ms]_mempoolVars
  BY <1>1
<1> QED BY <1>2, StoreInvariant, PTL DEF Spec, OldestFirst

\* gc drops only transactions that could not be executed next.
THEOREM GcSpares == Spec => GcKeepsExecutable
<1>1. ASSUME StoreInv, GetMempoolInfo, NEW tx \in transactions, IsHead(tx)
      PROVE  tx \in transactions'
  <2>1. score_for_transaction(tx) \in l2_priority_queue
    BY <1>1 DEF StoreInv, HeldByAccounts, HeadsQueued
  <2>2. score_for_transaction(tx).account = tx.account
    BY DEF score_for_transaction
  <2>3. tx.account \notin Purged
    BY <2>1, <2>2 DEF Purged
  <2> QED BY <2>3, <1>1 DEF GetMempoolInfo
<1>2. StoreInv => [GetMempoolInfo =>
          \A tx \in transactions : IsHead(tx) => tx \in transactions']_mempoolVars
  BY <1>1
<1> QED BY <1>2, StoreInvariant, PTL DEF GcKeepsExecutable
=============================================================================
