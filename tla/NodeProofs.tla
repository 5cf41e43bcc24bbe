----------------------------- MODULE NodeProofs -----------------------------
(***************************************************************************)
(* Machine-checked proofs about the API of the node, for any number of     *)
(* requests, subscriptions, accounts, nonces and miniblocks and any set of *)
(* components.                                                             *)
(*                                                                         *)
(* SubsInv: a subscriber of proofs has seen a run of them, and its         *)
(* receiver stands behind the last.  It gives SubscriberSeesNoGap.         *)
(*                                                                         *)
(* TablesInv: the nonce of an account never falls; below it, every         *)
(* transaction has its executed row, in its place of its miniblock, unless *)
(* the account was purged while the transaction was in memory; and what a  *)
(* request has read in an older state still bounds it.  It gives           *)
(* PendingNonceIsAtomic and, with AheadInv, WaitingIsAdmissible.           *)
(*                                                                         *)
(* ReceiptsInv: a request for receipts has rows that were once true, and   *)
(* of an executed transaction nothing but the error is ever changed.  With *)
(* the fact that a hash covers account and nonce it gives ReceiptsAreWhole.*)
(***************************************************************************)
EXTENDS Node, WellFoundedInduction, TLAPS

-----------------------------------------------------------------------------
(* Subscriptions. *)

\* Every message is one more than the message before it.
Gapless(seen) == \A i \in 1 .. Len(seen) - 1 : seen[i + 1] = seen[i] + 1

\* A subscription, and what a subscriber of proofs has seen: its receiver
\* stands behind the last of it.
SubscriptionOk(r) ==
    /\ r = [pc |-> r.pc, topic |-> r.topic, next |-> r.next, seen |-> r.seen]
    /\ r.pc \in {"idle", "accepted"} => r.seen = << >>
    /\ r.topic = "l1_batch_proofs" =>
         /\ r.seen \in Seq(Nat) /\ Gapless(r.seen)
         /\ r.pc = "receiving" =>
              /\ r.next \in Nat
              /\ r.seen # << >> => r.seen[Len(r.seen)] + 1 = r.next

\* The inductive invariant of the subscriptions.
SubsInv ==
    /\ published \in Nat
    /\ DOMAIN subs = Subscriber
    /\ \A s \in Subscriber : SubscriptionOk(subs[s])

\* The subscriptions and their channel change in six ways.
LEMMA SubsSteps ==
    ASSUME [Next]_vars
    PROVE  \/ Notify \/ MainReturns
           \/ \E s \in Subscriber :
                 Subscribe(s) \/ Attach(s) \/ RunSubscriber(s) \/ Unsubscribe(s)
           \/ UNCHANGED << published, subs >>
<1>1. CASE UNCHANGED vars
  BY <1>1 DEF vars, netVars, pubsubVars
<1>2. CASE Alone(Servers)
  BY <1>2 DEF Alone, Servers, Environment, Serve, StartHttp, StopHttp, HttpStopped, StartWs, StopWs,
     WsStopped, Accept, Handle, Drop, pubsubVars
<1>3. CASE Main \/ Interrupt
  BY <1>3 DEF Main, GenesisInit, InitializeComponents, NoticeTaskEnd, Interrupt, Exit,
     pubsubVars, netVars
<1>4. CASE SequencerTask
  BY <1>4 DEF SequencerTask, LoadPendingBatch, WaitForNewBatchParams, LoadPreviousL1BatchHash,
     InitBatch, CloseBatch, ExecuteTx, ExecutorLost, SealMiniblock_Submit,
     WaitForNewMiniblockParams, FinishBatch, SealL1Batch, Canceled, Only_sequencer, pubsubVars,
     netVars
<1>5. CASE ExecutorThread \/ SealerTask \/ TreeSteps \/ UpdaterEnds
           \/ \E t \in DOMAIN task : TaskStops(t)
  BY <1>5 DEF ExecutorThread, ExecutorTx, ExecutorFinish, ExecutorDisconnected, SealerTask,
     SealerSeals, SealerDisconnected, TreeSteps, UpdaterEnds, TaskStops, pubsubVars, netVars
<1> QED BY <1>1, <1>2, <1>3, <1>4, <1>5 DEF Next

\* Sending the next message leaves no gap.
LEMMA AppendGapless ==
    ASSUME NEW seen \in Seq(Nat), NEW n \in Nat, Gapless(seen),
           seen # << >> => seen[Len(seen)] + 1 = n
    PROVE  Append(seen, n) \in Seq(Nat) /\ Gapless(Append(seen, n))
BY DEF Gapless

\* A subscription that ends keeps what it has seen.
LEMMA EndedOk ==
    ASSUME NEW r, SubscriptionOk(r)
    PROVE  /\ SubscriptionOk([r EXCEPT !.pc = "ended"])
           /\ SubscriptionOk([r EXCEPT !.pc = "ended", !.next = NONE])
<1>1. PICK q : q = [r EXCEPT !.pc = "ended"]
  OBVIOUS
<1>2. /\ q = [pc |-> q.pc, topic |-> q.topic, next |-> q.next, seen |-> q.seen]
      /\ q.pc = "ended" /\ q.topic = r.topic /\ q.seen = r.seen
  BY <1>1 DEF SubscriptionOk
<1>3. PICK e : e = [r EXCEPT !.pc = "ended", !.next = NONE]
  OBVIOUS
<1>4. /\ e = [pc |-> e.pc, topic |-> e.topic, next |-> e.next, seen |-> e.seen]
      /\ e.pc = "ended" /\ e.topic = r.topic /\ e.seen = r.seen
  BY <1>3 DEF SubscriptionOk
<1>5. SubscriptionOk(q) /\ SubscriptionOk(e)
  BY <1>2, <1>4 DEF SubscriptionOk
<1> QED BY <1>1, <1>3, <1>5, Zenon

\* What a step of the subscription's task makes of it.
LEMMA SubscriptionSteps ==
    ASSUME NEW r, SubscriptionOk(r), NEW q, NEW n \in Nat, NEW t,
           \/ q = [NewSubscription EXCEPT !.topic = t, !.pc = "ended"]
           \/ q = [NewSubscription EXCEPT !.topic = t, !.pc = "accepted"]
           \/ /\ r.pc = "accepted" /\ r.topic = "syncing"
              /\ q = [[r EXCEPT !.pc = "ended", !.next = NONE] EXCEPT !.seen = << "false" >>]
           \/ r.pc = "accepted" /\ q = [r EXCEPT !.pc = "receiving", !.next = n + 1]
           \/ /\ r.pc = "receiving" /\ r.topic = "l1_batch_proofs"
              /\ q = [r EXCEPT !.next = r.next + 1, !.seen = Append(r.seen, r.next)]
    PROVE  SubscriptionOk(q)
<1>1. CASE \/ q = [NewSubscription EXCEPT !.topic = t, !.pc = "ended"]
           \/ q = [NewSubscription EXCEPT !.topic = t, !.pc = "accepted"]
  <2>1. q = [pc |-> q.pc, topic |-> q.topic, next |-> q.next, seen |-> q.seen]
        /\ q.seen = << >> /\ q.pc # "receiving"
    BY <1>1 DEF NewSubscription
  <2> QED BY <2>1 DEF SubscriptionOk, Gapless
<1>2. CASE /\ r.pc = "accepted" /\ r.topic = "syncing"
           /\ q = [[r EXCEPT !.pc = "ended", !.next = NONE] EXCEPT !.seen = << "false" >>]
  <2>1. q = [pc |-> q.pc, topic |-> q.topic, next |-> q.next, seen |-> q.seen]
        /\ q.topic = "syncing" /\ q.pc = "ended"
    BY <1>2 DEF SubscriptionOk
  <2> QED BY <2>1 DEF SubscriptionOk
<1>3. CASE r.pc = "accepted" /\ q = [r EXCEPT !.pc = "receiving", !.next = n + 1]
  <2>1. q = [pc |-> q.pc, topic |-> q.topic, next |-> q.next, seen |-> q.seen]
        /\ q.seen = << >> /\ q.next = n + 1 /\ q.pc = "receiving"
    BY <1>3 DEF SubscriptionOk
  <2> QED BY <2>1 DEF SubscriptionOk, Gapless
<1>4. CASE /\ r.pc = "receiving" /\ r.topic = "l1_batch_proofs"
           /\ q = [r EXCEPT !.next = r.next + 1, !.seen = Append(r.seen, r.next)]
  <2>1. q = [pc |-> q.pc, topic |-> q.topic, next |-> q.next, seen |-> q.seen]
        /\ q.seen = Append(r.seen, r.next) /\ q.next = r.next + 1 /\ q.pc = r.pc
    BY <1>4 DEF SubscriptionOk
  <2>2. PICK seen, m : seen = r.seen /\ m = r.next
    OBVIOUS
  <2>3. seen \in Seq(Nat) /\ Gapless(seen) /\ m \in Nat /\ (seen # << >> => seen[Len(seen)] + 1 = m)
    BY <1>4, <2>2 DEF SubscriptionOk
  <2>4. Append(seen, m) \in Seq(Nat) /\ Gapless(Append(seen, m))
    BY <2>3, AppendGapless
  <2>5. Append(seen, m)[Len(Append(seen, m))] + 1 = m + 1 /\ m + 1 \in Nat
    BY <2>3
  <2> QED BY <1>4, <2>1, <2>2, <2>4, <2>5 DEF SubscriptionOk
<1> QED BY <1>1, <1>2, <1>3, <1>4

\* Every step of the node keeps the subscriptions in order.
LEMMA SubsStep == SubsInv /\ [Next]_vars => SubsInv'
<1> SUFFICES ASSUME SubsInv, [Next]_vars PROVE SubsInv'
  OBVIOUS
<1>1. CASE Notify
  BY <1>1 DEF Notify, SubsInv
<1>2. CASE MainReturns
  BY <1>2, EndedOk DEF MainReturns, SubsInv
<1>3. CASE UNCHANGED << published, subs >>
  BY <1>3 DEF SubsInv
<1>4. ASSUME NEW s \in Subscriber, Subscribe(s) \/ Attach(s) \/ RunSubscriber(s) \/ Unsubscribe(s)
      PROVE  SubsInv'
  <2>1. published' = published /\ published \in Nat /\ SubscriptionOk(subs[s])
    BY <1>4 DEF Subscribe, Attach, RunSubscriber, Unsubscribe, SubsInv
  <2>2. SubscriptionOk(End(s))
    BY <2>1, EndedOk DEF End
  <2>3. CASE Subscribe(s)
    <3>1. PICK t \in Topic : \/ Become_sub(s, [NewSubscription EXCEPT !.topic = t, !.pc = "ended"])
                             \/ Become_sub(s, [NewSubscription EXCEPT !.topic = t,
                                                                     !.pc = "accepted"])
      BY <2>3 DEF Subscribe
    <3>2. PICK q : /\ subs' = [subs EXCEPT ![s] = q]
                   /\ \/ q = [NewSubscription EXCEPT !.topic = t, !.pc = "ended"]
                      \/ q = [NewSubscription EXCEPT !.topic = t, !.pc = "accepted"]
      BY <3>1 DEF Become_sub
    <3>3. SubscriptionOk(q)
      BY <3>2, <2>1, SubscriptionSteps
    <3> QED BY <2>1, <3>2, <3>3 DEF SubsInv
  <2>4. CASE Attach(s)
    <3>1. CASE subs[s].topic = "syncing"
      <4>1. PICK q : /\ subs' = [subs EXCEPT ![s] = q]
                     /\ q = [[subs[s] EXCEPT !.pc = "ended", !.next = NONE]
                                EXCEPT !.seen = << "false" >>]
        BY <2>4, <3>1 DEF Attach, Become_sub, End
      <4>2. SubscriptionOk(q)
        BY <4>1, <2>1, <2>4, <3>1, SubscriptionSteps DEF Attach
      <4> QED BY <2>1, <4>1, <4>2 DEF SubsInv
    <3>2. CASE subs[s].topic # "syncing"
      <4>1. PICK q : /\ subs' = [subs EXCEPT ![s] = q]
                     /\ q = [subs[s] EXCEPT !.pc = "receiving", !.next = published + 1]
        BY <2>4, <3>2 DEF Attach, Become_sub
      <4>2. SubscriptionOk(q)
        BY <4>1, <2>1, <2>4, SubscriptionSteps DEF Attach
      <4> QED BY <2>1, <4>1, <4>2 DEF SubsInv
    <3> QED BY <3>1, <3>2
  <2>5. CASE RunSubscriber(s)
    <3>1. CASE subs[s].next < Oldest
      BY <2>5, <3>1, <2>1, <2>2 DEF RunSubscriber, Recv, Become_sub, SubsInv
    <3>2. CASE ~(subs[s].next < Oldest)
      <4>1. PICK q : /\ subs' = [subs EXCEPT ![s] = q]
                     /\ q = [subs[s] EXCEPT !.next = subs[s].next + 1,
                                            !.seen = Append(subs[s].seen, subs[s].next)]
        BY <2>5, <3>2 DEF RunSubscriber, Recv, Become_sub
      <4>2. SubscriptionOk(q)
        BY <4>1, <2>1, <2>5, SubscriptionSteps DEF RunSubscriber
      <4> QED BY <2>1, <4>1, <4>2 DEF SubsInv
    <3> QED BY <3>1, <3>2
  <2>6. CASE Unsubscribe(s)
    BY <2>6, <2>1, <2>2 DEF Unsubscribe, Become_sub, SubsInv
  <2> QED BY <1>4, <2>3, <2>4, <2>5, <2>6
<1> QED BY <1>1, <1>2, <1>3, <1>4, SubsSteps

\* A subscriber of proofs sees them without a gap, however far it falls behind
\* the channel and whenever the server stops (run_subscriber).
THEOREM NoGapHolds == Spec => []SubscriberSeesNoGap
<1>1. Init => SubsInv
  <2>1. SubscriptionOk(NewSubscription)
    BY DEF NewSubscription, SubscriptionOk, Gapless
  <2> QED BY <2>1 DEF Init, ServersInit, SubsInv
<1>2. SubsInv => SubscriberSeesNoGap
  BY DEF SubsInv, SubscriptionOk, Gapless, SubscriberSeesNoGap
<1> QED BY <1>1, <1>2, SubsStep, PTL DEF Spec

-----------------------------------------------------------------------------
(* The hash of a transaction. *)

\* The hash of a transaction covers its account and its nonce.
LEMMA HashNamesKey ==
    ASSUME NEW p \in Wellformed
    PROVE  KeyOf(p) = << p.hash[1][4], p.hash[1][3] >>
<1>1. PICK b \in Payload : p = Parse(b) /\ p.outcome = "ok"
  BY DEF Wellformed, Submission
<1>2. PICK d : d = FromBytes(b)
  OBVIOUS
<1>3. d.outcome = "ok" => \E r : d = Finish(r)
  BY <1>2 DEF FromBytes, Error
<1>4. d.outcome = "ok"
  BY <1>1, <1>2 DEF Parse
<1>5. PICK r : d = Finish(r)
  BY <1>3, <1>4
<1>6. d.request = r /\ d.hash = HashOf(r)
  BY <1>4, <1>5 DEF Finish, Error, Panic
<1>7. PICK res : res = FromRequest(r)
  OBVIOUS
<1>8. res.outcome = "ok" /\ p.tx = res.tx /\ p.hash = d.hash
  <2>1. res.outcome = "ok"
    BY <1>1, <1>2, <1>4, <1>6, <1>7 DEF Parse
  <2> QED BY <1>1, <1>2, <1>4, <1>6, <1>7, <2>1 DEF Parse, Error
<1>9. res.tx.nonce = r.nonce /\ res.tx.from = r.from
  BY <1>7, <1>8 DEF FromRequest, Error
<1>10. p.hash[1][3] = r.nonce /\ p.hash[1][4] = r.from
  BY <1>6, <1>8 DEF HashOf, SignedBytes
<1> QED BY <1>8, <1>9, <1>10 DEF KeyOf

-----------------------------------------------------------------------------
(* The tables. *)

\* A sealed miniblock.
Miniblock == [txs : Seq(Wellformed), nonce : [Account -> Nat]]

\* A row belongs to a submitted transaction with its key.
RowOk(k, r) == r \in TableRow /\ KeyOf(r.sub) = k

\* Types.
TablesType ==
    /\ DOMAIN rows = Account \X Nonce
    /\ \A k \in DOMAIN rows : Present(k) => RowOk(k, rows[k])
    /\ blocks \in Seq(Miniblock)
    /\ held \subseteq Wellformed

\* The nonce of an account grows from miniblock to miniblock, and separates what
\* is executed from what is not; a transaction below it without an executed row
\* is one of a purged account.
NoncesInv ==
    /\ \A a \in Account : \A i, j \in 0 .. Latest : i <= j => NonceAt(a, i) <= NonceAt(a, j)
    /\ \A a \in Account, m \in Nat : m < NonceNow(a) =>
          \/ << a, m >> \in purged
          \/ << a, m >> \in DOMAIN rows /\ Executed(<< a, m >>)
    /\ \A k \in DOMAIN rows : Executed(k) => k[2] < NonceNow(k[1])

\* A transaction in memory that lost its row was replaced and is still to run,
\* or its account was purged.
HeldInv ==
    \A p \in held : \/ KeyOf(p) \in purged
                    \/ p.tx.nonce >= NonceNow(p.tx.from) /\ Present(KeyOf(p))

\* A row that names a miniblock is in its place of it.
InBlock(r) ==
    r.miniblock # NONE =>
      /\ r.miniblock \in 1 .. Latest
      /\ r.index \in Nat /\ r.index + 1 \in DOMAIN blocks[r.miniblock].txs
      /\ r.sub = blocks[r.miniblock].txs[r.index + 1]
      /\ r.error => KeyOf(r.sub) \in purged

RowsInv == \A k \in DOMAIN rows : Present(k) => InBlock(rows[k])

\* Place i of miniblock n has its row.
HasRow(n, i) ==
    LET k == KeyOf(blocks[n].txs[i])
    IN  /\ k \in DOMAIN rows /\ Executed(k)
        /\ rows[k].miniblock = n /\ rows[k].index = i - 1

\* Every place has, unless the account was purged.
BlocksInv ==
    \A n \in 1 .. Latest : \A i \in DOMAIN blocks[n].txs :
        HasRow(n, i) \/ KeyOf(blocks[n].txs[i]) \in purged

\* The inductive invariant of the tables.
TableInv == TablesType /\ NoncesInv /\ HeldInv /\ RowsInv /\ BlocksInv

\* A well-formed transaction has a key of the table.
LEMMA KeyFacts ==
    ASSUME NEW p \in Wellformed
    PROVE  /\ KeyOf(p) \in Account \X Nonce /\ KeyOf(p) = << p.tx.from, p.tx.nonce >>
           /\ p.tx.from \in Account /\ p.tx.nonce \in Nonce /\ p.tx.nonce \in Nat
           /\ KeyOf(p)[1] = p.tx.from /\ KeyOf(p)[2] = p.tx.nonce
<1>1. KeyOf(p) \in Account \X Nonce /\ KeyOf(p) = << p.tx.from, p.tx.nonce >>
  BY ApiAssumption DEF KeyOf
<1>2. << p.tx.from, p.tx.nonce >> \in Account \X Nonce
  BY <1>1, Zenon
<1>3. p.tx.from \in Account /\ p.tx.nonce \in Nonce
  BY <1>2
<1>4. Nonce \subseteq Nat
  BY ApiAssumption
<1>5. KeyOf(p)[1] = p.tx.from /\ KeyOf(p)[2] = p.tx.nonce
  BY DEF KeyOf
<1> QED BY <1>1, <1>3, <1>4, <1>5, Zenon

\* A key of the table is an account and a nonce.
LEMMA KeysOfTable ==
    ASSUME TablesType, NEW k \in DOMAIN rows
    PROVE  k = << k[1], k[2] >> /\ k[1] \in Account /\ k[2] \in Nonce /\ k[2] \in Nat
<1>1. k \in Account \X Nonce
  BY DEF TablesType
<1>2. \A x \in Account \X Nonce : x = << x[1], x[2] >> /\ x[1] \in Account /\ x[2] \in Nonce
  OBVIOUS
<1>3. Nonce \subseteq Nat
  BY ApiAssumption
<1> QED BY <1>1, <1>2, <1>3, Zenon

\* Numbers of miniblocks and nonces of accounts are numbers.
LEMMA NonceFacts ==
    TablesType => /\ Latest \in Nat
                  /\ \A n \in 1 .. Latest : blocks[n] \in Miniblock
                  /\ \A a \in Account, n \in 0 .. Latest : NonceAt(a, n) \in Nat
                  /\ \A a \in Account : NonceNow(a) \in Nat
<1> SUFFICES ASSUME TablesType
             PROVE  /\ Latest \in Nat
                    /\ \A n \in 1 .. Latest : blocks[n] \in Miniblock
                    /\ \A a \in Account, n \in 0 .. Latest : NonceAt(a, n) \in Nat
                    /\ \A a \in Account : NonceNow(a) \in Nat
  OBVIOUS
<1>1. blocks \in Seq(Miniblock)
  BY DEF TablesType
<1>2. Latest \in Nat /\ \A n \in 1 .. Latest : blocks[n] \in Miniblock
  BY <1>1 DEF Latest
<1>3. ASSUME NEW a \in Account, NEW n \in 0 .. Latest PROVE NonceAt(a, n) \in Nat
  <2>1. CASE n = 0
    BY <2>1 DEF NonceAt
  <2>2. CASE n # 0
    <3>1. blocks[n] \in Miniblock
      BY <1>2, <2>2
    <3>2. blocks[n].nonce[a] \in Nat
      BY <3>1 DEF Miniblock
    <3> QED BY <2>2, <3>2 DEF NonceAt
  <2> QED BY <2>1, <2>2
<1>4. \A a \in Account : NonceNow(a) \in Nat
  BY <1>2, <1>3 DEF NonceNow
<1> QED BY <1>2, <1>3, <1>4

\* Miniblocks are added, the nonce of an account never falls, and of an executed
\* transaction nothing but the error changes.
Grows ==
    /\ DOMAIN rows' = DOMAIN rows
    /\ Latest \in Nat /\ Latest' \in Nat /\ Latest <= Latest'
    /\ \A n \in 1 .. Latest : blocks'[n] = blocks[n]
    /\ purged \subseteq purged'
    /\ \A a \in Account : /\ NonceNow(a) \in Nat /\ NonceNow(a)' \in Nat
                          /\ NonceNow(a) <= NonceNow(a)'
    /\ \A k \in DOMAIN rows : Executed(k) =>
          /\ Executed(k)' /\ rows'[k].sub = rows[k].sub
          /\ rows'[k].miniblock = rows[k].miniblock /\ rows'[k].index = rows[k].index

\* What was in its place of a miniblock stays there.
LEMMA InBlockKept ==
    ASSUME Grows, NEW r, InBlock(r)
    PROVE  InBlock(r)'
<1>1. CASE r.miniblock = NONE
  BY <1>1 DEF InBlock
<1>2. CASE r.miniblock # NONE
  <2>1. PICK n : n = r.miniblock /\ n \in 1 .. Latest
    BY <1>2 DEF InBlock
  <2>2. blocks'[n] = blocks[n] /\ n \in 1 .. Latest'
    BY <2>1 DEF Grows
  <2>3. /\ r.index \in Nat /\ r.index + 1 \in DOMAIN blocks'[n].txs
        /\ r.sub = blocks'[n].txs[r.index + 1]
        /\ r.error => KeyOf(r.sub) \in purged'
    BY <1>2, <2>1, <2>2 DEF InBlock, Grows
  <2> QED BY <2>1, <2>2, <2>3 DEF InBlock
<1> QED BY <1>1, <1>2

\* A place of a miniblock keeps its row.
LEMMA HasRowKept ==
    ASSUME Grows, NEW n \in 1 .. Latest, NEW i, HasRow(n, i)
    PROVE  HasRow(n, i)'
<1>1. PICK k : k = KeyOf(blocks[n].txs[i])
  OBVIOUS
<1>2. /\ k \in DOMAIN rows /\ Executed(k)
      /\ rows[k].miniblock = n /\ rows[k].index = i - 1
  BY <1>1, Zenon DEF HasRow
<1>3. k = KeyOf(blocks'[n].txs[i])
  BY <1>1 DEF Grows
<1>4. /\ k \in DOMAIN rows' /\ Executed(k)'
      /\ rows'[k].miniblock = n /\ rows'[k].index = i - 1
  BY <1>2 DEF Grows
<1> QED BY <1>3, <1>4, Zenon DEF HasRow

\* While no miniblock is sealed, numbers and nonces stay.
LEMMA Unsealed ==
    ASSUME blocks' = blocks
    PROVE  /\ Latest' = Latest
           /\ \A a, n : NonceAt(a, n)' = NonceAt(a, n)
           /\ \A a : NonceNow(a)' = NonceNow(a)
BY DEF Latest, NonceAt, NonceNow

\* A step that seals nothing keeps nonces and miniblocks in order if it keeps
\* the executed rows.
LEMMA UnsealedKept ==
    ASSUME TableInv, Grows, blocks' = blocks,
           \A k \in DOMAIN rows : Executed(k)' => Executed(k)
    PROVE  NoncesInv' /\ BlocksInv'
<1>1. /\ Latest' = Latest /\ \A a, n : NonceAt(a, n)' = NonceAt(a, n)
      /\ \A a : NonceNow(a)' = NonceNow(a)
  BY Unsealed
<1>2. BlocksInv'
  <2> SUFFICES ASSUME NEW n \in 1 .. Latest, NEW i \in DOMAIN blocks[n].txs
               PROVE  HasRow(n, i)' \/ KeyOf(blocks[n].txs[i]) \in purged'
    BY <1>1 DEF BlocksInv
  <2>1. HasRow(n, i) \/ KeyOf(blocks[n].txs[i]) \in purged
    BY DEF TableInv, BlocksInv
  <2> QED BY <2>1, HasRowKept DEF Grows
<1>3. ASSUME NEW a \in Account, NEW m \in Nat, m < NonceNow(a)
      PROVE  \/ << a, m >> \in purged'
             \/ << a, m >> \in DOMAIN rows' /\ Executed(<< a, m >>)'
  <2>1. \/ << a, m >> \in purged
        \/ << a, m >> \in DOMAIN rows /\ Executed(<< a, m >>)
    BY <1>3 DEF TableInv, NoncesInv
  <2> QED BY <2>1 DEF Grows
<1>4. ASSUME NEW k \in DOMAIN rows', Executed(k)' PROVE k[2] < NonceNow(k[1])
  <2>1. k \in DOMAIN rows
    BY DEF Grows
  <2> QED BY <1>4, <2>1 DEF TableInv, NoncesInv
<1> QED BY <1>1, <1>2, <1>3, <1>4 DEF NoncesInv, TableInv

-----------------------------------------------------------------------------
(* The writers. *)

\* A submission is stored: insert_transaction_l2 keeps executed rows, and
\* validate_account_nonce has checked how far the nonce is ahead.
Put(p) ==
    /\ p.tx.nonce <= NonceNow(p.tx.from) + MaxNonceAhead
    /\ ~Executed(KeyOf(p))
    /\ rows' = [rows EXCEPT ![KeyOf(p)] = NewRow(p)]
    /\ held' = held \cup Replaced(p)
    /\ UNCHANGED << blocks, purged >>

\* All the ways the tables change.
TableStep ==
    \/ \E p \in Wellformed : Put(p)
    \/ Purge \/ SealMiniblock \/ RejectTx
    \/ UNCHANGED << rows, blocks, held, purged >>

\* The row of a new submission.
LEMMA NewRowOk ==
    ASSUME NEW p \in Wellformed
    PROVE  /\ RowOk(KeyOf(p), NewRow(p)) /\ NewRow(p) # NONE
           /\ NewRow(p).miniblock = NONE
<1>1. NewRow(p) \in TableRow
  BY DEF NewRow, TableRow
<1>2. NewRow(p).sub = p /\ NewRow(p).miniblock = NONE
  BY DEF NewRow
<1> QED BY <1>1, <1>2, ApiAssumption DEF RowOk

\* A stored submission.
LEMMA PutKept ==
    ASSUME TableInv, NEW p \in Wellformed, Put(p)
    PROVE  TableInv' /\ Grows
<1>1. PICK key : key = KeyOf(p)
  OBVIOUS
<1>2. key \in DOMAIN rows /\ ~Executed(key) /\ blocks' = blocks /\ purged' = purged
  BY <1>1, KeyFacts DEF TableInv, TablesType, Put
<1>3. /\ rows'[key] = NewRow(p) /\ DOMAIN rows' = DOMAIN rows
      /\ \A k \in DOMAIN rows : k # key => rows'[k] = rows[k]
  BY <1>1, <1>2 DEF Put
<1>4. Present(key)' /\ ~Executed(key)' /\ RowOk(key, rows[key])' /\ InBlock(rows[key])'
  BY <1>1, <1>3, NewRowOk DEF Present, Executed, RowOk, InBlock
<1>5. \A k \in DOMAIN rows : Executed(k)' <=> Executed(k)
  BY <1>2, <1>3, <1>4 DEF Executed, Present
<1>6. /\ Latest' = Latest /\ \A a : NonceNow(a)' = NonceNow(a)
  BY <1>2, Unsealed
<1>7. Grows
  <2>1. \A k \in DOMAIN rows : Executed(k) => rows'[k] = rows[k]
    BY <1>2, <1>3
  <2> QED BY <1>2, <1>3, <1>5, <1>6, <2>1, NonceFacts DEF Grows, TableInv
<1>8. NoncesInv' /\ BlocksInv'
  BY <1>2, <1>5, <1>7, UnsealedKept
<1>9. Replaced(p) \subseteq Wellformed /\ \A x \in Replaced(p) :
         KeyOf(x) = key /\ x.tx.nonce = p.tx.nonce /\ x.tx.from = p.tx.from /\ Waiting(key)
  <2> SUFFICES ASSUME NEW x \in Replaced(p)
               PROVE  /\ x \in Wellformed /\ KeyOf(x) = key /\ Waiting(key)
                      /\ x.tx.nonce = p.tx.nonce /\ x.tx.from = p.tx.from
    OBVIOUS
  <2>1. Waiting(key) /\ x = rows[key].sub
    BY <1>1 DEF Replaced
  <2>2. rows[key] \in TableRow /\ KeyOf(x) = key
    BY <1>2, <2>1 DEF Waiting, TableInv, TablesType, RowOk
  <2>3. x \in Wellformed
    BY <2>1, <2>2 DEF TableRow
  <2> QED BY <1>1, <2>1, <2>2, <2>3, KeyFacts
<1>10. TablesType'
  <2>1. \A k \in DOMAIN rows' : Present(k)' => RowOk(k, rows[k])'
    BY <1>3, <1>4 DEF TableInv, TablesType, Present, RowOk
  <2> QED BY <1>2, <1>3, <1>9, <2>1 DEF Put, TableInv, TablesType
<1>11. RowsInv'
  <2> SUFFICES ASSUME NEW k \in DOMAIN rows', Present(k)' PROVE InBlock(rows[k])'
    BY DEF RowsInv
  <2>1. CASE k = key
    BY <1>4, <2>1
  <2>2. CASE k # key
    <3>1. rows'[k] = rows[k] /\ k \in DOMAIN rows /\ Present(k)
      BY <1>3, <2>2 DEF Present
    <3>2. InBlock(rows[k])
      BY <3>1 DEF TableInv, RowsInv
    <3>3. PICK r : r = rows[k]
      OBVIOUS
    <3>4. InBlock(r)'
      BY <1>7, <3>2, <3>3, InBlockKept
    <3> QED BY <3>1, <3>3, <3>4 DEF InBlock
  <2> QED BY <2>1, <2>2
<1>12. HeldInv'
  <2> SUFFICES ASSUME NEW x \in held'
               PROVE  \/ KeyOf(x) \in purged
                      \/ x.tx.nonce >= NonceNow(x.tx.from) /\ Present(KeyOf(x))'
    BY <1>2, <1>6 DEF HeldInv
  <2>1. CASE x \in held
    <3>1. \/ KeyOf(x) \in purged
          \/ x.tx.nonce >= NonceNow(x.tx.from) /\ Present(KeyOf(x))
      BY <2>1 DEF TableInv, HeldInv
    <3>2. KeyOf(x) \in DOMAIN rows
      BY <2>1, KeyFacts DEF TableInv, TablesType
    <3>3. Present(KeyOf(x)) => Present(KeyOf(x))'
      BY <1>3, <1>4, <3>2 DEF Present
    <3> QED BY <3>1, <3>3
  <2>2. CASE x \in Replaced(p)
    <3>1. KeyOf(x) = key /\ ~Executed(key) /\ x.tx.nonce = p.tx.nonce /\ x.tx.from = p.tx.from
      BY <1>2, <1>9, <2>2
    <3>2. CASE p.tx.nonce >= NonceNow(p.tx.from)
      BY <1>4, <3>1, <3>2
    <3>3. CASE ~(p.tx.nonce >= NonceNow(p.tx.from))
      <4>1. /\ p.tx.nonce \in Nat /\ p.tx.from \in Account /\ key = << p.tx.from, p.tx.nonce >>
            /\ NonceNow(p.tx.from) \in Nat
        BY <1>1, KeyFacts, NonceFacts DEF TableInv
      <4>2. p.tx.nonce < NonceNow(p.tx.from)
        BY <3>3, <4>1
      <4>3. \/ << p.tx.from, p.tx.nonce >> \in purged
            \/ Executed(<< p.tx.from, p.tx.nonce >>)
        BY <4>1, <4>2 DEF TableInv, NoncesInv
      <4> QED BY <3>1, <4>1, <4>3, Zenon
    <3> QED BY <3>2, <3>3
  <2> QED BY <2>1, <2>2 DEF Put
<1> QED BY <1>7, <1>8, <1>10, <1>11, <1>12 DEF TableInv

\* The deletion of rows.
LEMMA PurgeKept ==
    ASSUME TableInv, Purge
    PROVE  TableInv' /\ Grows
<1>0. PICK a \in Account :
         \E gone \in SUBSET {k \in DOMAIN rows : k[1] = a /\ Present(k) /\ ~Executed(k)} :
            /\ rows' = [k \in DOMAIN rows |-> IF k \in gone THEN NONE ELSE rows[k]]
            /\ held' = held \cup {rows[k].sub : k \in {x \in gone : Waiting(x)}}
            /\ purged' = purged \cup {KeyOf(p) : p \in {x \in held' : x.tx.from = a}}
  BY DEF Purge
<1>1. PICK gone \in SUBSET {k \in DOMAIN rows : k[1] = a /\ Present(k) /\ ~Executed(k)} :
         /\ rows' = [k \in DOMAIN rows |-> IF k \in gone THEN NONE ELSE rows[k]]
         /\ held' = held \cup {rows[k].sub : k \in {x \in gone : Waiting(x)}}
         /\ purged' = purged \cup {KeyOf(p) : p \in {x \in held' : x.tx.from = a}}
  BY <1>0
<1>2. blocks' = blocks /\ DOMAIN rows' = DOMAIN rows /\ purged \subseteq purged'
  BY <1>1 DEF Purge
<1>3. \A k \in DOMAIN rows : Present(k)' => rows'[k] = rows[k] /\ Present(k)
  BY <1>1 DEF Present
<1>4. \A k \in DOMAIN rows : Executed(k)' => Executed(k)
  BY <1>3 DEF Executed
<1>5. \A k \in DOMAIN rows : Executed(k) => rows'[k] = rows[k] /\ Executed(k)'
  BY <1>1 DEF Executed, Present
<1>6. /\ Latest' = Latest /\ \A b : NonceNow(b)' = NonceNow(b)
  BY <1>2, Unsealed
<1>7. Grows
  BY <1>2, <1>5, <1>6, NonceFacts DEF Grows, TableInv
<1>8. NoncesInv' /\ BlocksInv'
  BY <1>2, <1>4, <1>7, UnsealedKept
<1>9. \A k \in gone : Waiting(k) => rows[k].sub \in Wellformed /\ KeyOf(rows[k].sub) = k
  BY <1>1 DEF Waiting, TableInv, TablesType, RowOk, TableRow
<1>10. TablesType'
  <2>1. \A k \in DOMAIN rows' : Present(k)' => RowOk(k, rows[k])'
    BY <1>2, <1>3 DEF TableInv, TablesType, RowOk
  <2>2. held' \subseteq Wellformed
    BY <1>1, <1>9 DEF TableInv, TablesType
  <2> QED BY <1>2, <2>1, <2>2 DEF TableInv, TablesType
<1>11. RowsInv'
  <2> SUFFICES ASSUME NEW k \in DOMAIN rows', Present(k)' PROVE InBlock(rows[k])'
    BY DEF RowsInv
  <2>1. rows'[k] = rows[k] /\ k \in DOMAIN rows /\ Present(k)
    BY <1>2, <1>3
  <2>2. InBlock(rows[k])
    BY <2>1 DEF TableInv, RowsInv
  <2>3. PICK r : r = rows[k]
    OBVIOUS
  <2>4. InBlock(r)'
    BY <1>7, <2>2, <2>3, InBlockKept
  <2> QED BY <2>1, <2>3, <2>4 DEF InBlock
<1>12. HeldInv'
  <2> SUFFICES ASSUME NEW x \in held'
               PROVE  \/ KeyOf(x) \in purged'
                      \/ x.tx.nonce >= NonceNow(x.tx.from) /\ Present(KeyOf(x))'
    BY <1>6 DEF HeldInv
  <2>1. CASE x.tx.from = a
    BY <1>1, <2>1
  <2>2. CASE x.tx.from # a
    <3>1. x \in Wellformed
      BY <1>10 DEF TablesType
    <3>2. KeyOf(x)[1] = x.tx.from /\ KeyOf(x) \in Account \X Nonce
      BY <3>1, KeyFacts
    <3>3. x \in held
      <4>1. \A k \in gone : k[1] = a
        OBVIOUS
      <4> QED BY <1>1, <1>9, <2>2, <3>2, <4>1
    <3>4. KeyOf(x) \in DOMAIN rows /\ KeyOf(x) \notin gone
      BY <2>2, <3>2 DEF TableInv, TablesType
    <3>5. Present(KeyOf(x)) => Present(KeyOf(x))'
      BY <1>1, <3>4 DEF Present
    <3> QED BY <1>2, <3>3, <3>5 DEF TableInv, HeldInv
  <2> QED BY <2>1, <2>2
<1> QED BY <1>7, <1>8, <1>10, <1>11, <1>12 DEF TableInv

\* What the sequencer may run is a transaction with the key of a row, or its
\* account was purged.
LEMMA RunnableFacts ==
    ASSUME TableInv, NEW p \in Runnable
    PROVE  /\ p \in Wellformed
           /\ p \in held \/ (Waiting(KeyOf(p)) /\ rows[KeyOf(p)].sub = p)
           /\ KeyOf(p) \in purged \/ Present(KeyOf(p))
<1>1. CASE p \in held
  BY <1>1 DEF TableInv, TablesType, HeldInv
<1>2. CASE \E k \in DOMAIN rows : Waiting(k) /\ p = rows[k].sub
  <2>1. PICK k \in DOMAIN rows : Waiting(k) /\ p = rows[k].sub
    BY <1>2
  <2>2. RowOk(k, rows[k]) /\ Present(k)
    BY <2>1 DEF Waiting, TableInv, TablesType
  <2>3. p \in Wellformed /\ KeyOf(p) = k
    BY <2>1, <2>2 DEF RowOk, TableRow
  <2> QED BY <2>1, <2>2, <2>3
<1> QED BY <1>1, <1>2 DEF Runnable

\* The rejection of a transaction.
LEMMA RejectKept ==
    ASSUME TableInv, RejectTx
    PROVE  TableInv' /\ Grows
<1>1. PICK p \in Runnable :
         /\ rows' = [k \in DOMAIN rows |->
                IF Present(k) /\ rows[k].sub.hash = p.hash
                THEN [rows[k] EXCEPT !.error = TRUE] ELSE rows[k]]
         /\ held' = held \ {p}
  BY DEF RejectTx
<1>2. blocks' = blocks /\ purged' = purged /\ DOMAIN rows' = DOMAIN rows
  BY <1>1 DEF RejectTx
<1>3. ASSUME NEW k \in DOMAIN rows
      PROVE  /\ Present(k)' <=> Present(k)
             /\ Present(k) => /\ rows'[k].sub = rows[k].sub /\ RowOk(k, rows'[k])
                              /\ rows'[k].miniblock = rows[k].miniblock
                              /\ rows'[k].index = rows[k].index
                              /\ rows'[k].error => rows[k].error \/ k = KeyOf(p)
  <2>1. CASE ~Present(k)
    BY <1>1, <2>1 DEF Present
  <2>2. CASE Present(k)
    <3>1. PICK r, q : r = rows[k] /\ q = rows'[k]
      OBVIOUS
    <3>2. r \in TableRow /\ KeyOf(r.sub) = k
      BY <2>2, <3>1 DEF TableInv, TablesType, RowOk
    <3>3. r.sub \in Wellformed
      BY <3>2 DEF TableRow
    <3>4. CASE r.sub.hash = p.hash
      <4>1. q = [r EXCEPT !.error = TRUE]
        BY <1>1, <2>2, <3>1, <3>4
      <4>2. /\ q \in TableRow /\ q.sub = r.sub /\ q.miniblock = r.miniblock /\ q.index = r.index
        BY <3>2, <4>1 DEF TableRow
      <4>3. k = KeyOf(p)
        BY <3>2, <3>3, <3>4, RunnableFacts, HashNamesKey
      <4>4. q # NONE
        BY <4>2, ApiAssumption
      <4> QED BY <2>2, <3>1, <3>2, <4>2, <4>3, <4>4 DEF Present, RowOk
    <3>5. CASE r.sub.hash # p.hash
      <4>1. q = r
        BY <1>1, <3>1, <3>5
      <4> QED BY <2>2, <3>1, <3>2, <4>1 DEF Present, RowOk
    <3> QED BY <3>4, <3>5
  <2> QED BY <2>1, <2>2
<1>4. \A k \in DOMAIN rows : Executed(k)' <=> Executed(k)
  BY <1>3 DEF Executed
<1>5. /\ Latest' = Latest /\ \A b : NonceNow(b)' = NonceNow(b)
  BY <1>2, Unsealed
<1>6. Grows
  <2>1. \A k \in DOMAIN rows : Executed(k) => Present(k)
    BY DEF Executed
  <2> QED BY <1>2, <1>3, <1>4, <1>5, <2>1, NonceFacts DEF Grows, TableInv
<1>7. NoncesInv' /\ BlocksInv'
  BY <1>2, <1>4, <1>6, UnsealedKept
<1>8. TablesType'
  <2>1. \A k \in DOMAIN rows' : Present(k)' => RowOk(k, rows[k])'
    BY <1>2, <1>3 DEF RowOk
  <2> QED BY <1>1, <1>2, <2>1 DEF TableInv, TablesType
<1>9. RowsInv'
  <2> SUFFICES ASSUME NEW k \in DOMAIN rows', Present(k)' PROVE InBlock(rows[k])'
    BY DEF RowsInv
  <2>1. k \in DOMAIN rows /\ Present(k)
    BY <1>2, <1>3
  <2>2. InBlock(rows[k])
    BY <2>1 DEF TableInv, RowsInv
  <2>3. /\ rows'[k].sub = rows[k].sub /\ rows'[k].miniblock = rows[k].miniblock
        /\ rows'[k].index = rows[k].index /\ RowOk(k, rows'[k])
        /\ rows'[k].error => rows[k].error \/ k = KeyOf(p)
    BY <1>3, <2>1
  <2>4. PICK r, q : r = rows[k] /\ q = rows'[k]
    OBVIOUS
  <2>5. q.miniblock # NONE /\ q.error => KeyOf(q.sub) \in purged
    <3> SUFFICES ASSUME q.miniblock # NONE, q.error PROVE k \in purged
      BY <2>3, <2>4 DEF RowOk
    <3>1. CASE rows[k].error
      <4>1. KeyOf(r.sub) = k
        BY <2>1, <2>4 DEF TableInv, TablesType, RowOk
      <4> QED BY <2>2, <2>3, <2>4, <3>1, <4>1 DEF InBlock
    <3>2. CASE k = KeyOf(p)
      <4>1. Executed(k)
        BY <2>1, <2>3, <2>4 DEF Executed
      <4>2. p \in held /\ p \in Wellformed
        BY <3>2, <4>1, RunnableFacts DEF Executed, Waiting
      <4>3. k[2] < NonceNow(k[1])
        BY <2>1, <4>1 DEF TableInv, NoncesInv
      <4>4. /\ k[1] = p.tx.from /\ k[2] = p.tx.nonce
            /\ p.tx.nonce \in Nat /\ NonceNow(p.tx.from) \in Nat
        BY <3>2, <4>2, KeyFacts, NonceFacts DEF TableInv
      <4>5. ~(p.tx.nonce >= NonceNow(p.tx.from))
        BY <4>3, <4>4
      <4> QED BY <3>2, <4>2, <4>5 DEF TableInv, HeldInv
    <3> QED BY <2>3, <2>4, <3>1, <3>2
  <2>6. InBlock(r)
    BY <2>2, <2>4
  <2>7. q.miniblock # NONE =>
           /\ q.miniblock \in 1 .. Latest
           /\ q.index \in Nat /\ q.index + 1 \in DOMAIN blocks[q.miniblock].txs
           /\ q.sub = blocks[q.miniblock].txs[q.index + 1]
           /\ q.error => KeyOf(q.sub) \in purged
    BY <2>3, <2>4, <2>5, <2>6 DEF InBlock
  <2> QED BY <1>2, <1>5, <2>4, <2>7 DEF InBlock
<1>10. HeldInv'
  <2> SUFFICES ASSUME NEW x \in held'
               PROVE  \/ KeyOf(x) \in purged
                      \/ x.tx.nonce >= NonceNow(x.tx.from) /\ Present(KeyOf(x))'
    BY <1>2, <1>5 DEF HeldInv
  <2>1. x \in held /\ KeyOf(x) \in DOMAIN rows
    BY <1>1, KeyFacts DEF TableInv, TablesType
  <2> QED BY <1>3, <2>1 DEF TableInv, HeldInv
<1> QED BY <1>6, <1>7, <1>8, <1>9, <1>10 DEF TableInv

\* What a miniblock seals: the run of nonces from lo to hi of account a.
SealedRun(a, lo, hi, run) ==
    /\ a \in Account /\ lo = NonceNow(a) /\ lo \in Nat /\ hi \in Nat /\ lo <= hi
    /\ \A m \in lo .. hi : /\ run[m] \in Wellformed /\ KeyOf(run[m]) = << a, m >>
                           /\ << a, m >> \in DOMAIN rows
                           /\ << a, m >> \in purged \/ Present(<< a, m >>)
    /\ DOMAIN rows' = DOMAIN rows
    /\ \A k \in DOMAIN rows :
          IF Present(k) /\ k[1] = a /\ k[2] \in lo .. hi
          THEN rows'[k] = [sub |-> run[k[2]], miniblock |-> Latest + 1,
                           index |-> k[2] - lo, error |-> FALSE]
          ELSE rows'[k] = rows[k]
    /\ blocks' = Append(blocks,
          [txs |-> [i \in 1 .. hi - lo + 1 |-> run[lo + i - 1]],
           nonce |-> [b \in Account |-> IF b = a THEN hi + 1 ELSE NonceNow(b)]])
    /\ held' = {p \in held : p.tx.from # a \/ p.tx.nonce > hi \/ KeyOf(p) \in purged}
    /\ purged' = purged

\* MiniblockSealCommand::seal takes such a run.
LEMMA SealFacts ==
    ASSUME TableInv, SealMiniblock
    PROVE  \E a, lo, hi, run : SealedRun(a, lo, hi, run)
<1>1. PICK a \in Account, hi \in Nonce :
         /\ NonceNow(a) <= hi
         /\ \E run \in [NonceNow(a) .. hi -> Runnable] :
              /\ \A n \in NonceNow(a) .. hi : KeyOf(run[n]) = << a, n >>
              /\ rows' = [k \in DOMAIN rows |->
                    IF Present(k) /\ k[1] = a /\ k[2] \in NonceNow(a) .. hi
                    THEN [sub |-> run[k[2]], miniblock |-> Latest + 1,
                          index |-> k[2] - NonceNow(a), error |-> FALSE]
                    ELSE rows[k]]
              /\ blocks' = Append(blocks,
                    [txs |-> [i \in 1 .. hi - NonceNow(a) + 1 |-> run[NonceNow(a) + i - 1]],
                     nonce |-> [b \in Account |-> IF b = a THEN hi + 1 ELSE NonceNow(b)]])
              /\ held' = {p \in held :
                    p.tx.from # a \/ p.tx.nonce > hi \/ KeyOf(p) \in purged}
  BY Zenon DEF SealMiniblock
<1>2. PICK lo : lo = NonceNow(a)
  OBVIOUS
<1>3. PICK run \in [lo .. hi -> Runnable] :
         /\ \A n \in lo .. hi : KeyOf(run[n]) = << a, n >>
         /\ rows' = [k \in DOMAIN rows |->
               IF Present(k) /\ k[1] = a /\ k[2] \in lo .. hi
               THEN [sub |-> run[k[2]], miniblock |-> Latest + 1,
                     index |-> k[2] - lo, error |-> FALSE]
               ELSE rows[k]]
         /\ blocks' = Append(blocks,
               [txs |-> [i \in 1 .. hi - lo + 1 |-> run[lo + i - 1]],
                nonce |-> [b \in Account |-> IF b = a THEN hi + 1 ELSE NonceNow(b)]])
         /\ held' = {p \in held : p.tx.from # a \/ p.tx.nonce > hi \/ KeyOf(p) \in purged}
  BY <1>1, <1>2, Zenon
<1>4. lo \in Nat /\ hi \in Nat /\ lo <= hi /\ purged' = purged
  BY <1>1, <1>2, NonceFacts, ApiAssumption DEF TableInv, SealMiniblock
<1>5. ASSUME NEW m \in lo .. hi
      PROVE  /\ run[m] \in Wellformed /\ KeyOf(run[m]) = << a, m >>
             /\ << a, m >> \in DOMAIN rows
             /\ << a, m >> \in purged \/ Present(<< a, m >>)
  <2>1. run[m] \in Runnable /\ KeyOf(run[m]) = << a, m >>
    BY <1>3
  <2>2. run[m] \in Wellformed /\ (KeyOf(run[m]) \in purged \/ Present(KeyOf(run[m])))
    BY <2>1, RunnableFacts
  <2>3. KeyOf(run[m]) \in DOMAIN rows
    BY <2>2, KeyFacts DEF TableInv, TablesType
  <2> QED BY <2>1, <2>2, <2>3, Zenon
<1>6. DOMAIN rows' = DOMAIN rows
      /\ \A k \in DOMAIN rows :
            IF Present(k) /\ k[1] = a /\ k[2] \in lo .. hi
            THEN rows'[k] = [sub |-> run[k[2]], miniblock |-> Latest + 1,
                             index |-> k[2] - lo, error |-> FALSE]
            ELSE rows'[k] = rows[k]
  BY <1>3
<1>7. SealedRun(a, lo, hi, run)
  BY <1>2, <1>3, <1>4, <1>5, <1>6, Zenon DEF SealedRun
<1> QED BY <1>7

\* The new miniblock.
LEMMA SealedBlock ==
    ASSUME TablesType, NEW a, NEW lo, NEW hi, NEW run, SealedRun(a, lo, hi, run)
    PROVE  /\ blocks' \in Seq(Miniblock) /\ Latest \in Nat /\ Latest' = Latest + 1
           /\ \A n \in 1 .. Latest : blocks'[n] = blocks[n]
           /\ DOMAIN blocks'[Latest + 1].txs = 1 .. hi - lo + 1
           /\ \A i \in 1 .. hi - lo + 1 : blocks'[Latest + 1].txs[i] = run[lo + i - 1]
           /\ \A b \in Account : NonceNow(b)' = IF b = a THEN hi + 1 ELSE NonceNow(b)
           /\ \A b \in Account, n \in 0 .. Latest : NonceAt(b, n)' = NonceAt(b, n)
<1>1. PICK txs, nonce, blk :
         /\ txs = [i \in 1 .. hi - lo + 1 |-> run[lo + i - 1]]
         /\ nonce = [b \in Account |-> IF b = a THEN hi + 1 ELSE NonceNow(b)]
         /\ blk = [txs |-> txs, nonce |-> nonce]
  OBVIOUS
<1>2. blocks' = Append(blocks, blk)
  BY <1>1, Zenon DEF SealedRun
<1>3. lo \in Nat /\ hi \in Nat /\ lo <= hi
  BY DEF SealedRun
<1>4. txs \in Seq(Wellformed)
  <2>1. \A i \in 1 .. hi - lo + 1 : run[lo + i - 1] \in Wellformed
    <3> SUFFICES ASSUME NEW i \in 1 .. hi - lo + 1 PROVE run[lo + i - 1] \in Wellformed
      OBVIOUS
    <3>1. PICK m : m = lo + i - 1 /\ m \in lo .. hi
      BY <1>3
    <3>2. \A x \in lo .. hi : run[x] \in Wellformed
      BY DEF SealedRun
    <3> QED BY <3>1, <3>2
  <2>2. hi - lo + 1 \in Nat
    BY <1>3
  <2>3. PICK l \in Nat : l = hi - lo + 1
    BY <2>2
  <2>4. txs \in [1 .. l -> Wellformed]
    BY <1>1, <2>1, <2>3
  <2> QED BY <2>3, <2>4
<1>5. nonce \in [Account -> Nat]
  BY <1>1, <1>3, NonceFacts
<1>6. blk \in Miniblock /\ blk.txs = txs /\ blk.nonce = nonce
  BY <1>1, <1>4, <1>5 DEF Miniblock
<1>7. blocks \in Seq(Miniblock)
  BY DEF TablesType
<1>8. /\ blocks' \in Seq(Miniblock) /\ Latest \in Nat /\ Latest' = Latest + 1
      /\ \A n \in 1 .. Latest : blocks'[n] = blocks[n]
      /\ blocks'[Latest + 1] = blk
  BY <1>2, <1>6, <1>7 DEF Latest
<1>9. ASSUME NEW b \in Account PROVE NonceNow(b)' = IF b = a THEN hi + 1 ELSE NonceNow(b)
  <2>1. NonceNow(b)' = blocks'[Latest + 1].nonce[b]
    BY <1>8 DEF NonceNow, NonceAt
  <2> QED BY <1>1, <1>6, <1>8, <2>1
<1>10. ASSUME NEW b \in Account, NEW n \in 0 .. Latest PROVE NonceAt(b, n)' = NonceAt(b, n)
  BY <1>8 DEF NonceAt
<1>11. /\ DOMAIN blocks'[Latest + 1].txs = 1 .. hi - lo + 1
       /\ \A i \in 1 .. hi - lo + 1 : blocks'[Latest + 1].txs[i] = run[lo + i - 1]
  BY <1>1, <1>6, <1>8
<1> QED BY <1>8, <1>9, <1>10, <1>11

\* Sealing a miniblock.
LEMMA SealKept ==
    ASSUME TableInv, SealMiniblock
    PROVE  TableInv' /\ Grows
<1>1. PICK a, lo, hi, run : SealedRun(a, lo, hi, run)
  BY SealFacts
<1>2. /\ blocks' \in Seq(Miniblock) /\ Latest \in Nat /\ Latest' = Latest + 1
      /\ \A n \in 1 .. Latest : blocks'[n] = blocks[n]
      /\ DOMAIN blocks'[Latest + 1].txs = 1 .. hi - lo + 1
      /\ \A i \in 1 .. hi - lo + 1 : blocks'[Latest + 1].txs[i] = run[lo + i - 1]
      /\ \A b \in Account : NonceNow(b)' = IF b = a THEN hi + 1 ELSE NonceNow(b)
      /\ \A b \in Account, n \in 0 .. Latest : NonceAt(b, n)' = NonceAt(b, n)
  BY <1>1, SealedBlock DEF TableInv
<1>3. /\ a \in Account /\ lo = NonceNow(a) /\ lo \in Nat /\ hi \in Nat /\ lo <= hi
      /\ DOMAIN rows' = DOMAIN rows /\ purged' = purged
  BY <1>1 DEF SealedRun
<1>4. \A b \in Account : /\ NonceNow(b) \in Nat /\ NonceNow(b)' \in Nat
                         /\ NonceNow(b) <= NonceNow(b)'
  <2> SUFFICES ASSUME NEW b \in Account
               PROVE  /\ NonceNow(b) \in Nat /\ NonceNow(b)' \in Nat
                      /\ NonceNow(b) <= NonceNow(b)'
    OBVIOUS
  <2>1. NonceNow(b) \in Nat
    BY NonceFacts DEF TableInv
  <2>2. NonceNow(b)' = IF b = a THEN hi + 1 ELSE NonceNow(b)
    BY <1>2
  <2>3. CASE b = a
    <3>1. NonceNow(b)' = hi + 1 /\ NonceNow(b) = lo
      BY <1>3, <2>2, <2>3
    <3> QED BY <1>3, <3>1
  <2>4. CASE b # a
    BY <2>1, <2>2, <2>4
  <2> QED BY <2>3, <2>4
<1>5. ASSUME NEW k \in DOMAIN rows, Present(k), k[1] = a, k[2] \in lo .. hi
      PROVE  /\ RowOk(k, rows'[k]) /\ rows'[k] # NONE /\ rows'[k].sub = run[k[2]]
             /\ rows'[k].miniblock = Latest + 1 /\ rows'[k].index = k[2] - lo
             /\ ~rows'[k].error /\ ~Executed(k)
  <2>1. PICK i, b, p, q : i = k[2] - lo /\ b = Latest + 1 /\ p = run[k[2]] /\ q = rows'[k]
    OBVIOUS
  <2>2. i \in Nat /\ b \in Nat
    BY <1>2, <1>3, <1>5, <2>1
  <2>3. q = [sub |-> p, miniblock |-> b, index |-> i, error |-> FALSE]
    BY <1>1, <1>5, <2>1 DEF SealedRun
  <2>4. k = << a, k[2] >>
    BY <1>5, KeysOfTable DEF TableInv
  <2>5. p \in Wellformed /\ KeyOf(p) = k
    BY <1>1, <1>5, <2>1, <2>4 DEF SealedRun
  <2>6. q \in TableRow /\ q.sub = p /\ q.miniblock = b /\ q.index = i /\ ~q.error
    BY <2>2, <2>3, <2>5 DEF TableRow
  <2>7. ~Executed(k)
    <3>1. SUFFICES ASSUME Executed(k) PROVE FALSE
      OBVIOUS
    <3>2. k[2] < NonceNow(k[1])
      BY <3>1 DEF TableInv, NoncesInv
    <3> QED BY <1>3, <1>5, <3>2
  <2> QED BY <2>1, <2>5, <2>6, <2>7, ApiAssumption DEF RowOk
<1>6. ASSUME NEW k \in DOMAIN rows, ~(Present(k) /\ k[1] = a /\ k[2] \in lo .. hi)
      PROVE  rows'[k] = rows[k]
  BY <1>1, <1>6 DEF SealedRun
<1>7. Grows
  <2>1. \A k \in DOMAIN rows : Executed(k) => rows'[k] = rows[k] /\ Executed(k)'
    BY <1>5, <1>6 DEF Executed, Present
  <2> QED BY <1>2, <1>3, <1>4, <2>1 DEF Grows
<1>8. \A k \in DOMAIN rows : Present(k)' <=> Present(k)
  BY <1>5, <1>6 DEF Present
<1>9. TablesType'
  <2>1. \A k \in DOMAIN rows' : Present(k)' => RowOk(k, rows[k])'
    BY <1>3, <1>5, <1>6, <1>8 DEF TableInv, TablesType, RowOk
  <2>2. held' \subseteq Wellformed
    BY <1>1 DEF SealedRun, TableInv, TablesType
  <2> QED BY <1>2, <1>3, <2>1, <2>2 DEF TableInv, TablesType
<1>10. HeldInv'
  <2> SUFFICES ASSUME NEW x \in held'
               PROVE  \/ KeyOf(x) \in purged
                      \/ x.tx.nonce >= NonceNow(x.tx.from)' /\ Present(KeyOf(x))'
    BY <1>3 DEF HeldInv
  <2>1. x \in held /\ (x.tx.from # a \/ x.tx.nonce > hi \/ KeyOf(x) \in purged)
    BY <1>1 DEF SealedRun
  <2>2. /\ x.tx.from \in Account /\ x.tx.nonce \in Nat /\ KeyOf(x) \in DOMAIN rows
    BY <2>1, KeyFacts DEF TableInv, TablesType
  <2>3. \/ KeyOf(x) \in purged
        \/ x.tx.nonce >= NonceNow(x.tx.from) /\ Present(KeyOf(x))
    BY <2>1 DEF TableInv, HeldInv
  <2> QED BY <1>2, <1>3, <1>8, <2>1, <2>2, <2>3
<1>11. NoncesInv'
  <2>1. ASSUME NEW b \in Account, NEW i \in 0 .. Latest', NEW j \in 0 .. Latest', i <= j
        PROVE  NonceAt(b, i)' <= NonceAt(b, j)'
    <3>1. CASE j \in 0 .. Latest
      <4>1. i \in 0 .. Latest
        BY <1>2, <2>1, <3>1
      <4>2. NonceAt(b, i) <= NonceAt(b, j)
        BY <2>1, <3>1, <4>1 DEF TableInv, NoncesInv
      <4> QED BY <1>2, <3>1, <4>1, <4>2
    <3>2. CASE j = Latest + 1
      <4>1. NonceAt(b, j)' = NonceNow(b)'
        BY <1>2, <3>2 DEF NonceNow
      <4>2. CASE i = j
        BY <1>4, <4>1, <4>2
      <4>3. CASE i # j
        <5>1. i \in 0 .. Latest
          BY <1>2, <2>1, <3>2, <4>3
        <5>2. NonceAt(b, i) <= NonceAt(b, Latest) /\ NonceAt(b, i) \in Nat
          BY <1>2, <5>1, NonceFacts DEF TableInv, NoncesInv
        <5>3. NonceAt(b, i) <= NonceNow(b) /\ NonceAt(b, i)' = NonceAt(b, i)
          BY <1>2, <5>1, <5>2 DEF NonceNow
        <5> QED BY <1>4, <4>1, <5>2, <5>3
      <4> QED BY <4>2, <4>3
    <3> QED BY <1>2, <3>1, <3>2
  <2>2. ASSUME NEW b \in Account, NEW m \in Nat, m < NonceNow(b)'
        PROVE  \/ << b, m >> \in purged
               \/ << b, m >> \in DOMAIN rows /\ Executed(<< b, m >>)'
    <3>1. CASE m < NonceNow(b)
      <4>1. \/ << b, m >> \in purged
            \/ << b, m >> \in DOMAIN rows /\ Executed(<< b, m >>)
        BY <3>1 DEF TableInv, NoncesInv
      <4> QED BY <1>7, <4>1 DEF Grows
    <3>2. CASE ~(m < NonceNow(b))
      <4>1. b = a /\ m \in lo .. hi
        BY <1>2, <1>3, <1>4, <2>2, <3>2
      <4>2. << a, m >> \in DOMAIN rows /\ (<< a, m >> \in purged \/ Present(<< a, m >>))
        BY <1>1, <4>1 DEF SealedRun
      <4>3. << a, m >>[1] = a /\ << a, m >>[2] = m
        OBVIOUS
      <4>4. ASSUME Present(<< a, m >>) PROVE Executed(<< a, m >>)'
        <5>1. PICK k : k = << a, m >>
          OBVIOUS
        <5>2. rows'[k] # NONE /\ rows'[k].miniblock = Latest + 1
          BY <1>5, <4>1, <4>2, <4>3, <4>4, <5>1
        <5>3. Latest + 1 # NONE
          BY <1>2, ApiAssumption
        <5> QED BY <5>1, <5>2, <5>3 DEF Executed, Present
      <4> QED BY <4>1, <4>2, <4>4
    <3> QED BY <3>1, <3>2
  <2>3. ASSUME NEW k \in DOMAIN rows, Executed(k)' PROVE k[2] < NonceNow(k[1])'
    <3>1. k[1] \in Account /\ k[2] \in Nat
      BY KeysOfTable DEF TableInv
    <3>2. CASE Present(k) /\ k[1] = a /\ k[2] \in lo .. hi
      BY <1>2, <1>3, <3>1, <3>2
    <3>3. CASE ~(Present(k) /\ k[1] = a /\ k[2] \in lo .. hi)
      <4>1. Executed(k)
        BY <1>6, <2>3, <3>3 DEF Executed, Present
      <4>2. k[2] < NonceNow(k[1])
        BY <4>1 DEF TableInv, NoncesInv
      <4> QED BY <1>4, <3>1, <4>2
    <3> QED BY <3>2, <3>3
  <2> QED BY <1>3, <2>1, <2>2, <2>3 DEF NoncesInv
<1>12. RowsInv'
  <2> SUFFICES ASSUME NEW k \in DOMAIN rows, Present(k)' PROVE InBlock(rows[k])'
    BY <1>3 DEF RowsInv
  <2>1. CASE Present(k) /\ k[1] = a /\ k[2] \in lo .. hi
    <3>1. PICK q, m : q = rows'[k] /\ m = k[2]
      OBVIOUS
    <3>2. /\ q.sub = run[m] /\ q.miniblock = Latest + 1 /\ q.index = m - lo /\ ~q.error
          /\ m \in lo .. hi
      BY <1>5, <2>1, <3>1
    <3>3. PICK i : i = m - lo
      OBVIOUS
    <3>4. /\ i \in Nat /\ i + 1 \in 1 .. hi - lo + 1 /\ lo + (i + 1) - 1 = m
      BY <1>3, <3>2, <3>3
    <3>5. i + 1 \in DOMAIN blocks'[Latest + 1].txs /\ blocks'[Latest + 1].txs[i + 1] = run[m]
      <4>1. blocks'[Latest + 1].txs[i + 1] = run[lo + (i + 1) - 1]
        BY <1>2, <3>4
      <4> QED BY <1>2, <3>4, <4>1
    <3>6. Latest + 1 \in 1 .. Latest'
      BY <1>2
    <3> QED BY <3>1, <3>2, <3>3, <3>4, <3>5, <3>6 DEF InBlock
  <2>2. CASE ~(Present(k) /\ k[1] = a /\ k[2] \in lo .. hi)
    <3>1. rows'[k] = rows[k] /\ Present(k)
      BY <1>6, <1>8, <2>2
    <3>2. PICK r : r = rows[k]
      OBVIOUS
    <3>3. InBlock(r)
      BY <3>1, <3>2 DEF TableInv, RowsInv
    <3>4. InBlock(r)'
      BY <1>7, <3>3, InBlockKept
    <3> QED BY <3>1, <3>2, <3>4 DEF InBlock
  <2> QED BY <2>1, <2>2
<1>13. BlocksInv'
  <2> SUFFICES ASSUME NEW n \in 1 .. Latest', NEW i \in DOMAIN blocks'[n].txs
               PROVE  HasRow(n, i)' \/ KeyOf(blocks'[n].txs[i]) \in purged
    BY <1>3 DEF BlocksInv
  <2>1. CASE n \in 1 .. Latest
    <3>1. blocks'[n] = blocks[n]
      BY <1>2, <2>1
    <3>2. HasRow(n, i) \/ KeyOf(blocks[n].txs[i]) \in purged
      BY <2>1, <3>1 DEF TableInv, BlocksInv
    <3> QED BY <1>7, <2>1, <3>1, <3>2, HasRowKept
  <2>2. CASE n = Latest + 1
    <3>1. i \in 1 .. hi - lo + 1 /\ blocks'[n].txs[i] = run[lo + i - 1]
      BY <1>2, <2>2
    <3>2. PICK m, k : m = lo + i - 1 /\ k = << a, m >>
      OBVIOUS
    <3>3. m \in lo .. hi /\ m - lo = i - 1 /\ k[1] = a /\ k[2] = m
      BY <1>3, <3>1, <3>2
    <3>4. /\ KeyOf(blocks'[n].txs[i]) = k /\ k \in DOMAIN rows
          /\ k \in purged \/ Present(k)
      BY <1>1, <3>1, <3>2, <3>3 DEF SealedRun
    <3>5. ASSUME Present(k) PROVE HasRow(n, i)'
      <4>1. /\ rows'[k] # NONE /\ rows'[k].miniblock = Latest + 1 /\ rows'[k].index = i - 1
        BY <1>5, <3>3, <3>4, <3>5
      <4>2. Executed(k)'
        BY <1>2, <4>1, ApiAssumption DEF Executed, Present
      <4> QED BY <1>3, <2>2, <3>4, <4>1, <4>2 DEF HasRow
    <3> QED BY <3>4, <3>5
  <2> QED BY <1>2, <2>1, <2>2
<1> QED BY <1>7, <1>9, <1>10, <1>11, <1>12, <1>13 DEF TableInv

\* The tables stay in order, and only grow.
LEMMA TablesKept == ASSUME TableInv, TableStep PROVE TableInv' /\ Grows
<1>1. CASE UNCHANGED << rows, blocks, held, purged >>
  <2>1. /\ Latest' = Latest /\ \A a, n : NonceAt(a, n)' = NonceAt(a, n)
        /\ \A a : NonceNow(a)' = NonceNow(a)
    BY <1>1, Unsealed
  <2>2. Grows
    BY <1>1, <2>1, NonceFacts DEF Grows, TableInv, Executed, Present
  <2>3. NoncesInv' /\ BlocksInv'
    BY <1>1, <2>2, UnsealedKept DEF Executed, Present
  <2>4. TablesType' /\ HeldInv' /\ RowsInv'
    BY <1>1, <2>1 DEF TableInv, TablesType, HeldInv, RowsInv, Present, RowOk, InBlock
  <2> QED BY <2>2, <2>3, <2>4 DEF TableInv
<1> QED BY <1>1, PutKept, PurgeKept, SealKept, RejectKept DEF TableStep

-----------------------------------------------------------------------------
(* Requests. *)

\* The fields of a request's record.
ReqShape(r) ==
    r = [op |-> r.op, arg |-> r.arg, pc |-> r.pc, block |-> r.block, nonce |-> r.nonce,
         got |-> r.got, conn |-> r.conn, permit |-> r.permit]

\* A submission in flight: its nonce is not too far ahead, also when the state
\* that was asked is no longer the last.
SendOk(r) ==
    r.op = "send" =>
      /\ r.pc \in {"validate", "check", "permit", "expect", "expected", "insert"} =>
           r.arg \in Wellformed
      /\ r.pc = "check" => r.block \in 0 .. Latest
      /\ r.pc \in {"permit", "expect", "expected", "insert"} =>
           r.arg.tx.nonce <= NonceNow(r.arg.tx.from) + MaxNonceAhead

\* A query of the pending nonce: the nonce it has read is not above the
\* account's.
PendingOk(r) ==
    r.op = "pending" =>
      /\ r.pc \in {"start", "nonce", "rows"} => r.arg \in Account
      /\ r.pc = "nonce" => r.block \in 0 .. Latest
      /\ r.pc = "rows" => r.nonce \in Nat /\ r.nonce <= NonceNow(r.arg)

\* The inductive invariant of the requests in flight.
ReqInv ==
    /\ DOMAIN req = Client
    /\ \A c \in Client : ReqShape(req[c]) /\ SendOk(req[c]) /\ PendingOk(req[c])

\* What a step makes of the record r of a request.
Move(r, q) ==
    \/ q.pc = "answered"
    \/ q.pc = "start" /\ (q.op = "pending" => q.arg \in Account)
    \/ q.op = "send" /\ q.pc = "validate" /\ q.arg \in Wellformed
    \/ /\ r.op = "send" /\ q.op = "send" /\ q.arg = r.arg
       /\ \/ r.pc = "validate" /\ q.pc = "check" /\ q.block = Latest
          \/ /\ r.pc = "check" /\ q.pc = "permit"
             /\ r.arg.tx.nonce \in NonceAt(r.arg.tx.from, r.block) ..
                                   NonceAt(r.arg.tx.from, r.block) + MaxNonceAhead
          \/ << r.pc, q.pc >> \in
                {<< "permit", "expect" >>, << "expect", "expected" >>, << "expected", "insert" >>}
    \/ /\ r.op = "pending" /\ q.op = "pending" /\ q.arg = r.arg
       /\ \/ r.pc = "start" /\ q.pc = "nonce" /\ q.block = Latest
          \/ r.pc = "nonce" /\ q.pc = "rows" /\ q.nonce = NonceAt(r.arg, r.block)
    \/ q.op \in {"call", "count", "query"}
    \/ /\ q.op = "receipt" /\ q.pc = "logs"
       /\ q.got = ReadReceipts(ReceiptsFor(<< r.arg >>), 1)
    \/ /\ r.op = "blockReceipts" /\ q.op = "blockReceipts"
       /\ \/ /\ r.pc = "start" /\ q.pc = "rows"
             /\ q.block = BlockOf(r.arg) /\ q.got = ReceiptsFor(TransactionsOf(BlockOf(r.arg)))
          \/ /\ r.pc = "rows" /\ q.pc = "logs"
             /\ q.block = r.block /\ q.got = ReadReceipts(r.got, 1)

\* What the handler of a request may do with its record.
LEMMA ReqMoves ==
    ASSUME NEW c \in Client, ReqShape(req[c]), Receive(c) \/ Proceed(c) \/ Abort(c)
    PROVE  \E q : req' = [req EXCEPT ![c] = q] /\ ReqShape(q) /\ Move(req[c], q)
<1>1. ASSUME Return(c)
      PROVE  \E q : req' = [req EXCEPT ![c] = q] /\ ReqShape(q) /\ Move(req[c], q)
  <2>1. PICK q : q = [Unused EXCEPT !.pc = "answered"] /\ req' = [req EXCEPT ![c] = q]
    BY <1>1 DEF Return, Become
  <2>2. ReqShape(q) /\ q.pc = "answered"
    BY <2>1 DEF Unused, ReqShape
  <2> QED BY <2>1, <2>2 DEF Move
<1>2. CASE Receive(c)
  <2>1. ASSUME NEW op \in {"call", "query", "pending", "count", "receipt", "blockReceipts"},
               NEW arg, Start(c, op, arg), op = "pending" => arg \in Account
        PROVE  \E q : req' = [req EXCEPT ![c] = q] /\ ReqShape(q) /\ Move(req[c], q)
    <3>1. PICK q : /\ q = [Unused EXCEPT !.op = op, !.arg = arg, !.pc = "start"]
                   /\ req' = [req EXCEPT ![c] = q]
      BY <2>1 DEF Start, Become
    <3>2. ReqShape(q) /\ q.pc = "start" /\ q.op = op /\ q.arg = arg
      BY <3>1 DEF Unused, ReqShape
    <3> QED BY <2>1, <3>1, <3>2 DEF Move
  <2>2. CASE SendRawTransaction(c)
    <3>1. CASE Return(c)
      BY <3>1, <1>1
    <3>2. CASE ~Return(c)
      <4>1. PICK p \in Submission :
               /\ p.outcome = "ok"
               /\ Become(c, [Unused EXCEPT !.op = "send", !.arg = p, !.pc = "validate"])
        BY <2>2, <3>2 DEF SendRawTransaction
      <4>2. PICK q : /\ q = [Unused EXCEPT !.op = "send", !.arg = p, !.pc = "validate"]
                     /\ req' = [req EXCEPT ![c] = q]
        BY <4>1 DEF Become
      <4>3. ReqShape(q) /\ q.pc = "validate" /\ q.op = "send" /\ q.arg = p
        BY <4>2 DEF Unused, ReqShape
      <4> QED BY <4>1, <4>2, <4>3 DEF Move, Wellformed
    <3> QED BY <3>1, <3>2
  <2> QED BY <1>2, <2>1, <2>2 DEF Receive
<1>3. CASE Abort(c)
  BY <1>1, <1>3 DEF Abort
<1>4. CASE SubmitTx(c)
  <2>1. CASE At(c, "send", "validate") /\ ReadBlock(c, "check")
    <3>1. PICK q : /\ q = [[req[c] EXCEPT !.pc = "check", !.block = Latest] EXCEPT !.conn = TRUE]
                   /\ req' = [req EXCEPT ![c] = q]
      BY <2>1 DEF ReadBlock, AcquireAnd, Become
    <3>2. /\ ReqShape(q) /\ q.pc = "check" /\ q.op = req[c].op /\ q.arg = req[c].arg
          /\ q.block = Latest
      BY <3>1 DEF ReqShape
    <3> QED BY <2>1, <3>1, <3>2 DEF Move, At
  <2>2. CASE At(c, "send", "check") /\ ValidateNonce(c)
    <3>1. CASE NonceRefused(c)
      BY <2>2, <3>1, <1>1 DEF ValidateNonce
    <3>2. CASE ~NonceRefused(c)
      <4>1. PICK q : /\ q = [req[c] EXCEPT !.pc = "permit", !.block = NONE, !.conn = FALSE]
                     /\ req' = [req EXCEPT ![c] = q]
        BY <2>2, <3>2 DEF ValidateNonce, Become
      <4>2. ReqShape(q) /\ q.pc = "permit" /\ q.op = req[c].op /\ q.arg = req[c].arg
        BY <4>1 DEF ReqShape
      <4> QED BY <2>2, <3>2, <4>1, <4>2 DEF Move, At, NonceRefused
    <3> QED BY <3>1, <3>2
  <2>3. CASE At(c, "send", "permit") /\ AcquirePermit(c, "expect")
    <3>1. CASE closed
      BY <2>3, <3>1, <1>1 DEF AcquirePermit
    <3>2. CASE ~closed
      <4>1. PICK q : /\ q = [req[c] EXCEPT !.pc = "expect", !.permit = TRUE]
                     /\ req' = [req EXCEPT ![c] = q]
        BY <2>3, <3>2 DEF AcquirePermit, Become
      <4>2. ReqShape(q) /\ q.pc = "expect" /\ q.op = req[c].op /\ q.arg = req[c].arg
        BY <4>1 DEF ReqShape
      <4> QED BY <2>3, <4>1, <4>2 DEF Move, At
    <3> QED BY <3>1, <3>2
  <2>4. CASE At(c, "send", "expect") /\ AcquireAnd(c, [req[c] EXCEPT !.pc = "expected"])
    <3>1. PICK q : /\ q = [[req[c] EXCEPT !.pc = "expected"] EXCEPT !.conn = TRUE]
                   /\ req' = [req EXCEPT ![c] = q]
      BY <2>4 DEF AcquireAnd, Become
    <3>2. ReqShape(q) /\ q.pc = "expected" /\ q.op = req[c].op /\ q.arg = req[c].arg
      BY <3>1 DEF ReqShape
    <3> QED BY <2>4, <3>1, <3>2 DEF Move, At
  <2>5. CASE At(c, "send", "expected") /\ Become(c, [req[c] EXCEPT !.pc = "insert", !.conn = FALSE])
    <3>1. PICK q : /\ q = [req[c] EXCEPT !.pc = "insert", !.conn = FALSE]
                   /\ req' = [req EXCEPT ![c] = q]
      BY <2>5 DEF Become
    <3>2. ReqShape(q) /\ q.pc = "insert" /\ q.op = req[c].op /\ q.arg = req[c].arg
      BY <3>1 DEF ReqShape
    <3> QED BY <2>5, <3>1, <3>2 DEF Move, At
  <2> QED BY <1>4, <2>1, <2>2, <2>3, <2>4, <2>5 DEF SubmitTx
<1>5. CASE PendingNonce(c)
  <2>1. CASE At(c, "pending", "start") /\ ReadBlock(c, "nonce")
    <3>1. PICK q : /\ q = [[req[c] EXCEPT !.pc = "nonce", !.block = Latest] EXCEPT !.conn = TRUE]
                   /\ req' = [req EXCEPT ![c] = q]
      BY <2>1 DEF ReadBlock, AcquireAnd, Become
    <3>2. /\ ReqShape(q) /\ q.pc = "nonce" /\ q.op = req[c].op /\ q.arg = req[c].arg
          /\ q.block = Latest
      BY <3>1 DEF ReqShape
    <3> QED BY <2>1, <3>1, <3>2 DEF Move, At
  <2>2. CASE /\ At(c, "pending", "nonce")
             /\ Become(c, [req[c] EXCEPT !.pc = "rows", !.block = NONE,
                                         !.nonce = NonceAt(req[c].arg, req[c].block)])
    <3>1. PICK q, m : /\ q = [req[c] EXCEPT !.pc = "rows", !.block = NONE, !.nonce = m]
                      /\ m = NonceAt(req[c].arg, req[c].block)
                      /\ req' = [req EXCEPT ![c] = q]
      BY <2>2 DEF Become
    <3>2. ReqShape(q) /\ q.pc = "rows" /\ q.op = req[c].op /\ q.arg = req[c].arg /\ q.nonce = m
      BY <3>1 DEF ReqShape
    <3> QED BY <2>2, <3>1, <3>2 DEF Move, At
  <2> QED BY <1>5, <2>1, <2>2, <1>1 DEF PendingNonce
<1>6. CASE CallTransaction(c)
  <2>1. CASE At(c, "call", "start") /\ AcquirePermit(c, "header")
    <3>1. CASE closed
      BY <2>1, <3>1, <1>1 DEF AcquirePermit
    <3>2. CASE ~closed
      <4>1. PICK q : /\ q = [req[c] EXCEPT !.pc = "header", !.permit = TRUE]
                     /\ req' = [req EXCEPT ![c] = q]
        BY <2>1, <3>2 DEF AcquirePermit, Become
      <4>2. ReqShape(q) /\ q.op = req[c].op
        BY <4>1 DEF ReqShape
      <4> QED BY <2>1, <4>1, <4>2 DEF Move, At
    <3> QED BY <3>1, <3>2
  <2>2. CASE At(c, "call", "header") /\ AcquireAnd(c, [req[c] EXCEPT !.pc = "vm"])
    <3>1. PICK q : /\ q = [[req[c] EXCEPT !.pc = "vm"] EXCEPT !.conn = TRUE]
                   /\ req' = [req EXCEPT ![c] = q]
      BY <2>2 DEF AcquireAnd, Become
    <3>2. ReqShape(q) /\ q.op = req[c].op
      BY <3>1 DEF ReqShape
    <3> QED BY <2>2, <3>1, <3>2 DEF Move, At
  <2> QED BY <1>6, <2>1, <2>2, <1>1 DEF CallTransaction
<1>7. CASE HistoricalNonce(c)
  <2>1. CASE /\ At(c, "count", "start")
             /\ \E found : AcquireAnd(c, [req[c] EXCEPT !.pc = "nonce", !.block = found])
    <3>1. PICK q, b : /\ q = [[req[c] EXCEPT !.pc = "nonce", !.block = b] EXCEPT !.conn = TRUE]
                      /\ req' = [req EXCEPT ![c] = q]
      BY <2>1 DEF AcquireAnd, Become
    <3>2. ReqShape(q) /\ q.op = req[c].op
      BY <3>1 DEF ReqShape
    <3> QED BY <2>1, <3>1, <3>2 DEF Move, At
  <2> QED BY <1>7, <2>1, <1>1 DEF HistoricalNonce
<1>8. CASE TransactionReceipt(c)
  <2>1. CASE /\ At(c, "receipt", "start")
             /\ AcquireAnd(c, [req[c] EXCEPT !.pc = "logs",
                                  !.got = ReadReceipts(ReceiptsFor(<< req[c].arg >>), 1)])
    <3>1. PICK q, g : /\ q = [[req[c] EXCEPT !.pc = "logs", !.got = g] EXCEPT !.conn = TRUE]
                      /\ req' = [req EXCEPT ![c] = q]
                      /\ g = ReadReceipts(ReceiptsFor(<< req[c].arg >>), 1)
      BY <2>1, Zenon DEF AcquireAnd, Become
    <3>2. ReqShape(q) /\ q.op = req[c].op /\ q.pc = "logs" /\ q.got = g
      BY <3>1 DEF ReqShape
    <3>3. q.op = "receipt" /\ q.got = ReadReceipts(ReceiptsFor(<< req[c].arg >>), 1)
      BY <2>1, <3>1, <3>2, Zenon DEF At
    <3> QED BY <3>1, <3>2, <3>3, Zenon DEF Move
  <2> QED BY <1>8, <2>1, <1>1 DEF TransactionReceipt
<1>9. CASE BlockReceipts(c)
  <2>1. CASE /\ At(c, "blockReceipts", "start")
             /\ Become(c, [req[c] EXCEPT !.pc = "rows", !.block = BlockOf(req[c].arg),
                             !.got = ReceiptsFor(TransactionsOf(BlockOf(req[c].arg)))])
    <3>1. PICK q, n, g : /\ q = [req[c] EXCEPT !.pc = "rows", !.block = n, !.got = g]
                         /\ req' = [req EXCEPT ![c] = q] /\ n = BlockOf(req[c].arg)
                         /\ g = ReceiptsFor(TransactionsOf(BlockOf(req[c].arg)))
      BY <2>1, Zenon DEF Become
    <3>2. ReqShape(q) /\ q.op = req[c].op /\ q.pc = "rows" /\ q.block = n /\ q.got = g
      BY <3>1 DEF ReqShape
    <3> QED BY <2>1, <3>1, <3>2, Zenon DEF Move, At
  <2>2. CASE /\ At(c, "blockReceipts", "rows")
             /\ AcquireAnd(c, [req[c] EXCEPT !.pc = "logs", !.got = ReadReceipts(req[c].got, 1)])
    <3>1. PICK q, g : /\ q = [[req[c] EXCEPT !.pc = "logs", !.got = g] EXCEPT !.conn = TRUE]
                      /\ req' = [req EXCEPT ![c] = q] /\ g = ReadReceipts(req[c].got, 1)
      BY <2>2, Zenon DEF AcquireAnd, Become
    <3>2. /\ ReqShape(q) /\ q.op = req[c].op /\ q.pc = "logs" /\ q.block = req[c].block
          /\ q.got = g
      BY <3>1 DEF ReqShape
    <3> QED BY <2>2, <3>1, <3>2, Zenon DEF Move, At
  <2> QED BY <1>9, <2>1, <2>2, <1>1 DEF BlockReceipts
<1>10. CASE Query(c)
  BY <1>10, <1>1 DEF Query
<1>11. CASE InsertTransaction(c)
  BY <1>11, <1>1 DEF InsertTransaction
<1> QED BY <1>2, <1>3, <1>4, <1>5, <1>6, <1>7, <1>8, <1>9, <1>10, <1>11 DEF Proceed

\* Tables and requests change in these ways.
LEMMA ApiSteps ==
    ASSUME [Next]_vars
    PROVE  \/ (OtherSubmits \/ Purge \/ SealMiniblock \/ RejectTx) /\ UNCHANGED req
           \/ \E c \in Client : Receive(c) \/ Proceed(c) \/ Abort(c)
           \/ UNCHANGED << rows, blocks, held, purged, req >>
<1>1. CASE UNCHANGED vars
  BY <1>1 DEF vars, netVars, apiVars, dbVars
<1>2. CASE Alone(Servers)
  BY <1>2 DEF Alone, Servers, Environment, Serve, StartHttp, StopHttp, HttpStopped, StartWs, StopWs,
     WsStopped, Accept, Handle, Drop, Notify, Subscribe, Attach, RunSubscriber, Unsubscribe,
     OtherSubmits, Purge, SealMiniblock, RejectTx, apiVars, dbVars
<1>3. CASE Main \/ Interrupt
  BY <1>3 DEF Main, GenesisInit, InitializeComponents, NoticeTaskEnd, Interrupt, MainReturns, Exit,
     apiVars, netVars, dbVars
<1>4. CASE SequencerTask
  BY <1>4 DEF SequencerTask, LoadPendingBatch, WaitForNewBatchParams, LoadPreviousL1BatchHash,
     InitBatch, CloseBatch, ExecuteTx, ExecutorLost, SealMiniblock_Submit,
     WaitForNewMiniblockParams, FinishBatch, SealL1Batch, Canceled, Only_sequencer, apiVars, netVars,
     dbVars
<1>5. CASE ExecutorThread \/ SealerTask \/ TreeSteps \/ UpdaterEnds
           \/ \E t \in DOMAIN task : TaskStops(t)
  BY <1>5 DEF ExecutorThread, ExecutorTx, ExecutorFinish, ExecutorDisconnected, SealerTask,
     SealerSeals, SealerDisconnected, TreeSteps, UpdaterEnds, TaskStops, apiVars, netVars,
     dbVars
<1> QED BY <1>1, <1>2, <1>3, <1>4, <1>5 DEF Next

\* No step of the node changes the tables in another way: the row a submission
\* inserts was checked against an older nonce, and still may be stored.
LEMMA TableSteps ==
    ASSUME TableInv, ReqInv, [Next]_vars
    PROVE  TableStep
<1>1. ASSUME NEW p \in Wellformed, Insert(p), UNCHANGED << blocks, purged >>,
             p.tx.nonce <= NonceNow(p.tx.from) + MaxNonceAhead
      PROVE  TableStep
  BY <1>1 DEF Insert, Put, TableStep
<1>2. CASE OtherSubmits
  <2>1. PICK p \in Wellformed :
           /\ p.tx.nonce \in NonceNow(p.tx.from) .. NonceNow(p.tx.from) + MaxNonceAhead
           /\ Insert(p)
    BY <1>2 DEF OtherSubmits
  <2>2. p.tx.from \in Account /\ p.tx.nonce \in Nat /\ NonceNow(p.tx.from) \in Nat
    BY KeyFacts, NonceFacts DEF TableInv
  <2>3. p.tx.nonce <= NonceNow(p.tx.from) + MaxNonceAhead
    BY <2>1, <2>2, ApiAssumption
  <2>4. UNCHANGED << blocks, purged >>
    BY <1>2 DEF OtherSubmits
  <2> QED BY <1>1, <2>1, <2>3, <2>4
<1>3. ASSUME NEW c \in Client, Receive(c) \/ Abort(c)
      PROVE  TableStep
  BY <1>3 DEF Receive, Abort, dbVars, TableStep
<1>4. ASSUME NEW c \in Client, Proceed(c)
      PROVE  TableStep
  <2>1. UNCHANGED << blocks, purged >>
    BY <1>4 DEF Proceed
  <2>2. CASE UNCHANGED << rows, held >>
    BY <2>1, <2>2 DEF TableStep
  <2>3. CASE ~UNCHANGED << rows, held >>
    <3>1. At(c, "send", "insert") /\ Insert(req[c].arg)
      BY <1>4, <2>3 DEF Proceed, InsertTransaction
    <3>2. PICK p \in Wellformed :
             p = req[c].arg /\ p.tx.nonce <= NonceNow(p.tx.from) + MaxNonceAhead
      BY <3>1 DEF At, ReqInv, SendOk
    <3> QED BY <1>1, <2>1, <3>1, <3>2
  <2> QED BY <2>2, <2>3
<1> QED BY <1>2, <1>3, <1>4, ApiSteps DEF TableStep

\* A request that only waits stays in order while the tables grow.
LEMMA WaitingKept ==
    ASSUME Grows, NEW r, SendOk(r), PendingOk(r)
    PROVE  SendOk(r)' /\ PendingOk(r)'
<1>1. ASSUME r.op = "send", r.pc \in {"permit", "expect", "expected", "insert"}
      PROVE  r.arg.tx.nonce <= NonceNow(r.arg.tx.from)' + MaxNonceAhead
  <2>1. PICK p \in Wellformed : p = r.arg
    BY <1>1 DEF SendOk
  <2>2. p.tx.nonce <= NonceNow(p.tx.from) + MaxNonceAhead
    BY <1>1, <2>1 DEF SendOk
  <2>3. p.tx.from \in Account /\ p.tx.nonce \in Nat
    BY KeyFacts
  <2>4. /\ NonceNow(p.tx.from) \in Nat /\ NonceNow(p.tx.from)' \in Nat
        /\ NonceNow(p.tx.from) <= NonceNow(p.tx.from)'
    BY <2>3 DEF Grows
  <2>5. p.tx.nonce <= NonceNow(p.tx.from)' + MaxNonceAhead
    BY <2>2, <2>3, <2>4, ApiAssumption
  <2> QED BY <2>1, <2>5
<1>2. ASSUME r.op = "pending", r.pc = "rows"
      PROVE  r.nonce <= NonceNow(r.arg)'
  <2>1. r.arg \in Account /\ r.nonce \in Nat /\ r.nonce <= NonceNow(r.arg)
    BY <1>2 DEF PendingOk
  <2>2. /\ NonceNow(r.arg) \in Nat /\ NonceNow(r.arg)' \in Nat
        /\ NonceNow(r.arg) <= NonceNow(r.arg)'
    BY <2>1 DEF Grows
  <2> QED BY <2>1, <2>2
<1>3. \A b \in 0 .. Latest : b \in 0 .. Latest'
  BY DEF Grows
<1>4. SendOk(r)'
  BY <1>1, <1>3 DEF SendOk
<1>5. PendingOk(r)'
  <2>1. r.op = "pending" /\ r.pc = "rows" => r.nonce \in Nat
    BY DEF PendingOk
  <2> QED BY <1>2, <1>3, <2>1 DEF PendingOk
<1> QED BY <1>4, <1>5

\* A request that moves is in order in the state it moves in.
LEMMA MovedOk ==
    ASSUME TableInv, NEW r, SendOk(r), PendingOk(r), NEW q, Move(r, q)
    PROVE  SendOk(q) /\ PendingOk(q)
<1>0. Latest \in 0 .. Latest
  BY NonceFacts DEF TableInv
<1>1. \A a \in Account, b \in 0 .. Latest :
         NonceAt(a, b) \in Nat /\ NonceNow(a) \in Nat /\ NonceAt(a, b) <= NonceNow(a)
  BY <1>0, NonceFacts DEF TableInv, NoncesInv, NonceNow
<1>2. CASE /\ r.op = "send" /\ q.op = "send" /\ q.arg = r.arg
           /\ r.pc = "check" /\ q.pc = "permit"
           /\ r.arg.tx.nonce \in NonceAt(r.arg.tx.from, r.block) ..
                                 NonceAt(r.arg.tx.from, r.block) + MaxNonceAhead
  <2>1. PICK p \in Wellformed, b \in 0 .. Latest : p = r.arg /\ b = r.block
    BY <1>2 DEF SendOk
  <2>2. p.tx.from \in Account /\ p.tx.nonce \in Nat
    BY KeyFacts
  <2>3. p.tx.nonce <= NonceAt(p.tx.from, b) + MaxNonceAhead
    BY <1>2, <2>1, <2>2, <1>1, ApiAssumption
  <2>4. p.tx.nonce <= NonceNow(p.tx.from) + MaxNonceAhead
    BY <2>2, <2>3, <1>1, ApiAssumption
  <2> QED BY <1>2, <2>1, <2>4 DEF SendOk, PendingOk
<1>3. CASE /\ r.op = "pending" /\ q.op = "pending" /\ q.arg = r.arg
           /\ r.pc = "nonce" /\ q.pc = "rows" /\ q.nonce = NonceAt(r.arg, r.block)
  BY <1>1, <1>3 DEF SendOk, PendingOk
<1>4. CASE /\ r.op = "send" /\ q.op = "send" /\ q.arg = r.arg
           /\ \/ r.pc = "validate" /\ q.pc = "check" /\ q.block = Latest
              \/ << r.pc, q.pc >> \in
                   {<< "permit", "expect" >>, << "expect", "expected" >>,
                    << "expected", "insert" >>}
  BY <1>0, <1>4 DEF SendOk, PendingOk
<1>5. CASE \/ q.pc = "answered"
           \/ q.pc = "start" /\ (q.op = "pending" => q.arg \in Account)
           \/ q.op = "send" /\ q.pc = "validate" /\ q.arg \in Wellformed
           \/ q.op \in {"call", "count", "receipt", "blockReceipts", "query"}
           \/ /\ r.op = "pending" /\ q.op = "pending" /\ q.arg = r.arg
              /\ r.pc = "start" /\ q.pc = "nonce" /\ q.block = Latest
  BY <1>0, <1>5 DEF SendOk, PendingOk
<1> QED BY <1>2, <1>3, <1>4, <1>5 DEF Move

\* The two together: neither is inductive alone.
TablesInv == TableInv /\ ReqInv

\* Every step of the node keeps tables and requests in order.
LEMMA TablesStep == TablesInv /\ [Next]_vars => TablesInv'
<1> SUFFICES ASSUME TableInv, ReqInv, [Next]_vars PROVE TableInv' /\ ReqInv'
  BY DEF TablesInv
<1>1. TableInv' /\ Grows
  BY TableSteps, TablesKept
<1>2. ASSUME NEW r, SendOk(r), PendingOk(r)
      PROVE  SendOk(r)' /\ PendingOk(r)'
  BY <1>1, <1>2, WaitingKept
<1>3. CASE UNCHANGED req
  BY <1>1, <1>2, <1>3 DEF ReqInv
<1>4. ASSUME NEW c \in Client, Receive(c) \/ Proceed(c) \/ Abort(c)
      PROVE  ReqInv'
  <2>1. ReqShape(req[c]) /\ SendOk(req[c]) /\ PendingOk(req[c])
    BY DEF ReqInv
  <2>2. PICK q : req' = [req EXCEPT ![c] = q] /\ ReqShape(q) /\ Move(req[c], q)
    BY <1>4, <2>1, ReqMoves
  <2>3. SendOk(q)' /\ PendingOk(q)'
    BY <1>2, <2>1, <2>2, MovedOk
  <2> QED BY <1>2, <2>2, <2>3 DEF ReqInv
<1> QED BY <1>1, <1>3, <1>4, ApiSteps

\* They are in order when the node starts.
LEMMA TablesStart == Init => TablesInv
<1> SUFFICES ASSUME Init PROVE TableInv /\ ReqInv
  BY DEF TablesInv
<1>1. /\ rows = [k \in Account \X Nonce |-> NONE]
      /\ blocks = << >> /\ held = {} /\ purged = {}
      /\ req = [c \in Client |-> Unused]
  BY DEF Init, ServersInit, ApiInit
<1>2. Latest = 0 /\ \A a \in Account : NonceAt(a, 0) = 0 /\ NonceNow(a) = 0
  BY <1>1 DEF Latest, NonceNow, NonceAt
<1>3. TableInv
  <2>1. \A k \in DOMAIN rows : ~Present(k) /\ ~Executed(k)
    BY <1>1 DEF Present, Executed
  <2>2. TablesType /\ HeldInv /\ RowsInv
    BY <1>1, <2>1 DEF TablesType, HeldInv, RowsInv
  <2>3. NoncesInv
    BY <1>2, <2>1 DEF NoncesInv
  <2>4. BlocksInv
    BY <1>2 DEF BlocksInv
  <2> QED BY <2>2, <2>3, <2>4 DEF TableInv
<1>4. ReqShape(Unused) /\ Unused.pc = "idle"
  BY DEF ReqShape, Unused
<1>5. SendOk(Unused) /\ PendingOk(Unused)
  BY <1>4 DEF SendOk, PendingOk
<1> QED BY <1>1, <1>3, <1>4, <1>5 DEF ReqInv

\* They are always in order.
LEMMA TablesInvariant == Spec => []TablesInv
BY TablesStart, TablesStep, PTL DEF Spec


-----------------------------------------------------------------------------
(* The pending nonce. *)

\* FirstGap is the first number from `from' that is not in S, if S has no gap
\* right below `from'.
LEMMA FirstGapIs ==
    ASSUME NEW from \in Nat, NEW S \in SUBSET Nat, NEW v \in Nat, v >= from,
           \A x \in from .. v - 1 : x \in S, v \notin S,
           \A x \in S : x + 1 < from => x + 1 \in S
    PROVE  FirstGap(from, S) = v
<1> DEFINE C == {from} \cup {m + 1 : m \in S}
           P(n) == (\A m \in from .. n - 1 : m \in S) /\ n \notin S
<1>1. v \in C /\ P(v)
  <2>1. CASE v = from
    BY <2>1
  <2>2. CASE v # from
    <3>1. v - 1 \in S /\ v = (v - 1) + 1
      BY <2>2
    <3> QED BY <3>1
  <2> QED BY <2>1, <2>2
<1>2. ASSUME NEW n \in C, P(n) PROVE n = v
  <2>1. n \in Nat /\ (n < from => n \in S)
    BY <1>2
  <2>2. n >= from
    BY <2>1, <1>2
  <2>3. ~(n < v)
    BY <2>1, <2>2, <1>2
  <2>4. ~(v < n)
    BY <2>1, <2>2, <1>2
  <2> QED BY <2>1, <2>3, <2>4
<1>3. FirstGap(from, S) = CHOOSE n \in C : P(n)
  BY DEF FirstGap
<1> HIDE DEF C, P
<1>4. (CHOOSE n \in C : P(n)) \in C /\ P(CHOOSE n \in C : P(n))
  BY <1>1, Zenon
<1> QED BY <1>2, <1>3, <1>4

\* A set of numbers with a member has a least one.
LEMMA LeastOf ==
    ASSUME NEW S \in SUBSET Nat, S # {}
    PROVE  \E x \in S : \A y \in S : x <= y
<1>1. PICK x \in S : \A y \in S : ~ (<< y, x >> \in OpToRel(<, Nat))
  BY NatLessThanWellFounded, WFMin, Zenon
<1>2. \A y \in S : ~ (y < x)
  BY <1>1, Zenon DEF OpToRel
<1> QED BY <1>2

\* The three statements of the pending nonce read what one would
\* (next_nonce_by_initiator_account).
LEMMA PendingRead == TablesInv => PendingNonceIsAtomic
<1> SUFFICES ASSUME TableInv, ReqInv, NEW c \in Client, At(c, "pending", "rows"),
                    \A n \in req[c].nonce .. NonceNow(req[c].arg) - 1 :
                        << req[c].arg, n >> \notin purged
             PROVE  LET a == req[c].arg
                        taken == {n \in Nonce :
                                    /\ n >= NonceNow(a)
                                    /\ Executed(<< a, n >>) \/ Waiting(<< a, n >>)}
                    IN  PendingAnswer(c) = FirstGap(NonceNow(a), taken)
  BY DEF TablesInv, PendingNonceIsAtomic
<1>1. PICK a \in Account, m \in Nat : a = req[c].arg /\ m = req[c].nonce /\ m <= NonceNow(a)
  BY DEF At, ReqInv, PendingOk
<1>2. PICK h \in Nat : h = NonceNow(a)
  BY NonceFacts DEF TableInv
<1> DEFINE taken == {n \in Nonce : n >= h /\ (Executed(<< a, n >>) \/ Waiting(<< a, n >>))}
           free == {n \in Nat : n >= h /\ n \notin taken}
           read == {n \in Nonce : n >= m /\ (Executed(<< a, n >>) \/ Waiting(<< a, n >>))}
<1>3. taken \subseteq 0 .. MaxNonce /\ taken \subseteq read /\ read \in SUBSET Nat
      /\ MaxNonce \in Nat
  <2>1. MaxNonce \in Nat /\ Nonce \subseteq 0 .. MaxNonce
    BY ApiAssumption
  <2>2. Nonce \subseteq Nat
    BY <2>1
  <2>3. taken \subseteq Nonce /\ read \subseteq Nonce
    OBVIOUS
  <2>4. ASSUME NEW n \in taken PROVE n \in read
    <3>1. n \in Nonce /\ n >= h /\ (Executed(<< a, n >>) \/ Waiting(<< a, n >>))
      OBVIOUS
    <3>2. n >= m
      BY <3>1, <2>2, <1>1, <1>2
    <3> QED BY <3>1, <3>2
  <2> HIDE DEF taken, read
  <2> QED BY <2>1, <2>2, <2>3, <2>4
<1>4. \A n \in m .. h - 1 : n \in read
  <2> SUFFICES ASSUME NEW n \in m .. h - 1 PROVE n \in read
    OBVIOUS
  <2>1. << a, n >> \notin purged /\ n \in Nat /\ n < NonceNow(a) /\ n >= m
    BY <1>1, <1>2
  <2>2. << a, n >> \in DOMAIN rows /\ Executed(<< a, n >>)
    BY <2>1 DEF TableInv, NoncesInv
  <2>3. n \in Nonce
    BY <2>2 DEF TableInv, TablesType
  <2> QED BY <2>1, <2>2, <2>3
<1>5. \A n \in read : n >= m /\ (n >= h => n \in taken)
  OBVIOUS
<1>6. \A n \in taken : n >= h
  OBVIOUS
<1> HIDE DEF taken, read
<1>7. MaxNonce + 1 + h \in free
  BY <1>3
<1>8. PICK v \in free : \A y \in free : v <= y
  BY <1>7, LeastOf
<1>9. v \in Nat /\ v >= h /\ v \notin taken /\ \A x \in h .. v - 1 : x \in taken
  <2>1. \A x \in Nat : x >= h /\ x \notin taken => v <= x
    BY <1>8
  <2> QED BY <1>8, <2>1
<1>10. FirstGap(h, taken) = v
  <2>1. \A x \in taken : x + 1 < h => x + 1 \in taken
    BY <1>3, <1>6
  <2>2. taken \in SUBSET Nat
    BY <1>3
  <2> QED BY <1>9, <2>1, <2>2, FirstGapIs
<1>11. FirstGap(m, read) = v
  <2>1. v >= m /\ v \notin read
    BY <1>1, <1>2, <1>5, <1>9
  <2>2. \A x \in m .. v - 1 : x \in read
    BY <1>1, <1>2, <1>3, <1>4, <1>9
  <2>3. \A x \in read : x + 1 < m => x + 1 \in read
    BY <1>3, <1>5
  <2> QED BY <1>3, <1>9, <2>1, <2>2, <2>3, FirstGapIs
<1>12. PendingAnswer(c) = FirstGap(m, read)
  BY <1>1, Zenon DEF PendingAnswer, NonRejected, read
<1>13. PendingAnswer(c) = FirstGap(h, taken)
  BY <1>10, <1>11, <1>12, Zenon
<1> QED BY <1>1, <1>2, <1>13, Zenon DEF taken

\* The pending nonce an API answers is that of one moment, for any number of
\* accounts, nonces and requests and whatever is submitted, sealed, rejected or
\* deleted meanwhile, unless a transaction between the nonce it has read and the
\* account's was in memory when the account was purged
\* (next_nonce_by_initiator_account).
THEOREM PendingNonceHolds == Spec => []PendingNonceIsAtomic
BY TablesInvariant, PendingRead, PTL

-----------------------------------------------------------------------------
(* Admission. *)

\* The waiting transactions of an account are not too far ahead.
AheadInv ==
    \A k \in DOMAIN rows : Waiting(k) => k[2] <= NonceNow(k[1]) + MaxNonceAhead

\* What becomes a waiting transaction was just stored.
LEMMA NewlyWaiting ==
    ASSUME TableInv, TableStep, NEW k \in DOMAIN rows, Waiting(k)', ~Waiting(k)
    PROVE  \E p \in Wellformed : Put(p) /\ k = KeyOf(p)
<1>1. rows'[k] # rows[k]
  BY DEF Waiting, Present
<1>2. ~Purge
  <2> SUFFICES ASSUME Purge PROVE FALSE
    OBVIOUS
  <2>1. rows'[k] = NONE \/ rows'[k] = rows[k]
    BY DEF Purge
  <2> QED BY <1>1, <2>1 DEF Waiting, Present
<1>3. ~SealMiniblock
  <2> SUFFICES ASSUME SealMiniblock PROVE FALSE
    OBVIOUS
  <2>1. PICK a, lo, hi, run : SealedRun(a, lo, hi, run)
    BY SealFacts
  <2>2. rows'[k] = [sub |-> run[k[2]], miniblock |-> Latest + 1,
                    index |-> k[2] - lo, error |-> FALSE]
    BY <1>1, <2>1 DEF SealedRun
  <2>3. rows'[k].miniblock = Latest + 1 /\ Latest + 1 # NONE
    BY <2>2, NonceFacts, ApiAssumption DEF TableInv
  <2> QED BY <2>3 DEF Waiting
<1>4. ~RejectTx
  <2> SUFFICES ASSUME RejectTx PROVE FALSE
    OBVIOUS
  <2>1. PICK p : rows' = [x \in DOMAIN rows |->
                    IF Present(x) /\ rows[x].sub.hash = p.hash
                    THEN [rows[x] EXCEPT !.error = TRUE] ELSE rows[x]]
    BY DEF RejectTx
  <2>2. PICK r : r = rows[k]
    OBVIOUS
  <2>3. Present(k) /\ rows'[k] = [r EXCEPT !.error = TRUE]
    BY <1>1, <2>1, <2>2
  <2>4. r \in TableRow
    BY <2>2, <2>3 DEF TableInv, TablesType, RowOk
  <2>5. rows'[k].error
    BY <2>3, <2>4 DEF TableRow
  <2> QED BY <2>5 DEF Waiting
<1>5. PICK p \in Wellformed : Put(p)
  BY <1>1, <1>2, <1>3, <1>4 DEF TableStep
<1>6. k = KeyOf(p)
  BY <1>1, <1>5 DEF Put
<1> QED BY <1>5, <1>6

\* No step lets a waiting transaction be too far ahead: the nonce it was checked
\* against may be old, but the account's nonce only grows.
LEMMA AheadStep == TablesInv /\ AheadInv /\ [Next]_vars => AheadInv'
<1> SUFFICES ASSUME TableInv, ReqInv, AheadInv, [Next]_vars,
                    NEW k \in DOMAIN rows', Waiting(k)'
             PROVE  k[2] <= NonceNow(k[1])' + MaxNonceAhead
  BY DEF TablesInv, AheadInv
<1>1. Grows /\ TableStep
  BY TableSteps, TablesKept
<1>2. k \in DOMAIN rows /\ k[1] \in Account /\ k[2] \in Nat
  BY <1>1, KeysOfTable DEF TableInv, Grows
<1>3. NonceNow(k[1]) \in Nat /\ NonceNow(k[1])' \in Nat /\ NonceNow(k[1]) <= NonceNow(k[1])'
  BY <1>1, <1>2 DEF Grows
<1>4. MaxNonceAhead \in Nat
  BY ApiAssumption
<1>5. k[2] <= NonceNow(k[1]) + MaxNonceAhead
  <2>1. CASE Waiting(k)
    BY <1>2, <2>1 DEF AheadInv
  <2>2. CASE ~Waiting(k)
    <3>1. PICK p \in Wellformed : Put(p) /\ k = KeyOf(p)
      BY <1>1, <1>2, <2>2, NewlyWaiting
    <3> QED BY <3>1, KeyFacts DEF Put
  <2> QED BY <2>1, <2>2
<1> QED BY <1>2, <1>3, <1>4, <1>5

\* What the tables' invariants say of a waiting transaction.
LEMMA WaitingRead == TablesInv /\ AheadInv => WaitingIsAdmissible
<1> SUFFICES ASSUME TableInv, AheadInv, NEW k \in DOMAIN rows, Waiting(k)
             PROVE  /\ k[2] <= NonceNow(k[1]) + MaxNonceAhead
                    /\ k[2] >= NonceNow(k[1]) \/ k \in purged
  BY DEF TablesInv, WaitingIsAdmissible
<1>1. k = << k[1], k[2] >> /\ k[1] \in Account /\ k[2] \in Nat /\ NonceNow(k[1]) \in Nat
  BY KeysOfTable, NonceFacts DEF TableInv
<1>2. ASSUME k[2] < NonceNow(k[1]) PROVE k \in purged
  <2>1. << k[1], k[2] >> \in purged \/ Executed(<< k[1], k[2] >>)
    BY <1>1, <1>2 DEF TableInv, NoncesInv
  <2>2. k \in purged \/ Executed(k)
    BY <1>1, <2>1, Zenon
  <2> QED BY <2>2 DEF Waiting, Executed
<1>3. k[2] <= NonceNow(k[1]) + MaxNonceAhead
  BY DEF AheadInv
<1> QED BY <1>1, <1>2, <1>3

\* What waits has a nonce in the range that submit_tx checks, although it checked
\* it in an older state, for any transactions that clients send; below the
\* account's nonce there are only transactions of accounts that were purged with
\* them in memory.
THEOREM AdmissionHolds == Spec => []WaitingIsAdmissible
<1>1. Init => AheadInv
  BY DEF Init, ServersInit, ApiInit, AheadInv, Waiting, Present
<1> QED BY <1>1, WaitingRead, AheadStep, TablesInvariant, PTL DEF Spec
-----------------------------------------------------------------------------
(* From the wallet to the node. *)

\* The items of two sequences put together.
LEMMA Concat ==
    ASSUME NEW X, NEW s \in Seq(X), NEW t \in Seq(X)
    PROVE  /\ s \o t \in Seq(X) /\ Len(s \o t) = Len(s) + Len(t)
           /\ \A i \in 1 .. Len(s) : (s \o t)[i] = s[i]
           /\ \A i \in 1 .. Len(t) : (s \o t)[Len(s) + i] = t[i]
OBVIOUS

\* The encoding of a raw request has eleven items.
LEMMA RawItems ==
    ASSUME NEW r, IsRaw(r), r.meta
    PROVE  LET items == Encode(r).items IN
           /\ Len(items) = 11
           /\ items[1] = Append_int(r.nonce) /\ items[2] = Rlp_opt(r.to)
           /\ items[3] = Str(r.input) /\ items[7] = Append_int(r.chain)
           /\ items[8] = Rlp_opt(r.from) /\ items[9] = MetaItems(r)[1]
           /\ items[10] = MetaItems(r)[2] /\ items[11] = MetaItems(r)[3]
<1>1. PICK X : /\ Append_int(r.nonce) \in X /\ Rlp_opt(r.to) \in X /\ Str(r.input) \in X
               /\ Str("v") \in X /\ Str("r") \in X /\ Str("s") \in X
               /\ Append_int(r.chain) \in X /\ Rlp_opt(r.from) \in X
               /\ Lst(IF r.deps = NONE THEN <<>> ELSE r.deps) \in X /\ Rlp_opt(r.sig) \in X
               /\ Lst(IF r.paymaster = NONE THEN <<>> ELSE r.paymaster) \in X
  <2> DEFINE Y == {Append_int(r.nonce), Rlp_opt(r.to), Str(r.input), Str("v"), Str("r"), Str("s"),
                   Append_int(r.chain), Rlp_opt(r.from),
                   Lst(IF r.deps = NONE THEN <<>> ELSE r.deps), Rlp_opt(r.sig),
                   Lst(IF r.paymaster = NONE THEN <<>> ELSE r.paymaster)}
  <2> WITNESS Y
  <2> QED OBVIOUS
<1> DEFINE a == << Append_int(r.nonce), Rlp_opt(r.to), Str(r.input) >>
           b == << Str("v"), Str("r"), Str("s") >>
           c == << Append_int(r.chain), Rlp_opt(r.from) >>
           d == MetaItems(r)
<1>2. a \in Seq(X) /\ Len(a) = 3
  BY <1>1
<1>3. b \in Seq(X) /\ Len(b) = 3
  BY <1>1
<1>4. c \in Seq(X) /\ Len(c) = 2
  BY <1>1
<1>5. d \in Seq(X) /\ Len(d) = 3
  BY <1>1 DEF MetaItems
<1>6. Encode(r).items = << >> \o a \o b \o c \o d
  BY DEF Encode
<1>7. a[1] = Append_int(r.nonce) /\ a[2] = Rlp_opt(r.to) /\ a[3] = Str(r.input)
  OBVIOUS
<1>8. c[1] = Append_int(r.chain) /\ c[2] = Rlp_opt(r.from)
  OBVIOUS
<1> HIDE DEF a, b, c, d
<1>9. PICK s : s = << >> \o a
  OBVIOUS
<1>10. s \in Seq(X) /\ Len(s) = 3 /\ s[1] = a[1] /\ s[2] = a[2] /\ s[3] = a[3]
  <2>1. << >> \in Seq(X) /\ Len(<< >>) = 0
    OBVIOUS
  <2>2. /\ s \in Seq(X) /\ Len(s) = 0 + 3
        /\ \A i \in 1 .. 3 : s[0 + i] = a[i]
    BY <1>2, <1>9, <2>1, Concat
  <2> QED BY <2>2
<1>11. PICK t : t = s \o b
  OBVIOUS
<1>12. t \in Seq(X) /\ Len(t) = 6 /\ t[1] = a[1] /\ t[2] = a[2] /\ t[3] = a[3]
  <2>1. s \in Seq(X) /\ b \in Seq(X)
    BY <1>10, <1>3
  <2>2. /\ t \in Seq(X) /\ Len(t) = Len(s) + Len(b)
        /\ \A i \in 1 .. Len(s) : t[i] = s[i]
        /\ \A i \in 1 .. Len(b) : t[Len(s) + i] = b[i]
    BY <2>1, <1>11, Concat
  <2>3. t \in Seq(X) /\ Len(t) = 3 + 3 /\ \A i \in 1 .. 3 : t[i] = s[i]
    BY <1>10, <1>3, <2>2
  <2> QED BY <1>10, <2>3
<1>13. PICK u : u = t \o c
  OBVIOUS
<1>14. u \in Seq(X) /\ Len(u) = 8 /\ u[1] = a[1] /\ u[2] = a[2] /\ u[3] = a[3]
       /\ u[7] = c[1] /\ u[8] = c[2]
  <2>1. t \in Seq(X) /\ c \in Seq(X)
    BY <1>12, <1>4
  <2>2. /\ u \in Seq(X) /\ Len(u) = Len(t) + Len(c)
        /\ \A i \in 1 .. Len(t) : u[i] = t[i]
        /\ \A i \in 1 .. Len(c) : u[Len(t) + i] = c[i]
    BY <2>1, <1>13, Concat
  <2>3. /\ u \in Seq(X) /\ Len(u) = 6 + 2 /\ \A i \in 1 .. 6 : u[i] = t[i]
        /\ \A i \in 1 .. 2 : u[6 + i] = c[i]
    BY <1>12, <1>4, <2>2
  <2>4. u[6 + 1] = c[1] /\ u[6 + 2] = c[2] /\ u[1] = t[1] /\ u[2] = t[2] /\ u[3] = t[3]
    BY <2>3
  <2> QED BY <1>12, <2>3, <2>4
<1>15. PICK v : v = u \o d
  OBVIOUS
<1>16. Len(v) = 11 /\ v[1] = a[1] /\ v[2] = a[2] /\ v[3] = a[3]
       /\ v[7] = c[1] /\ v[8] = c[2] /\ v[9] = d[1] /\ v[10] = d[2] /\ v[11] = d[3]
  <2>1. u \in Seq(X) /\ d \in Seq(X)
    BY <1>14, <1>5
  <2>2. /\ v \in Seq(X) /\ Len(v) = Len(u) + Len(d)
        /\ \A i \in 1 .. Len(u) : v[i] = u[i]
        /\ \A i \in 1 .. Len(d) : v[Len(u) + i] = d[i]
    BY <2>1, <1>15, Concat
  <2>3. /\ Len(v) = 8 + 3 /\ \A i \in 1 .. 8 : v[i] = u[i]
        /\ \A i \in 1 .. 3 : v[8 + i] = d[i]
    BY <1>14, <1>5, <2>2
  <2>4. v[8 + 1] = d[1] /\ v[8 + 2] = d[2] /\ v[8 + 3] = d[3]
    BY <2>3
  <2>5. v[1] = u[1] /\ v[2] = u[2] /\ v[3] = u[3] /\ v[7] = u[7] /\ v[8] = u[8]
    BY <2>3
  <2> QED BY <1>14, <2>3, <2>4, <2>5
<1>17. Encode(r).items = v
  BY <1>6, <1>9, <1>11, <1>13, <1>15, Zenon
<1> QED BY <1>7, <1>8, <1>16, <1>17, Zenon DEF d

\* What a user orders from the wallet: addresses, calldata and nonce are
\* there, and it is signed for the wallet's own account.
Order(w, chain) ==
    /\ w.nonce \in Nat /\ chain \in Nat
    /\ w.address # NONE /\ w.to # NONE /\ w.calldata # NONE
    /\ w.from \in {NONE, w.address}
    /\ SignExecuteContract(w, chain) # NONE

\* The bytes were made by a wallet of the SDK.
WalletMade(b) == \E w, chain : Order(w, chain) /\ b = CreateTxRaw(w, chain)

\* What is put into an item is what is read from it.
LEMMA ItemsDecode ==
    ASSUME NEW items, NEW i, NEW v, NONE \notin Nat
    PROVE  /\ v \in Nat /\ items[i] = Append_int(v) => IntAt(items, i) = v
           /\ v # NONE /\ items[i] = Rlp_opt(v) =>
                AddressAt(items, i) = v /\ BytesAt(items, i) = v
           /\ v # NONE /\ items[i] = Str(v) => BytesAt(items, i) = v
           /\ items[i] = Lst(v) => ListAt(items, i) = v
<1>1. ASSUME NEW u PROVE /\ Str(u).kind = "data" /\ Str(u).val = u
                         /\ Lst(u).kind = "list" /\ Lst(u).val = u
  BY DEF Str, Lst
<1>2. v # NONE => Str(v) # EmptyStr
  BY <1>1 DEF EmptyStr
<1>3. ASSUME v \in Nat, items[i] = Append_int(v) PROVE IntAt(items, i) = v
  <2>1. CASE v = 0
    BY <1>3, <2>1 DEF Append_int, IntAt
  <2>2. CASE v # 0
    <3>1. items[i] = Str(v) /\ v # NONE
      BY <1>3, <2>2 DEF Append_int
    <3> QED BY <3>1, <1>1, <1>2 DEF IntAt
  <2> QED BY <2>1, <2>2
<1>4. ASSUME v # NONE, items[i] = Rlp_opt(v) \/ items[i] = Str(v)
      PROVE  AddressAt(items, i) = v /\ BytesAt(items, i) = v
  <2>1. items[i] = Str(v)
    BY <1>4 DEF Rlp_opt
  <2> QED BY <2>1, <1>1, <1>2, <1>4 DEF AddressAt, BytesAt
<1>5. ASSUME items[i] = Lst(v) PROVE ListAt(items, i) = v
  BY <1>1, <1>5 DEF ListAt
<1> QED BY <1>3, <1>4, <1>5

\* The request that a wallet encodes.
WalletRequest(w, chain) ==
    [IntoRequest(BuildTx(w, chain)) EXCEPT !.from = w.address, !.chain = chain]

\* Its fields are those of the order.
LEMMA WalletRequestIs ==
    ASSUME NEW w, NEW chain
    PROVE  LET r == WalletRequest(w, chain) IN
           /\ r.type = "OlaRaw" /\ r.nonce = w.nonce /\ r.from = w.address /\ r.to = w.to
           /\ r.input = w.calldata /\ r.deps = w.deps /\ r.sig = SignExecuteContract(w, chain)
           /\ r.paymaster = NONE /\ r.chain = chain /\ r.meta
BY DEF WalletRequest, IntoRequest, BuildTx

\* Absent dependencies are an empty list on the wire.
DepsOf(w) == IF w.deps = NONE THEN << >> ELSE w.deps

\* What the node decodes is what was ordered.
LEMMA WalletDecodes ==
    ASSUME NEW w, NEW chain, Order(w, chain), NONE \notin Nat
    PROVE  LET b == CreateTxRaw(w, chain) IN
           /\ b.type = "OlaRaw" /\ IntAt(b.items, 7) = chain
           /\ DecodeRaw(b) =
                [type |-> "OlaRaw", nonce |-> w.nonce, to |-> w.to, input |-> w.calldata,
                 chain |-> chain, from |-> w.address, deps |-> DepsOf(w),
                 sig |-> SignExecuteContract(w, chain), paymaster |-> NONE, meta |-> TRUE]
<1>1. PICK r : r = WalletRequest(w, chain)
  OBVIOUS
<1>2. /\ r.type = "OlaRaw" /\ r.nonce = w.nonce /\ r.from = w.address /\ r.to = w.to
      /\ r.input = w.calldata /\ r.deps = w.deps /\ r.sig = SignExecuteContract(w, chain)
      /\ r.paymaster = NONE /\ r.chain = chain /\ r.meta
  BY <1>1, WalletRequestIs
<1>3. PICK b : b = CreateTxRaw(w, chain)
  OBVIOUS
<1>4. b = Encode(r) /\ b.type = r.type
  <2>1. b = Encode(r)
    BY <1>1, <1>3, Zenon DEF CreateTxRaw, WalletRequest
  <2> QED BY <2>1 DEF Encode
<1>5. IsRaw(r)
  BY <1>2 DEF IsRaw
<1>6. PICK items : items = b.items
  OBVIOUS
<1>7. /\ items[1] = Append_int(r.nonce) /\ items[2] = Rlp_opt(r.to)
      /\ items[3] = Str(r.input) /\ items[7] = Append_int(r.chain)
      /\ items[8] = Rlp_opt(r.from) /\ items[9] = MetaItems(r)[1]
      /\ items[10] = MetaItems(r)[2] /\ items[11] = MetaItems(r)[3]
  BY <1>2, <1>4, <1>5, <1>6, RawItems
<1>8. /\ MetaItems(r)[1] = Lst(DepsOf(w)) /\ MetaItems(r)[2] = Rlp_opt(r.sig)
      /\ MetaItems(r)[3] = Lst(<< >>)
  BY <1>2 DEF MetaItems, DepsOf
<1>9. /\ r.nonce \in Nat /\ r.chain \in Nat /\ r.to # NONE /\ r.input # NONE /\ r.from # NONE
      /\ r.sig # NONE
  BY <1>2 DEF Order
<1>10. IntAt(items, 1) = r.nonce /\ IntAt(items, 7) = r.chain
  BY <1>7, <1>9, ItemsDecode
<1>11. ASSUME NEW i, NEW v, v # NONE, items[i] = Rlp_opt(v) \/ items[i] = Str(v)
       PROVE  BytesAt(items, i) = v
  BY <1>11, ItemsDecode
<1>12. /\ AddressAt(items, 2) = r.to /\ AddressAt(items, 8) = r.from
       /\ BytesAt(items, 3) = r.input /\ BytesAt(items, 10) = r.sig
  <2>1. BytesAt(items, 3) = r.input /\ BytesAt(items, 10) = r.sig
    BY <1>7, <1>8, <1>9, <1>11, Zenon
  <2>2. ASSUME NEW i, NEW v, v # NONE, items[i] = Rlp_opt(v)
        PROVE  AddressAt(items, i) = v
    BY <2>2, ItemsDecode
  <2> QED BY <1>7, <1>9, <2>1, <2>2, Zenon
<1>13. ListAt(items, 9) = DepsOf(w) /\ ListAt(items, 11) = << >>
  BY <1>7, <1>8, ItemsDecode
<1>14. DecodeRaw(b) =
         [type |-> "OlaRaw", nonce |-> IntAt(items, 1), to |-> AddressAt(items, 2),
          input |-> BytesAt(items, 3), chain |-> IntAt(items, 7),
          from |-> AddressAt(items, 8), deps |-> ListAt(items, 9),
          sig |-> BytesAt(items, 10), paymaster |-> NONE, meta |-> TRUE]
  BY <1>6, <1>13 DEF DecodeRaw
<1> QED BY <1>2, <1>3, <1>4, <1>6, <1>10, <1>11, <1>12, <1>13, <1>14

\* The bytes of a request in the wallet's format.
RawBytes(nonce, to, input, chain, from, deps, sig) ==
    [type |-> "OlaRaw",
     items |->
        << >> \o << Append_int(nonce), Rlp_opt(to), Str(input) >>
        \o << Str("v"), Str("r"), Str("s") >>
        \o << Append_int(chain), Rlp_opt(from) >>
        \o << Lst(deps), Rlp_opt(sig), Lst(<< >>) >>]

\* Two requests that differ in absent and empty dependencies are encoded alike.
LEMMA EncodeIs ==
    ASSUME NEW r, r.type = "OlaRaw", r.meta, r.paymaster = NONE
    PROVE  Encode(r) = RawBytes(r.nonce, r.to, r.input, r.chain, r.from,
                                IF r.deps = NONE THEN << >> ELSE r.deps, r.sig)
<1>1. IsRaw(r)
  BY DEF IsRaw
<1>2. MetaItems(r) = << Lst(IF r.deps = NONE THEN << >> ELSE r.deps), Rlp_opt(r.sig), Lst(<< >>) >>
  BY DEF MetaItems
<1>3. (IF IsRaw(r) THEN << >> ELSE << Append_int(r.chain) >>) = << >>
  BY <1>1
<1>4. (IF IsRaw(r) THEN << Append_int(r.chain), Rlp_opt(r.from) >> ELSE << >>)
        = << Append_int(r.chain), Rlp_opt(r.from) >>
  BY <1>1
<1>5. (IF IsRaw(r) /\ r.meta THEN MetaItems(r) ELSE << >>)
        = << Lst(IF r.deps = NONE THEN << >> ELSE r.deps), Rlp_opt(r.sig), Lst(<< >>) >>
  BY <1>1, <1>2
<1> QED BY <1>3, <1>4, <1>5, Zenon DEF Encode, RawBytes

\* What the node accepts of the bytes of a wallet (create_tx_raw) is the order:
\* the message that was signed is the one from_bytes hashes, and the kept
\* transaction encodes to the same bytes again.  The node checks no signature:
\* of other bytes nothing of this is known.
THEOREM AcceptedIsSigned ==
    ASSUME NEW b, WalletMade(b), Parse(b).outcome = "ok", NONE \notin Nat
    PROVE  LET p == Parse(b) IN
           /\ p.tx.sig.of = p.hash[1]
           /\ b = Encode([IntoRequest(p.tx) EXCEPT !.chain = ChainId])
<1>1. PICK w, chain : Order(w, chain) /\ b = CreateTxRaw(w, chain)
  BY DEF WalletMade
<1>2. PICK r : r = DecodeRaw(b)
  OBVIOUS
<1>3. /\ b.type = "OlaRaw" /\ IntAt(b.items, 7) = chain
      /\ r = [type |-> "OlaRaw", nonce |-> w.nonce, to |-> w.to, input |-> w.calldata,
              chain |-> chain, from |-> w.address, deps |-> DepsOf(w),
              sig |-> SignExecuteContract(w, chain), paymaster |-> NONE, meta |-> TRUE]
  BY <1>1, <1>2, WalletDecodes
<1>4. PICK d : d = FromBytes(b)
  OBVIOUS
<1>5. d.outcome = "ok" => d = Finish(r) /\ d.request = r /\ d.hash = HashOf(r)
  <2>1. d.outcome = "ok" => d = Finish(r)
    BY <1>2, <1>3, <1>4 DEF FromBytes, Error
  <2>2. d.outcome = "ok" /\ d = Finish(r) => d.request = r /\ d.hash = HashOf(r)
    BY DEF Finish, Error, Panic
  <2> QED BY <2>1, <2>2
<1>6. PICK p, res : p = Parse(b) /\ res = FromRequest(r)
  OBVIOUS
<1>7. /\ d.outcome = "ok" /\ res.outcome = "ok" /\ chain = ChainId
      /\ p.tx = res.tx /\ p.hash = d.hash
  <2>1. p.outcome = "ok"
    BY <1>6
  <2>2. d.outcome = "ok"
    BY <2>1, <1>4, <1>6 DEF Parse
  <2>3. d.request = r
    BY <2>2, <1>5
  <2>4. res.outcome = "ok"
    BY <2>1, <2>2, <2>3, <1>4, <1>6 DEF Parse
  <2>5. chain = ChainId
    BY <2>1, <2>2, <2>3, <2>4, <1>3, <1>4, <1>6 DEF Parse, Error
  <2>6. p = [outcome |-> "ok", tx |-> res.tx, hash |-> d.hash]
    BY <2>2, <2>3, <2>4, <2>5, <1>3, <1>4, <1>6 DEF Parse
  <2> QED BY <2>2, <2>4, <2>5, <2>6
<1>8. PICK m : SignExecuteContract(w, chain) = [of |-> m]
  BY DEF SignExecuteContract
<1>9. Signature(r) = r.sig /\ r.sig = [of |-> m]
  <2>1. r.sig = [of |-> m] /\ r.sig # NONE
    BY <1>1, <1>3, <1>8 DEF Order
  <2>2. "of" \in DOMAIN [of |-> m] /\ DOMAIN << >> = {}
    OBVIOUS
  <2>3. r.sig # << >>
    BY <2>1, <2>2
  <2> QED BY <2>1, <2>3 DEF Signature
<1>10. res.tx = [nonce |-> r.nonce, from |-> r.from, to |-> r.to,
                 calldata |-> r.input, deps |-> r.deps, sig |-> r.sig]
  BY <1>6, <1>7, <1>9 DEF FromRequest, Error
<1>11. m = SignedBytes(r)
  <2>1. (IF w.from = NONE THEN w.address ELSE w.from) = w.address
    BY <1>1 DEF Order
  <2>2. PICK q : q = [type |-> "OlaRaw", nonce |-> w.nonce,
                      from |-> IF w.from = NONE THEN w.address ELSE w.from,
                      to |-> w.to, input |-> w.calldata, deps |-> w.deps,
                      sig |-> NONE, paymaster |-> NONE, chain |-> chain, meta |-> TRUE]
    OBVIOUS
  <2>3. /\ q.type = r.type /\ q.nonce = r.nonce /\ q.from = r.from /\ q.input = r.input
        /\ q.paymaster = r.paymaster /\ q.chain = r.chain
    BY <2>1, <2>2, <1>3
  <2>4. [of |-> m] = [of |-> SignedBytes(q)]
    BY <1>8, <2>2, Zenon DEF SignExecuteContract
  <2>5. SignedBytes(q) = SignedBytes(r)
    BY <2>3, Zenon DEF SignedBytes
  <2>6. [of |-> m].of = m /\ [of |-> SignedBytes(q)].of = SignedBytes(q)
    OBVIOUS
  <2> QED BY <2>4, <2>5, <2>6, Zenon
<1>12. p.tx.sig.of = p.hash[1]
  <2>1. p.tx.sig = r.sig
    BY <1>7, <1>10
  <2>2. p.hash[1] = SignedBytes(r)
    BY <1>5, <1>7 DEF HashOf
  <2> QED BY <2>1, <2>2, <1>9, <1>11
<1>13. b = Encode([IntoRequest(p.tx) EXCEPT !.chain = ChainId])
  <2>1. PICK q : q = [IntoRequest(p.tx) EXCEPT !.chain = ChainId]
    OBVIOUS
  <2>2. p.tx = [nonce |-> w.nonce, from |-> w.address, to |-> w.to,
                calldata |-> w.calldata, deps |-> DepsOf(w), sig |-> SignExecuteContract(w, chain)]
    BY <1>3, <1>7, <1>10
  <2>3. /\ q.type = "OlaRaw" /\ q.nonce = w.nonce /\ q.from = w.address /\ q.to = w.to
        /\ q.input = w.calldata /\ q.deps = DepsOf(w) /\ q.sig = SignExecuteContract(w, chain)
        /\ q.paymaster = NONE /\ q.chain = chain /\ q.meta
    BY <2>1, <2>2, <1>7 DEF IntoRequest
  <2>4. PICK o : o = WalletRequest(w, chain)
    OBVIOUS
  <2>5. /\ o.type = "OlaRaw" /\ o.nonce = w.nonce /\ o.from = w.address /\ o.to = w.to
        /\ o.input = w.calldata /\ o.deps = w.deps /\ o.sig = SignExecuteContract(w, chain)
        /\ o.paymaster = NONE /\ o.chain = chain /\ o.meta
    BY <2>4, WalletRequestIs
  <2>6. (IF q.deps = NONE THEN << >> ELSE q.deps) = (IF o.deps = NONE THEN << >> ELSE o.deps)
    BY <2>3, <2>5 DEF DepsOf
  <2>7. /\ Encode(q) = RawBytes(q.nonce, q.to, q.input, q.chain, q.from,
                                IF q.deps = NONE THEN << >> ELSE q.deps, q.sig)
        /\ Encode(o) = RawBytes(o.nonce, o.to, o.input, o.chain, o.from,
                                IF o.deps = NONE THEN << >> ELSE o.deps, o.sig)
    BY <2>3, <2>5, EncodeIs
  <2>8. Encode(q) = Encode(o)
    <3>1. /\ q.nonce = o.nonce /\ q.to = o.to /\ q.input = o.input /\ q.chain = o.chain
          /\ q.from = o.from /\ q.sig = o.sig
      BY <2>3, <2>5
    <3>2. PICK x, y : /\ x = IF q.deps = NONE THEN << >> ELSE q.deps
                      /\ y = IF o.deps = NONE THEN << >> ELSE o.deps
      OBVIOUS
    <3>3. x = y
      BY <2>6, <3>2
    <3>4. /\ Encode(q) = RawBytes(q.nonce, q.to, q.input, q.chain, q.from, x, q.sig)
          /\ Encode(o) = RawBytes(o.nonce, o.to, o.input, o.chain, o.from, y, o.sig)
      BY <2>7, <3>2, Zenon
    <3> QED BY <3>1, <3>3, <3>4, Zenon
  <2>9. b = Encode(o)
    BY <1>1, <2>4, Zenon DEF CreateTxRaw, WalletRequest
  <2> QED BY <1>7, <2>1, <2>8, <2>9
<1> QED BY <1>6, <1>12, <1>13


-----------------------------------------------------------------------------
(* Receipts. *)

\* A row that is found by its hash.
LEMMA FoundRow ==
    ASSUME NEW h, RowOf(h) # NONE
    PROVE  \E k \in DOMAIN rows : /\ Present(k) /\ rows[k].sub.hash = h
                                  /\ RowOf(h) = rows[k]
<1> DEFINE found == {k \in DOMAIN rows : Present(k) /\ rows[k].sub.hash = h}
<1>1. found # {} /\ RowOf(h) = rows[CHOOSE k \in found : TRUE]
  BY DEF RowOf
<1>2. \A k \in found : k \in DOMAIN rows /\ Present(k) /\ rows[k].sub.hash = h
  OBVIOUS
<1> HIDE DEF found
<1>3. (CHOOSE k \in found : TRUE) \in found
  BY <1>1, Zenon
<1> QED BY <1>1, <1>2, <1>3

\* A hash finds the row it was read from: it covers account and nonce.
LEMMA HashFindsRow ==
    ASSUME TableInv, NEW k \in DOMAIN rows, Present(k)
    PROVE  RowOf(rows[k].sub.hash) = rows[k]
<1>1. ASSUME NEW x \in DOMAIN rows, Present(x)
      PROVE  x = << rows[x].sub.hash[1][4], rows[x].sub.hash[1][3] >>
  <2>1. PICK p \in Wellformed : KeyOf(p) = x /\ rows[x].sub = p
    BY <1>1 DEF TableInv, TablesType, RowOk, TableRow
  <2> QED BY <2>1, HashNamesKey
<1>2. RowOf(rows[k].sub.hash) # NONE
  <2> DEFINE found == {x \in DOMAIN rows : Present(x) /\ rows[x].sub.hash = rows[k].sub.hash}
  <2>1. k \in found /\ \A x \in found : rows[x] # NONE
    BY DEF Present
  <2>2. RowOf(rows[k].sub.hash) = rows[CHOOSE x \in found : TRUE]
    BY <2>1 DEF RowOf
  <2> HIDE DEF found
  <2>3. (CHOOSE x \in found : TRUE) \in found
    BY <2>1, Zenon
  <2> QED BY <2>1, <2>2, <2>3
<1>3. PICK x \in DOMAIN rows : /\ Present(x) /\ rows[x].sub.hash = rows[k].sub.hash
                               /\ RowOf(rows[k].sub.hash) = rows[x]
  BY <1>2, FoundRow
<1>4. x = k
  BY <1>1, <1>3
<1> QED BY <1>3, <1>4

\* A place of miniblock n that the hash h is of.
PlaceOf(n, i, h) ==
    /\ i \in Nat /\ i + 1 \in DOMAIN blocks[n].txs
    /\ h = blocks[n].txs[i + 1].hash
    /\ HasRow(n, i + 1)

\* The transactions that a sealed miniblock has in the table are in their
\* places, and are all of it but those of purged accounts.
LEMMA SealedTransactions ==
    ASSUME TableInv, NEW n \in 1 .. Latest
    PROVE  /\ \A i \in DOMAIN TransactionsOf(n) : PlaceOf(n, i, TransactionsOf(n)[i])
           /\ \A j \in DOMAIN blocks[n].txs :
                 j - 1 \in DOMAIN TransactionsOf(n) \/ KeyOf(blocks[n].txs[j]) \in purged
<1> DEFINE keys == {k \in DOMAIN rows : Executed(k) /\ rows[k].miniblock = n}
<1>1. TransactionsOf(n) = [i \in {rows[k].index : k \in keys} |->
                              rows[CHOOSE k \in keys : rows[k].index = i].sub.hash]
  BY DEF TransactionsOf
<1>2. n # NONE /\ Latest \in Nat /\ blocks[n] \in Miniblock
  BY NonceFacts, ApiAssumption DEF TableInv
<1>3. ASSUME NEW k \in keys
      PROVE  /\ k \in DOMAIN rows /\ Executed(k) /\ rows[k].miniblock = n
             /\ KeyOf(rows[k].sub) = k
             /\ rows[k].index \in Nat /\ rows[k].index + 1 \in DOMAIN blocks[n].txs
             /\ rows[k].sub = blocks[n].txs[rows[k].index + 1]
  <2>1. k \in DOMAIN rows /\ Executed(k) /\ rows[k].miniblock = n /\ Present(k)
    BY DEF Executed
  <2>2. InBlock(rows[k]) /\ RowOk(k, rows[k])
    BY <2>1 DEF TableInv, RowsInv, TablesType
  <2> QED BY <2>1, <2>2, <1>2 DEF InBlock, RowOk
<1>4. \A k \in DOMAIN rows : Executed(k) /\ rows[k].miniblock = n => k \in keys
  OBVIOUS
<1> HIDE DEF keys
<1>5. ASSUME NEW i \in DOMAIN TransactionsOf(n)
      PROVE  PlaceOf(n, i, TransactionsOf(n)[i])
  <2>1. \E k \in keys : rows[k].index = i
    BY <1>1
  <2>2. PICK k : k = CHOOSE x \in keys : rows[x].index = i
    OBVIOUS
  <2>3. k \in keys /\ rows[k].index = i
    BY <2>1, <2>2, Zenon
  <2>4. TransactionsOf(n)[i] = rows[k].sub.hash
    BY <1>1, <2>2, Zenon
  <2>5. /\ k \in DOMAIN rows /\ Executed(k) /\ rows[k].miniblock = n
        /\ KeyOf(rows[k].sub) = k /\ i \in Nat /\ i + 1 \in DOMAIN blocks[n].txs
        /\ rows[k].sub = blocks[n].txs[i + 1]
    BY <1>3, <2>3
  <2>6. k = KeyOf(blocks[n].txs[i + 1]) /\ (i + 1) - 1 = i
    BY <2>5
  <2>7. HasRow(n, i + 1)
    BY <2>3, <2>5, <2>6, Zenon DEF HasRow
  <2> QED BY <2>4, <2>5, <2>7, Zenon DEF PlaceOf
<1>6. ASSUME NEW j \in DOMAIN blocks[n].txs, KeyOf(blocks[n].txs[j]) \notin purged
      PROVE  j - 1 \in DOMAIN TransactionsOf(n)
  <2>1. HasRow(n, j)
    BY <1>6 DEF TableInv, BlocksInv
  <2>2. PICK k : k = KeyOf(blocks[n].txs[j])
    OBVIOUS
  <2>3. k \in DOMAIN rows /\ Executed(k) /\ rows[k].miniblock = n /\ rows[k].index = j - 1
    BY <2>1, <2>2, Zenon DEF HasRow
  <2>4. k \in keys
    BY <1>4, <2>3
  <2> QED BY <1>1, <2>3, <2>4
<1> QED BY <1>5, <1>6

\* The fields of what a request for receipts has got.
GotShape(g) == g = [hashes |-> g.hashes, row |-> g.row, logs |-> g.logs]

\* The row that was got for a hash is one it had.
RowGot(r, h) == r # NONE => r.sub.hash = h /\ InBlock(r)

\* What a request for the receipts of block n has got: the hashes of the places
\* that have a row, then their rows.  Without a block, and for the genesis one,
\* nothing is claimed.
OfBlock(n, g, read) ==
    n \notin {NONE, 0} =>
      /\ n \in 1 .. Latest
      /\ \A i \in DOMAIN g.hashes :
            /\ PlaceOf(n, i, g.hashes[i])
            /\ read => g.row[i] # NONE /\ g.row[i].miniblock = n /\ g.row[i].index = i
      /\ \A j \in DOMAIN blocks[n].txs :
            j - 1 \in DOMAIN g.hashes \/ KeyOf(blocks[n].txs[j]) \in purged

\* A request for receipts between its statements.
ReceiptOk(r) ==
    /\ r.op \in {"receipt", "blockReceipts"} /\ r.pc = "logs" =>
         /\ GotShape(r.got)
         /\ \A j \in DOMAIN r.got.hashes : RowGot(r.got.row[j], r.got.hashes[j])
    /\ r.op = "blockReceipts" /\ r.pc = "rows" => GotShape(r.got) /\ OfBlock(r.block, r.got, FALSE)
    /\ r.op = "blockReceipts" /\ r.pc = "logs" => OfBlock(r.block, r.got, TRUE)

\* The inductive invariant of the requests for receipts.
ReceiptsInv == \A c \in Client : ReceiptOk(req[c])

\* The statement that reads the rows.
LEMMA ReadRows ==
    ASSUME NEW g, GotShape(g)
    PROVE  LET q == ReadReceipts(g, 1) IN
           /\ GotShape(q) /\ q.hashes = g.hashes
           /\ q.row = [j \in DOMAIN g.hashes |-> RowOf(g.hashes[j])]
<1>1. ReceiptStatements[1] = "row"
  BY DEF ReceiptStatements
<1>2. PICK x : x = [j \in DOMAIN g.hashes |-> RowOf(g.hashes[j])]
  OBVIOUS
<1>3. ReadReceipts(g, 1) = [g EXCEPT !["row"] = x]
  BY <1>1, <1>2 DEF ReadReceipts
<1> QED BY <1>2, <1>3 DEF GotShape

\* The statement that reads the logs.
LEMMA ReadLogs ==
    ASSUME NEW g, GotShape(g)
    PROVE  LET q == ReadReceipts(g, 2) IN
           /\ q.hashes = g.hashes /\ q.row = g.row
           /\ q.logs = [j \in DOMAIN g.hashes |-> LogsOf(g.hashes[j])]
<1>1. ReceiptStatements[2] = "logs"
  BY DEF ReceiptStatements
<1>2. PICK x : x = [j \in DOMAIN g.hashes |-> LogsOf(g.hashes[j])]
  OBVIOUS
<1>3. ReadReceipts(g, 2) = [g EXCEPT !["logs"] = x]
  BY <1>1, <1>2 DEF ReadReceipts
<1> QED BY <1>2, <1>3 DEF GotShape

\* A row that is read is in its place.
LEMMA ReadRowOk ==
    ASSUME TableInv, NEW h
    PROVE  RowGot(RowOf(h), h)
<1> SUFFICES ASSUME RowOf(h) # NONE
             PROVE  RowOf(h).sub.hash = h /\ InBlock(RowOf(h))
  BY DEF RowGot
<1>1. PICK k \in DOMAIN rows : Present(k) /\ rows[k].sub.hash = h /\ RowOf(h) = rows[k]
  BY FoundRow
<1>2. InBlock(rows[k])
  BY <1>1 DEF TableInv, RowsInv
<1> QED BY <1>1, <1>2

\* What was got of a block stays true of it.
LEMMA OfBlockKept ==
    ASSUME Grows, NEW n, NEW g, NEW read, OfBlock(n, g, read)
    PROVE  OfBlock(n, g, read)'
<1> SUFFICES ASSUME n \notin {NONE, 0}
             PROVE  /\ n \in 1 .. Latest'
                    /\ \A i \in DOMAIN g.hashes :
                          /\ PlaceOf(n, i, g.hashes[i])'
                          /\ read => g.row[i] # NONE /\ g.row[i].miniblock = n /\ g.row[i].index = i
                    /\ \A j \in DOMAIN blocks'[n].txs :
                          j - 1 \in DOMAIN g.hashes \/ KeyOf(blocks'[n].txs[j]) \in purged'
  BY DEF OfBlock
<1>1. /\ n \in 1 .. Latest
      /\ \A i \in DOMAIN g.hashes :
            /\ PlaceOf(n, i, g.hashes[i])
            /\ read => g.row[i] # NONE /\ g.row[i].miniblock = n /\ g.row[i].index = i
      /\ \A j \in DOMAIN blocks[n].txs :
            j - 1 \in DOMAIN g.hashes \/ KeyOf(blocks[n].txs[j]) \in purged
  BY DEF OfBlock
<1>2. n \in 1 .. Latest' /\ blocks'[n] = blocks[n] /\ purged \subseteq purged'
  BY <1>1 DEF Grows
<1>3. ASSUME NEW i, NEW h, PlaceOf(n, i, h) PROVE PlaceOf(n, i, h)'
  <2>1. HasRow(n, i + 1)'
    BY <1>1, <1>3, HasRowKept DEF PlaceOf
  <2> QED BY <1>2, <1>3, <2>1 DEF PlaceOf
<1> QED BY <1>1, <1>2, <1>3

\* A request for receipts that moves is in order in the state it moves in.
LEMMA ReceiptMoved ==
    ASSUME TableInv, NEW r, ReceiptOk(r), NEW q, Move(r, q)
    PROVE  ReceiptOk(q)
<1>1. CASE \/ q.pc = "answered"
           \/ q.pc = "start"
           \/ q.op \in {"send", "pending", "call", "count", "query"}
  BY <1>1 DEF ReceiptOk
<1>2. CASE /\ q.op = "receipt" /\ q.pc = "logs"
           /\ q.got = ReadReceipts(ReceiptsFor(<< r.arg >>), 1)
  <2>1. PICK g : g = ReceiptsFor(<< r.arg >>)
    OBVIOUS
  <2>2. GotShape(g)
    BY <2>1 DEF ReceiptsFor, GotShape
  <2>3. /\ GotShape(q.got) /\ q.got.hashes = g.hashes
        /\ q.got.row = [j \in DOMAIN g.hashes |-> RowOf(g.hashes[j])]
    BY <1>2, <2>1, <2>2, ReadRows
  <2>4. \A j \in DOMAIN q.got.hashes : RowGot(q.got.row[j], q.got.hashes[j])
    BY <2>3, ReadRowOk
  <2> QED BY <1>2, <2>3, <2>4 DEF ReceiptOk
<1>3. CASE /\ r.op = "blockReceipts" /\ q.op = "blockReceipts"
           /\ r.pc = "start" /\ q.pc = "rows" /\ q.block = BlockOf(r.arg)
           /\ q.got = ReceiptsFor(TransactionsOf(BlockOf(r.arg)))
  <2>1. PICK n, h : n = BlockOf(r.arg) /\ h = TransactionsOf(n)
    OBVIOUS
  <2>2. q.block = n /\ q.got = ReceiptsFor(h)
    BY <1>3, <2>1, Zenon
  <2>3. GotShape(q.got) /\ q.got.hashes = h
    BY <2>2 DEF ReceiptsFor, GotShape
  <2>4. ASSUME n \notin {NONE, 0}
        PROVE  /\ n \in 1 .. Latest
               /\ \A i \in DOMAIN h : PlaceOf(n, i, h[i])
               /\ \A j \in DOMAIN blocks[n].txs :
                     j - 1 \in DOMAIN h \/ KeyOf(blocks[n].txs[j]) \in purged
    <3>1. n \in 0 .. Latest /\ Latest \in Nat
      BY <2>1, <2>4, NonceFacts DEF BlockOf, TableInv
    <3>2. n \in 1 .. Latest
      BY <2>4, <3>1
    <3> QED BY <2>1, <3>2, SealedTransactions
  <2>5. OfBlock(n, q.got, FALSE)
    BY <2>3, <2>4 DEF OfBlock
  <2> QED BY <1>3, <2>2, <2>3, <2>5 DEF ReceiptOk
<1>4. CASE /\ r.op = "blockReceipts" /\ q.op = "blockReceipts"
           /\ r.pc = "rows" /\ q.pc = "logs"
           /\ q.block = r.block /\ q.got = ReadReceipts(r.got, 1)
  <2>1. PICK g, n : g = r.got /\ n = r.block
    OBVIOUS
  <2>2. GotShape(g) /\ OfBlock(n, g, FALSE)
    BY <1>4, <2>1 DEF ReceiptOk
  <2>3. /\ GotShape(q.got) /\ q.got.hashes = g.hashes
        /\ q.got.row = [j \in DOMAIN g.hashes |-> RowOf(g.hashes[j])]
    BY <1>4, <2>1, <2>2, ReadRows
  <2>4. \A j \in DOMAIN q.got.hashes : RowGot(q.got.row[j], q.got.hashes[j])
    BY <2>3, ReadRowOk
  <2>5. ASSUME n \notin {NONE, 0}, NEW i \in DOMAIN g.hashes
        PROVE  RowOf(g.hashes[i]) # NONE
               /\ RowOf(g.hashes[i]).miniblock = n /\ RowOf(g.hashes[i]).index = i
    <3>1. PlaceOf(n, i, g.hashes[i])
      BY <2>2, <2>5 DEF OfBlock
    <3>2. PICK k : k = KeyOf(blocks[n].txs[i + 1])
      OBVIOUS
    <3>3. /\ k \in DOMAIN rows /\ Executed(k)
          /\ rows[k].miniblock = n /\ rows[k].index = (i + 1) - 1
      BY <3>1, <3>2, Zenon DEF PlaceOf, HasRow
    <3>4. i \in Nat /\ rows[k].index = i /\ g.hashes[i] = blocks[n].txs[i + 1].hash
      BY <3>1, <3>3 DEF PlaceOf
    <3>5. Present(k) /\ InBlock(rows[k])
      BY <3>3 DEF Executed, TableInv, RowsInv
    <3>6. rows[k].sub = blocks[n].txs[i + 1]
      BY <2>5, <3>3, <3>4, <3>5 DEF InBlock
    <3>7. RowOf(g.hashes[i]) = rows[k]
      BY <3>3, <3>4, <3>5, <3>6, HashFindsRow
    <3> QED BY <3>3, <3>4, <3>5, <3>7 DEF Present
  <2>6. OfBlock(n, q.got, TRUE)
    <3>1. ASSUME n \notin {NONE, 0}, NEW i \in DOMAIN q.got.hashes
          PROVE  /\ q.got.row[i] # NONE
                 /\ q.got.row[i].miniblock = n /\ q.got.row[i].index = i
      <4>1. i \in DOMAIN g.hashes /\ q.got.row[i] = RowOf(g.hashes[i])
        BY <2>3, <3>1
      <4> QED BY <2>5, <3>1, <4>1
    <3> QED BY <2>2, <2>3, <3>1 DEF OfBlock
  <2> QED BY <1>4, <2>1, <2>3, <2>4, <2>6 DEF ReceiptOk
<1> QED BY <1>1, <1>2, <1>3, <1>4 DEF Move

\* Every step of the node keeps it.
LEMMA ReceiptsStep == TablesInv /\ ReceiptsInv /\ [Next]_vars => ReceiptsInv'
<1> SUFFICES ASSUME TableInv, ReqInv, ReceiptsInv, [Next]_vars
             PROVE  \A c \in Client : ReceiptOk(req[c])'
  BY DEF TablesInv, ReceiptsInv
<1>1. TableInv' /\ Grows
  BY TableSteps, TablesKept
<1>2. ASSUME NEW r, ReceiptOk(r) PROVE ReceiptOk(r)'
  <2>1. ASSUME NEW read, OfBlock(r.block, r.got, read) PROVE OfBlock(r.block, r.got, read)'
    BY <1>1, <2>1, OfBlockKept
  <2>2. ASSUME NEW row, NEW h, RowGot(row, h) PROVE RowGot(row, h)'
    BY <1>1, <2>2, InBlockKept DEF RowGot
  <2> QED BY <1>2, <2>1, <2>2 DEF ReceiptOk
<1>3. CASE UNCHANGED req
  BY <1>2, <1>3 DEF ReceiptsInv
<1>4. ASSUME NEW c \in Client, Receive(c) \/ Proceed(c) \/ Abort(c)
      PROVE  \A d \in Client : ReceiptOk(req[d])'
  <2>1. DOMAIN req = Client /\ ReqShape(req[c]) /\ \A d \in Client : ReceiptOk(req[d])
    BY DEF ReqInv, ReceiptsInv
  <2>2. PICK q : req' = [req EXCEPT ![c] = q] /\ Move(req[c], q)
    BY <1>4, <2>1, ReqMoves
  <2>3. ReceiptOk(q)'
    BY <1>2, <2>1, <2>2, ReceiptMoved
  <2> QED BY <1>2, <2>1, <2>2, <2>3
<1> QED BY <1>3, <1>4, ApiSteps

\* What the last statement of a request for receipts makes of them.
LEMMA ReceiptsRead == TablesInv /\ ReceiptsInv => ReceiptsAreWhole
<1> SUFFICES ASSUME TableInv, ReceiptsInv, NEW c \in Client,
                    req[c].op \in {"receipt", "blockReceipts"}, req[c].pc = "logs",
                    NEW given, given = ReceiptsAnswer(c), NEW n, n = req[c].block
             PROVE  /\ \A i \in DOMAIN given : given[i].block # NONE =>
                          LET tx == blocks[given[i].block].txs[given[i].index + 1] IN
                          /\ given[i].hash = tx.hash /\ given[i].logs = << tx.hash >>
                          /\ given[i].status = 1 \/ KeyOf(tx) \in purged
                    /\ req[c].op = "blockReceipts" /\ n \notin {NONE, 0} =>
                          /\ \A i \in DOMAIN given : given[i].block = n /\ given[i].index = i
                          /\ \A j \in DOMAIN blocks[n].txs :
                                j - 1 \in DOMAIN given \/ KeyOf(blocks[n].txs[j]) \in purged
  BY Zenon DEF TablesInv, ReceiptsAreWhole
<1>1. PICK g : g = req[c].got
  OBVIOUS
<1>2. /\ GotShape(g)
      /\ \A j \in DOMAIN g.hashes : RowGot(g.row[j], g.hashes[j])
      /\ req[c].op = "blockReceipts" => OfBlock(n, g, TRUE)
  BY <1>1 DEF ReceiptsInv, ReceiptOk
<1>3. PICK q : q = ReadReceipts(g, 2)
  OBVIOUS
<1>4. /\ q.hashes = g.hashes /\ q.row = g.row
      /\ q.logs = [j \in DOMAIN g.hashes |-> LogsOf(g.hashes[j])]
  BY <1>2, <1>3, ReadLogs
<1>5. given = [j \in {i \in DOMAIN q.hashes : q.row[i] # NONE} |->
                  [hash |-> q.hashes[j], block |-> q.row[j].miniblock,
                   index |-> q.row[j].index, status |-> Status(q.row[j]), logs |-> q.logs[j]]]
  BY <1>1, <1>3, Zenon DEF ReceiptsAnswer
<1>6. DOMAIN given = {i \in DOMAIN g.hashes : g.row[i] # NONE}
  BY <1>4, <1>5
<1>7. ASSUME NEW i \in DOMAIN given
      PROVE  /\ i \in DOMAIN g.hashes /\ g.row[i] # NONE
             /\ given[i].hash = g.hashes[i] /\ given[i].block = g.row[i].miniblock
             /\ given[i].index = g.row[i].index /\ given[i].status = Status(g.row[i])
             /\ given[i].logs = LogsOf(g.hashes[i])
  <2>1. given[i] = [hash |-> q.hashes[i], block |-> q.row[i].miniblock,
                    index |-> q.row[i].index, status |-> Status(q.row[i]), logs |-> q.logs[i]]
    BY <1>4, <1>5, <1>6
  <2>2. i \in DOMAIN g.hashes /\ g.row[i] # NONE
    BY <1>6
  <2>3. q.logs[i] = LogsOf(g.hashes[i])
    BY <1>4, <2>2
  <2> QED BY <1>4, <2>1, <2>2, <2>3
<1>8. ASSUME NEW i \in DOMAIN given, given[i].block # NONE,
             NEW tx, tx = blocks[given[i].block].txs[given[i].index + 1]
      PROVE  /\ given[i].hash = tx.hash /\ given[i].logs = << tx.hash >>
             /\ given[i].status = 1 \/ KeyOf(tx) \in purged
  <2>1. PICK row, m, x : row = g.row[i] /\ m = row.miniblock /\ x = row.index
    OBVIOUS
  <2>2. m # NONE /\ row.sub.hash = g.hashes[i] /\ InBlock(row)
    BY <1>2, <1>7, <1>8, <2>1 DEF RowGot
  <2>3. /\ m \in 1 .. Latest /\ x + 1 \in DOMAIN blocks[m].txs
        /\ row.sub = blocks[m].txs[x + 1]
        /\ row.error => KeyOf(row.sub) \in purged
    BY <2>1, <2>2 DEF InBlock
  <2>4. given[i].block = m /\ given[i].index = x
    BY <1>7, <2>1
  <2>5. tx = row.sub
    BY <1>8, <2>3, <2>4
  <2>6. given[i].hash = tx.hash
    BY <1>7, <2>2, <2>5
  <2>7. LogsOf(tx.hash) = << tx.hash >>
    <3>1. m \in DOMAIN blocks
      BY <2>3 DEF Latest, TableInv, TablesType
    <3>2. blocks[m].txs[x + 1].hash = tx.hash
      BY <2>3, <2>5
    <3> QED BY <2>3, <3>1, <3>2, Zenon DEF LogsOf
  <2>8. given[i].status = 1 \/ KeyOf(tx) \in purged
    <3>1. CASE row.error
      BY <2>3, <2>5, <3>1
    <3>2. CASE ~row.error
      <4>1. Status(row) = 1
        BY <2>1, <2>2, <3>2 DEF Status
      <4> QED BY <1>7, <2>1, <4>1
    <3> QED BY <3>1, <3>2
  <2> QED BY <1>7, <2>6, <2>7, <2>8
<1>9. ASSUME req[c].op = "blockReceipts", n \notin {NONE, 0}
      PROVE  /\ \A i \in DOMAIN given : given[i].block = n /\ given[i].index = i
             /\ \A j \in DOMAIN blocks[n].txs :
                   j - 1 \in DOMAIN given \/ KeyOf(blocks[n].txs[j]) \in purged
  <2>1. /\ \A i \in DOMAIN g.hashes :
              g.row[i] # NONE /\ g.row[i].miniblock = n /\ g.row[i].index = i
        /\ \A j \in DOMAIN blocks[n].txs :
              j - 1 \in DOMAIN g.hashes \/ KeyOf(blocks[n].txs[j]) \in purged
    BY <1>2, <1>9 DEF OfBlock
  <2>2. DOMAIN given = DOMAIN g.hashes
    BY <1>6, <2>1
  <2> QED BY <1>7, <2>1, <2>2
<1> QED BY <1>8, <1>9, Zenon

\* A receipt that names a miniblock has the hash, the logs and the status of the
\* transaction in its place of it, and the receipts of a block are those of all
\* its transactions, for any number of requests and whatever is submitted,
\* sealed, rejected or deleted between the statements of each, but for
\* transactions that were in memory when their account was purged
\* (get_transaction_receipt, get_block_receipts_impl).
THEOREM ReceiptsHold == Spec => []ReceiptsAreWhole
<1>1. Init => ReceiptsInv
  <2> SUFFICES ASSUME Init, NEW c \in Client PROVE ReceiptOk(req[c])
    BY DEF ReceiptsInv
  <2>1. req[c] = Unused
    BY DEF Init, ServersInit, ApiInit
  <2>2. Unused.pc = "idle"
    BY DEF Unused
  <2> QED BY <2>1, <2>2 DEF ReceiptOk
<1> QED BY <1>1, ReceiptsRead, ReceiptsStep, TablesInvariant, PTL DEF Spec
=============================================================================
