-------------------------- MODULE SequencerProofs --------------------------
(***************************************************************************)
(* Proofs about the sequencer, for every set of transactions, every limit  *)
(* and deadline, every capacity of the sealer's queue and any number of    *)
(* crashes and clock changes.                                              *)
(*                                                                         *)
(* The inductive invariant is built in layers, each proved from those      *)
(* before it:                                                              *)
(*   StateInv  numbers in memory, in the queue and in the tables agree;    *)
(*             the miniblocks without a batch are the last ones;           *)
(*   TimeInv   the open miniblock is later than every submitted one, and   *)
(*             the open batch has the timestamp of its first miniblock;    *)
(*   PlaceInv  a transaction is in one miniblock, or offered, or rejected; *)
(*   OpenInv   the open batch is what was submitted since the last batch;  *)
(*   SizeInv   what a restart will find fits the batch's space;            *)
(*   VmInv     the VM has executed what the open batch contains.           *)
(* VmInv needs the hypothesis that the size criterion excludes nothing.    *)
(***************************************************************************)
EXTENDS Sequencer, FiniteSetTheorems, WellFoundedInduction, TLAPS

-----------------------------------------------------------------------------
(* The inductive invariant. *)

Updates == [batch_timestamp : Nat, version : {0, 1}, l1_batch : SUBSET Tx,
            miniblock : SUBSET Tx, timestamp : Nat]
Command == [number : Nat, timestamp : Nat, txs : SUBSET Tx, version : {0, 1}]

\* The next miniblock is being filled, or the batch is being finished.
Filling == {"upgrade", "loop", "take", "finish", "seal"}

\* A batch is open: being filled, or waiting for the next miniblock's timestamp.
Open == Filling \cup {"miniblock_params"}

\* Types of what TypeOK leaves out.
MemoryTypes ==
    /\ resume \in {"loop", "take", "finish"}
    /\ current_l1_batch_number \in Nat /\ current_miniblock_number \in Nat
    /\ queue \in Seq(Command)

\* The tables have no gaps, and traces are stored for no batch but the sealed
\* ones and the next.
TablesDense ==
    /\ SealedMiniblock \in Nat /\ DOMAIN miniblocks = 0..SealedMiniblock
    /\ NewestBatch \in Nat /\ DOMAIN l1_batches = 0..NewestBatch
    /\ DOMAIN object_store \subseteq 0..(NewestBatch + 1)

\* The numbers in memory, and where nothing can be queued.
NumbersAhead ==
    /\ \A i \in 1..Len(queue) : queue[i].number = SealedMiniblock + i
    /\ pc # "start" => /\ current_miniblock_number = SealedMiniblock + Len(queue) + 1
                       /\ current_l1_batch_number = NewestBatch + 1
    /\ pc \in {"start", "new_batch", "upgrade"} => queue = <<>>
    /\ pc = "seal" => um.miniblock = {}

\* The miniblocks without a batch are those after the newest batch.
PendingIsSuffix ==
    /\ FirstPending \in 1..(SealedMiniblock + 1)
    /\ miniblocks[FirstPending - 1].l1_batch_number = NewestBatch
    /\ \A n \in DOMAIN miniblocks : miniblocks[n].l1_batch_number = Null <=> n >= FirstPending
    /\ pc \in {"new_batch", "upgrade"} => FirstPending = SealedMiniblock + 1

\* Only the fictive miniblock of a batch is empty.
NoneIsEmpty ==
    /\ \A n \in FirstPending..SealedMiniblock : miniblocks[n].txs # {}
    /\ \A i \in 1..Len(queue) : queue[i].txs # {}

StateInv == TypeOK /\ MemoryTypes /\ TablesDense /\ NumbersAhead /\ PendingIsSuffix /\ NoneIsEmpty

-----------------------------------------------------------------------------
(* Lemmas about operators. *)

\* The largest element, as the tables' queries select it.
LEMMA MaxIs ==
    ASSUME NEW S, S \subseteq Int, NEW m \in S, \A y \in S : y <= m
    PROVE  Max(S) = m
<1>1. \A x \in S : (\A y \in S : x >= y) => x = m
  OBVIOUS
<1>2. Max(S) \in S /\ \A y \in S : Max(S) >= y
  BY Zenon, \A y \in S : m >= y DEF Max
<1> QED BY <1>1, <1>2

\* The largest element of an interval.
LEMMA MaxInterval ==
    ASSUME NEW a \in Int, NEW b \in Int, a <= b
    PROVE  Max(a..b) = b
<1>1. a..b \subseteq Int /\ b \in a..b /\ \A y \in a..b : y <= b
  OBVIOUS
<1> QED BY <1>1, MaxIs

\* The smallest element.
LEMMA MinIs ==
    ASSUME NEW S, S \subseteq Int, NEW m \in S, \A y \in S : m <= y
    PROVE  Min(S) = m
<1>1. \A x \in S : (\A y \in S : x <= y) => x = m
  OBVIOUS
<1>2. Min(S) \in S /\ \A y \in S : Min(S) <= y
  BY Zenon DEF Min
<1> QED BY <1>1, <1>2

\* extend_from_executed_transaction.
LEMMA ExtendedFields ==
    ASSUME um \in Updates, NEW tx \in Tx
    PROVE  /\ Extended(tx) \in Updates
           /\ Extended(tx).miniblock = um.miniblock \cup {tx}
           /\ Extended(tx).l1_batch = um.l1_batch
           /\ Extended(tx).timestamp = um.timestamp
           /\ Extended(tx).batch_timestamp = um.batch_timestamp
           /\ Extended(tx).version = um.version
BY DEF Updates, Extended

\* push_miniblock.
LEMMA PushedFields ==
    ASSUME um \in Updates, NEW t \in Nat
    PROVE  /\ PushMiniblock(t) \in Updates
           /\ PushMiniblock(t).miniblock = {}
           /\ PushMiniblock(t).l1_batch = PendingTxs
           /\ PushMiniblock(t).timestamp = t
           /\ PushMiniblock(t).batch_timestamp = um.batch_timestamp
           /\ PushMiniblock(t).version = um.version
BY DEF Updates, PushMiniblock, PendingTxs

\* UpdatesManager::new.
LEMMA NewFields ==
    ASSUME NEW t \in Nat, NEW v \in {0, 1}
    PROVE  /\ NewUpdates(t, v) \in Updates
           /\ NewUpdates(t, v).miniblock = {}
           /\ NewUpdates(t, v).l1_batch = {}
           /\ NewUpdates(t, v).timestamp = t
           /\ NewUpdates(t, v).batch_timestamp = t
           /\ NewUpdates(t, v).version = v
BY DEF Updates, NewUpdates

\* The versions there are.
LEMMA VersionType == ASSUME NEW t PROVE VersionAt(t) \in {0, 1}
BY DEF VersionAt

\* A batch without transactions has size 0.
LEMMA EmptySize == TotalSize({}) = 0
<1> DEFINE Pick(s) == CHOOSE x \in s : TRUE
           Rec(g) == [s \in SUBSET {} |-> IF s = {} THEN 0 ELSE Pick(s).size + g[s \ {Pick(s)}]]
           f == [s \in SUBSET {} |-> 0]
<1>1. f = Rec(f)
  OBVIOUS
<1>2. (CHOOSE g : g = Rec(g)) = Rec(CHOOSE g : g = Rec(g))
  BY <1>1
<1>3. TotalSize({}) = (CHOOSE g : g = Rec(g))[{}]
  BY DEF TotalSize, MapThenSumSet, MapThenFoldSet
<1> QED BY <1>2, <1>3

-----------------------------------------------------------------------------
(* What the statements do to the tables. *)

\* A step that leaves both tables alone.
LEMMA TablesUnchanged ==
    ASSUME UNCHANGED <<miniblocks, l1_batches>>
    PROVE  /\ SealedMiniblock' = SealedMiniblock /\ NewestBatch' = NewestBatch
           /\ FirstPending' = FirstPending
BY DEF SealedMiniblock, NewestBatch, FirstPending

\* The row of a miniblock.
LEMMA MiniblockRow ==
    ASSUME TypeOK, NEW n \in DOMAIN miniblocks
    PROVE  /\ miniblocks[n].timestamp \in Nat /\ miniblocks[n].txs \subseteq Tx
           /\ miniblocks[n].version \in {0, 1}
           /\ miniblocks[n].l1_batch_number \in DOMAIN l1_batches \cup {Null}
BY DEF TypeOK

Rows(batches) == [timestamp : Nat, txs : SUBSET Tx, version : {0, 1}, l1_batch_number : batches]

\* A row of the table `miniblocks', field by field.
LEMMA RowFields ==
    ASSUME NEW B, NEW C, NEW r \in Rows(B), r.l1_batch_number \in C
    PROVE  /\ r \in Rows(C)
           /\ r.timestamp \in Nat /\ r.txs \subseteq Tx /\ r.version \in {0, 1}
BY DEF Rows

\* A row that gets its batch.
LEMMA RowMarked ==
    ASSUME NEW B, NEW r \in Rows(B), NEW b \in Nat, NEW s, s = [r EXCEPT !.l1_batch_number = b]
    PROVE  /\ s \in Rows(Nat) /\ s.l1_batch_number = b
           /\ s.timestamp = r.timestamp /\ s.txs = r.txs /\ s.version = r.version
BY DEF Rows

\* MiniblockSealCommand::seal.
LEMMA MiniblockSealed ==
    ASSUME StateInv, SealMiniblock
    PROVE  /\ SealedMiniblock' = SealedMiniblock + 1
           /\ DOMAIN miniblocks' = 0..(SealedMiniblock + 1)
           /\ \A n \in 0..SealedMiniblock : miniblocks'[n] = miniblocks[n]
           /\ miniblocks'[SealedMiniblock + 1] =
                [timestamp |-> queue[1].timestamp, txs |-> queue[1].txs,
                 version |-> queue[1].version, l1_batch_number |-> Null]
           /\ NewestBatch' = NewestBatch /\ FirstPending' = FirstPending
           /\ Len(queue) \in Nat \ {0} /\ queue[1] \in Command
           /\ queue' \in Seq(Command) /\ Len(queue') = Len(queue) - 1
           /\ \A i \in 1..Len(queue') : queue'[i] = queue[i + 1]
<1> USE DEF StateInv
<1>1. queue \in Seq(Command) /\ queue # <<>> /\ queue' = Tail(queue)
  BY DEF SealMiniblock, MemoryTypes
<1>2. /\ Len(queue) \in Nat \ {0} /\ queue[1] \in Command /\ Head(queue) = queue[1]
      /\ queue' \in Seq(Command) /\ Len(queue') = Len(queue) - 1
      /\ \A i \in 1..Len(queue') : queue'[i] = queue[i + 1]
  BY <1>1
<1>3. queue[1].number = SealedMiniblock + 1
  BY <1>2 DEF NumbersAhead
<1>4. SealedMiniblock \in Nat /\ DOMAIN miniblocks = 0..SealedMiniblock
  BY DEF TablesDense
<1>5. miniblocks' = Put(miniblocks, SealedMiniblock + 1,
                        [timestamp |-> queue[1].timestamp, txs |-> queue[1].txs,
                         version |-> queue[1].version, l1_batch_number |-> Null])
  BY <1>2, <1>3 DEF SealMiniblock, NextCommand, InsertMiniblock
<1>6. /\ DOMAIN miniblocks' = 0..(SealedMiniblock + 1)
      /\ \A n \in 0..SealedMiniblock : miniblocks'[n] = miniblocks[n]
      /\ miniblocks'[SealedMiniblock + 1] =
           [timestamp |-> queue[1].timestamp, txs |-> queue[1].txs,
            version |-> queue[1].version, l1_batch_number |-> Null]
  BY <1>4, <1>5 DEF Put
<1>7. SealedMiniblock' = SealedMiniblock + 1
  <2>1. SealedMiniblock' = Max(DOMAIN miniblocks')
    BY DEF SealedMiniblock
  <2> QED BY <1>4, <1>6, <2>1, MaxInterval
<1>8. NewestBatch' = NewestBatch /\ NewestBatch \in Nat
  BY DEF SealMiniblock, NewestBatch, TablesDense
<1>9. miniblocks'[SealedMiniblock + 1].l1_batch_number = Null
  BY <1>6
<1>10. {n \in DOMAIN miniblocks' : miniblocks'[n].l1_batch_number = NewestBatch}
         = {n \in DOMAIN miniblocks : miniblocks[n].l1_batch_number = NewestBatch}
  BY <1>4, <1>6, <1>8, <1>9 DEF Null
<1>11. FirstPending' = FirstPending
  BY <1>8, <1>10 DEF FirstPending
<1> QED BY <1>2, <1>6, <1>7, <1>8, <1>11

\* seal_l1_batch.
LEMMA BatchSealed ==
    ASSUME StateInv, SealL1Batch
    PROVE  /\ SealedMiniblock' = SealedMiniblock + 1
           /\ DOMAIN miniblocks' = 0..(SealedMiniblock + 1)
           /\ \A n \in 0..(FirstPending - 1) : miniblocks'[n] = miniblocks[n]
           /\ \A n \in 0..SealedMiniblock :
                /\ miniblocks'[n].timestamp = miniblocks[n].timestamp
                /\ miniblocks'[n].txs = miniblocks[n].txs
                /\ miniblocks'[n].version = miniblocks[n].version
           /\ miniblocks'[SealedMiniblock + 1].timestamp = um.timestamp
           /\ miniblocks'[SealedMiniblock + 1].txs = {}
           /\ miniblocks'[SealedMiniblock + 1].version = um.version
           /\ \A n \in FirstPending..(SealedMiniblock + 1) :
                miniblocks'[n].l1_batch_number = NewestBatch + 1
           /\ \A n \in 0..(SealedMiniblock + 1) :
                miniblocks'[n] \in Rows(Nat)
           /\ NewestBatch' = NewestBatch + 1
           /\ DOMAIN l1_batches' = 0..(NewestBatch + 1)
           /\ \A b \in 0..NewestBatch : l1_batches'[b] = l1_batches[b]
           /\ l1_batches'[NewestBatch + 1] =
                [timestamp |-> um.batch_timestamp, version |-> um.version, txs |-> um.l1_batch]
           /\ FirstPending' = SealedMiniblock + 2
           /\ queue = <<>> /\ um.miniblock = {}
<1> USE DEF StateInv
<1> DEFINE table == InsertMiniblock(miniblocks, SealedMiniblock + 1, um.timestamp,
                                    um.miniblock, um.version)
<1>1. /\ SealedMiniblock \in Nat /\ DOMAIN miniblocks = 0..SealedMiniblock
      /\ NewestBatch \in Nat /\ DOMAIN l1_batches = 0..NewestBatch
      /\ FirstPending \in 1..(SealedMiniblock + 1)
      /\ \A n \in DOMAIN miniblocks : miniblocks[n].l1_batch_number = Null <=> n >= FirstPending
      /\ um \in Updates
  BY DEF TablesDense, PendingIsSuffix, TypeOK, Updates
<1>2. queue = <<>> /\ pc = "seal" /\ um.miniblock = {}
  BY DEF SealL1Batch, AllCommandsDone, NumbersAhead
<1>3. current_miniblock_number = SealedMiniblock + 1 /\ current_l1_batch_number = NewestBatch + 1
  BY <1>1, <1>2 DEF NumbersAhead
<1>4. /\ miniblocks' = MarkMiniblocks(table, NewestBatch + 1)
      /\ l1_batches' = Put(l1_batches, NewestBatch + 1,
           [timestamp |-> um.batch_timestamp, version |-> um.version, txs |-> um.l1_batch])
  BY <1>3 DEF SealL1Batch, InsertL1Batch
<1>5. /\ DOMAIN table = 0..(SealedMiniblock + 1)
      /\ \A n \in 0..SealedMiniblock : table[n] = miniblocks[n]
      /\ table[SealedMiniblock + 1] = [timestamp |-> um.timestamp, txs |-> {},
                 version |-> um.version, l1_batch_number |-> Null]
  BY <1>1, <1>2 DEF InsertMiniblock, Put
<1> HIDE DEF table
<1>6. \A n \in 0..(SealedMiniblock + 1) :
        /\ table[n] \in Rows(Nat \cup {Null})
        /\ table[n].l1_batch_number = Null <=> n >= FirstPending
  <2>1. ASSUME NEW n \in 0..SealedMiniblock
        PROVE  miniblocks[n] \in Rows(Nat \cup {Null})
    <3>1. miniblocks[n] \in Rows(DOMAIN l1_batches \cup {Null})
      BY <1>1 DEF TypeOK, Rows
    <3>2. miniblocks[n].l1_batch_number \in Nat \cup {Null}
      BY <1>1, MiniblockRow
    <3> QED BY <3>1, <3>2, RowFields
  <2>2. table[SealedMiniblock + 1] \in Rows(Nat \cup {Null})
    BY <1>1, <1>5 DEF Updates, Rows
  <2>3. table[SealedMiniblock + 1].l1_batch_number = Null
    BY <1>5
  <2> HIDE DEF Rows
  <2>4. SUFFICES ASSUME NEW n \in 0..(SealedMiniblock + 1)
                 PROVE  /\ table[n] \in Rows(Nat \cup {Null})
                        /\ table[n].l1_batch_number = Null <=> n >= FirstPending
    OBVIOUS
  <2>5. CASE n = SealedMiniblock + 1
    BY <1>1, <2>2, <2>3, <2>5
  <2>6. CASE n \in 0..SealedMiniblock
    BY <1>1, <1>5, <2>1, <2>6
  <2> QED BY <1>1, <2>5, <2>6
<1>7. \A n \in 0..(SealedMiniblock + 1) :
        /\ n < FirstPending => miniblocks'[n] = table[n]
        /\ n >= FirstPending =>
             miniblocks'[n] = [table[n] EXCEPT !.l1_batch_number = NewestBatch + 1]
  BY <1>1, <1>4, <1>5, <1>6 DEF MarkMiniblocks
<1>8. DOMAIN miniblocks' = 0..(SealedMiniblock + 1)
  BY <1>4, <1>5 DEF MarkMiniblocks
<1>9. \A n \in 0..(SealedMiniblock + 1) :
        /\ miniblocks'[n] \in Rows(Nat)
        /\ miniblocks'[n].timestamp = table[n].timestamp
        /\ miniblocks'[n].txs = table[n].txs
        /\ miniblocks'[n].version = table[n].version
        /\ n >= FirstPending => miniblocks'[n].l1_batch_number = NewestBatch + 1
        /\ n < FirstPending => miniblocks'[n] = miniblocks[n]
  <2> TAKE n \in 0..(SealedMiniblock + 1)
  <2>1. CASE n < FirstPending
    <3>0. FirstPending \in Nat /\ n \in 0..SealedMiniblock /\ ~(n >= FirstPending)
      <4>1. SealedMiniblock \in Nat /\ FirstPending \in 1..(SealedMiniblock + 1)
        BY <1>1
      <4> QED BY <2>1, <4>1
    <3>1. miniblocks'[n] = table[n] /\ table[n] = miniblocks[n]
      BY <1>5, <1>7, <2>1, <3>0
    <3>2. table[n] \in Rows(Nat \cup {Null}) /\ table[n].l1_batch_number # Null
      BY <1>6, <2>1, <3>0
    <3>3. table[n].l1_batch_number \in Nat
      BY <3>2 DEF Rows
    <3> QED BY <2>1, <3>0, <3>1, <3>2, <3>3, RowFields
  <2>2. CASE n >= FirstPending
    <3>1. miniblocks'[n] = [table[n] EXCEPT !.l1_batch_number = NewestBatch + 1]
      BY <1>7, <2>2
    <3>2. table[n] \in Rows(Nat \cup {Null})
      BY <1>6
    <3>3. NewestBatch + 1 \in Nat
      BY <1>1
    <3>4. FirstPending \in Nat /\ ~(n < FirstPending)
      <4>1. SealedMiniblock \in Nat /\ FirstPending \in 1..(SealedMiniblock + 1)
        BY <1>1
      <4> QED BY <2>2, <4>1
    <3> QED BY <2>2, <3>1, <3>2, <3>3, <3>4, RowMarked
  <2> QED BY <1>1, <2>1, <2>2
<1>10. SealedMiniblock' = SealedMiniblock + 1
  <2>1. SealedMiniblock' = Max(DOMAIN miniblocks')
    BY DEF SealedMiniblock
  <2> QED BY <1>1, <1>8, <2>1, MaxInterval
<1>11. /\ DOMAIN l1_batches' = 0..(NewestBatch + 1)
       /\ \A b \in 0..NewestBatch : l1_batches'[b] = l1_batches[b]
       /\ l1_batches'[NewestBatch + 1] =
                [timestamp |-> um.batch_timestamp, version |-> um.version, txs |-> um.l1_batch]
  BY <1>1, <1>4 DEF Put
<1>12. NewestBatch' = NewestBatch + 1
  <2>1. NewestBatch' = Max(DOMAIN l1_batches')
    BY DEF NewestBatch
  <2> QED BY <1>1, <1>11, <2>1, MaxInterval
<1>13. FirstPending' = SealedMiniblock + 2
  <2> DEFINE S == {n \in DOMAIN miniblocks' : miniblocks'[n].l1_batch_number = NewestBatch + 1}
  <2>1. SealedMiniblock + 1 \in S /\ S \subseteq Int /\ \A y \in S : y <= SealedMiniblock + 1
    BY <1>1, <1>8, <1>9
  <2>2. Max(S) = SealedMiniblock + 1
    BY <2>1, MaxIs
  <2> QED BY <1>1, <1>12, <2>2 DEF FirstPending
<1>14. /\ miniblocks'[SealedMiniblock + 1].timestamp = um.timestamp
       /\ miniblocks'[SealedMiniblock + 1].txs = {}
       /\ miniblocks'[SealedMiniblock + 1].version = um.version
  BY <1>1, <1>5, <1>9
<1>15. \A n \in 0..(FirstPending - 1) : miniblocks'[n] = miniblocks[n]
  BY <1>1, <1>9
<1>16. \A n \in 0..SealedMiniblock :
                /\ miniblocks'[n].timestamp = miniblocks[n].timestamp
                /\ miniblocks'[n].txs = miniblocks[n].txs
                /\ miniblocks'[n].version = miniblocks[n].version
  BY <1>1, <1>5, <1>9
<1> QED BY <1>1, <1>2, <1>8, <1>9, <1>10, <1>11, <1>12, <1>13, <1>14, <1>15, <1>16

\* seal_miniblock puts the open miniblock at the end of the queue.
LEMMA MiniblockSubmitted ==
    ASSUME StateInv, SubmitMiniblock
    PROVE  /\ queue' \in Seq(Command) /\ Len(queue) \in Nat /\ Len(queue') = Len(queue) + 1
           /\ \A i \in 1..Len(queue) : queue'[i] = queue[i]
           /\ queue'[Len(queue) + 1] =
                [number |-> current_miniblock_number, timestamp |-> um.timestamp,
                 txs |-> um.miniblock, version |-> um.version]
           /\ queue' # <<>>
<1>1. queue \in Seq(Command) /\ um \in Updates /\ current_miniblock_number \in Nat
  BY DEF StateInv, MemoryTypes, TypeOK, Updates
<1>2. SealMiniblockCommand \in Command
  BY <1>1 DEF SealMiniblockCommand, Command, Updates
<1>3. queue' = Append(queue, SealMiniblockCommand)
  BY DEF SubmitMiniblock
<1> HIDE DEF SealMiniblockCommand
<1>4. /\ queue' \in Seq(Command) /\ Len(queue) \in Nat /\ Len(queue') = Len(queue) + 1
      /\ \A i \in 1..Len(queue) : queue'[i] = queue[i]
      /\ queue'[Len(queue) + 1] = SealMiniblockCommand
      /\ queue' # <<>>
  BY <1>1, <1>2, <1>3
<1> QED BY <1>4 DEF SealMiniblockCommand

\* load_pending_batch finds all miniblocks that no batch contains.
LEMMA PendingFound ==
    ASSUME StateInv, FirstPending \in DOMAIN miniblocks
    PROVE  /\ MiniblocksToReexecute = FirstPending..SealedMiniblock
           /\ Max(MiniblocksToReexecute) = SealedMiniblock
           /\ PendingParams \in Updates
           /\ PendingParams.batch_timestamp = miniblocks[FirstPending].timestamp
           /\ PendingParams.version = miniblocks[FirstPending].version
<1>1. /\ SealedMiniblock \in Nat /\ DOMAIN miniblocks = 0..SealedMiniblock
      /\ FirstPending \in 1..SealedMiniblock
      /\ \A n \in DOMAIN miniblocks : miniblocks[n].l1_batch_number = Null <=> n >= FirstPending
      /\ \A n \in FirstPending..SealedMiniblock : miniblocks[n].txs # {}
  BY DEF StateInv, TablesDense, PendingIsSuffix, NoneIsEmpty
<1>2. MiniblocksToReexecute = FirstPending..SealedMiniblock
  BY <1>1 DEF MiniblocksToReexecute
<1>3. Max(MiniblocksToReexecute) = SealedMiniblock
  BY <1>1, <1>2, MaxInterval
<1>4. miniblocks[FirstPending].timestamp \in Nat /\ miniblocks[FirstPending].version \in {0, 1}
  BY MiniblockRow DEF StateInv
<1> QED BY <1>2, <1>3, <1>4, NewFields DEF PendingParams

-----------------------------------------------------------------------------
(* Types. *)

DbTypes ==
    /\ hashed \in DOMAIN l1_batches
    /\ \A n \in DOMAIN miniblocks : miniblocks[n] \in Rows(DOMAIN l1_batches \cup {Null})
    /\ \A b \in DOMAIN l1_batches :
          l1_batches[b] \in [timestamp : Nat, version : {0, 1}, txs : SUBSET Tx]
    /\ \A b \in DOMAIN object_store : object_store[b] \subseteq Tx

LoopTypes ==
    /\ clock \in Nat
    /\ pool \subseteq Tx /\ rejected \subseteq Tx /\ vm \subseteq Tx
    /\ pc \in Open \cup {"start", "new_batch"}
    /\ um \in Updates

\* TypeOK in two parts: the tables, and the memory of the loop.
LEMMA TypeParts == TypeOK <=> DbTypes /\ LoopTypes
BY DEF TypeOK, DbTypes, LoopTypes, Rows, Updates, Open, Filling

\* A step that leaves Postgres and the object store alone.
LEMMA DbTypesUnchanged ==
    ASSUME DbTypes, UNCHANGED dbVars
    PROVE  DbTypes'
BY DEF DbTypes, dbVars

\* The tables keep their types.
LEMMA DbTypesKept ==
    ASSUME StateInv, Next
    PROVE  DbTypes'
<1>1. /\ DbTypes /\ LoopTypes
      /\ NewestBatch \in Nat /\ DOMAIN l1_batches = 0..NewestBatch
      /\ SealedMiniblock \in Nat /\ DOMAIN miniblocks = 0..SealedMiniblock
  BY TypeParts DEF StateInv, TablesDense
<1>2. CASE SealMiniblock
  <2>1. /\ DOMAIN miniblocks' = 0..(SealedMiniblock + 1)
        /\ \A n \in 0..SealedMiniblock : miniblocks'[n] = miniblocks[n]
        /\ miniblocks'[SealedMiniblock + 1] =
             [timestamp |-> queue[1].timestamp, txs |-> queue[1].txs,
              version |-> queue[1].version, l1_batch_number |-> Null]
        /\ queue[1] \in Command
    BY <1>2, MiniblockSealed
  <2>2. miniblocks'[SealedMiniblock + 1] \in Rows(DOMAIN l1_batches \cup {Null})
    BY <2>1 DEF Command, Rows
  <2>3. UNCHANGED <<l1_batches, hashed, object_store>>
    BY <1>2 DEF SealMiniblock
  <2>4. ASSUME NEW n \in DOMAIN miniblocks'
        PROVE  miniblocks'[n] \in Rows(DOMAIN l1_batches \cup {Null})
    <3>1. CASE n = SealedMiniblock + 1
      BY <2>2, <3>1
    <3>2. CASE n \in 0..SealedMiniblock
      BY <1>1, <2>1, <3>2 DEF DbTypes
    <3> QED BY <1>1, <2>1, <3>1, <3>2
  <2> QED BY <1>1, <2>3, <2>4 DEF DbTypes
<1>3. CASE SealL1Batch
  <2>1. /\ DOMAIN miniblocks' = 0..(SealedMiniblock + 1)
        /\ \A n \in 0..(FirstPending - 1) : miniblocks'[n] = miniblocks[n]
        /\ \A n \in 0..(SealedMiniblock + 1) : miniblocks'[n] \in Rows(Nat)
        /\ \A n \in FirstPending..(SealedMiniblock + 1) :
             miniblocks'[n].l1_batch_number = NewestBatch + 1
        /\ DOMAIN l1_batches' = 0..(NewestBatch + 1)
        /\ \A b \in 0..NewestBatch : l1_batches'[b] = l1_batches[b]
        /\ l1_batches'[NewestBatch + 1] =
             [timestamp |-> um.batch_timestamp, version |-> um.version, txs |-> um.l1_batch]
    BY <1>3, BatchSealed
  <2>2. UNCHANGED <<hashed, object_store>>
    BY <1>3 DEF SealL1Batch
  <2>3. l1_batches'[NewestBatch + 1] \in [timestamp : Nat, version : {0, 1}, txs : SUBSET Tx]
    BY <1>1, <2>1 DEF LoopTypes, Updates
  <2>4. \A b \in DOMAIN l1_batches' :
          l1_batches'[b] \in [timestamp : Nat, version : {0, 1}, txs : SUBSET Tx]
    BY <1>1, <2>1, <2>3 DEF DbTypes
  <2>5. FirstPending \in 1..(SealedMiniblock + 1)
    BY DEF StateInv, PendingIsSuffix
  <2>6. ASSUME NEW n \in DOMAIN miniblocks'
        PROVE  miniblocks'[n] \in Rows(DOMAIN l1_batches' \cup {Null})
    <3>1. miniblocks'[n] \in Rows(Nat)
      BY <2>1
    <3>2. CASE n \in 0..(FirstPending - 1)
      <4>1. miniblocks'[n] = miniblocks[n] /\ n \in DOMAIN miniblocks
        BY <1>1, <2>1, <2>5, <3>2
      <4>2. miniblocks[n].l1_batch_number \in DOMAIN l1_batches \cup {Null}
        BY <4>1, MiniblockRow DEF StateInv
      <4>3. miniblocks'[n].l1_batch_number \in DOMAIN l1_batches' \cup {Null}
        BY <1>1, <2>1, <4>1, <4>2
      <4> QED BY <3>1, <4>3, RowFields
    <3>3. CASE n \in FirstPending..(SealedMiniblock + 1)
      <4>1. miniblocks'[n].l1_batch_number \in DOMAIN l1_batches' \cup {Null}
        BY <1>1, <2>1, <3>3
      <4> QED BY <3>1, <4>1, RowFields
    <3> QED BY <1>1, <2>1, <2>5, <3>2, <3>3
  <2>7. hashed' \in DOMAIN l1_batches'
    BY <1>1, <2>1, <2>2 DEF DbTypes
  <2> QED BY <1>1, <2>2, <2>4, <2>6, <2>7 DEF DbTypes
<1>4. CASE FinishBatch
  <2>1. object_store' = Put(object_store, current_l1_batch_number, vm)
        /\ UNCHANGED <<miniblocks, l1_batches, hashed>>
    BY <1>4 DEF FinishBatch
  <2>2. \A b \in DOMAIN object_store' : object_store'[b] \subseteq Tx
    BY <1>1, <2>1 DEF Put, DbTypes, LoopTypes
  <2> QED BY <1>1, <2>1, <2>2 DEF DbTypes
<1>5. CASE SaveRootHash
  <2>1. hashed' = hashed + 1 /\ hashed < NewestBatch
        /\ UNCHANGED <<miniblocks, l1_batches, object_store>>
    BY <1>5 DEF SaveRootHash
  <2>2. hashed' \in DOMAIN l1_batches
    BY <1>1, <2>1 DEF DbTypes
  <2> QED BY <1>1, <2>1, <2>2 DEF DbTypes
<1>6. CASE UNCHANGED dbVars
  BY <1>1, <1>6, DbTypesUnchanged
<1>7. \/ SealMiniblock \/ SealL1Batch \/ FinishBatch \/ SaveRootHash \/ UNCHANGED dbVars
  BY DEF Next, Step, StartFresh, RestoreState, NoBatchParams, OpenBatch, NewMiniblock,
         CloseOnDeadline, MiniblockOnDeadline, NoDeadline, NoNextTx, ExecuteTx,
         SealLastMiniblock, ProcessUpgradeTx, Arrive, Tick, ClockBack, Crash, Reset, vars
<1> QED BY <1>2, <1>3, <1>4, <1>5, <1>6, <1>7

\* The state of the sequencer's loop keeps its types.
LEMMA LoopTypesKept ==
    ASSUME StateInv, Next
    PROVE  LoopTypes'
<1>1. LoopTypes /\ DbTypes /\ resume \in {"loop", "take", "finish"}
  BY TypeParts DEF StateInv, MemoryTypes
<1>2. CASE UNCHANGED <<clock, pool, rejected, vm, um>> /\ pc' \in Open \cup {"start", "new_batch"}
  BY <1>1, <1>2 DEF LoopTypes
<1>3. CASE RestoreState
  <2>1. FirstPending \in DOMAIN miniblocks
    BY <1>3 DEF RestoreState
  <2>2. /\ MiniblocksToReexecute = FirstPending..SealedMiniblock
        /\ Max(MiniblocksToReexecute) = SealedMiniblock
        /\ PendingParams \in Updates
    BY <2>1, PendingFound
  <2> DEFINE pending == UNION {miniblocks[n].txs : n \in MiniblocksToReexecute}
             last    == miniblocks[SealedMiniblock]
  <2>3. SealedMiniblock \in DOMAIN miniblocks /\ MiniblocksToReexecute \subseteq DOMAIN miniblocks
    BY DEF StateInv, TablesDense, MiniblocksToReexecute
  <2>4. pending \subseteq Tx /\ last.txs \subseteq Tx /\ last.timestamp \in Nat
    BY <2>3, MiniblockRow DEF StateInv
  <2>5. /\ um' = [PendingParams EXCEPT !.l1_batch = pending \ last.txs,
                                       !.miniblock = last.txs, !.timestamp = last.timestamp]
        /\ vm' = pending /\ pc' = "miniblock_params"
        /\ UNCHANGED <<clock, pool, rejected>>
    BY <1>3, <2>2 DEF RestoreState
  <2> HIDE DEF pending, last
  <2>6. um' \in Updates
    BY <2>2, <2>4, <2>5 DEF Updates
  <2> QED BY <1>1, <2>4, <2>5, <2>6 DEF LoopTypes, Open
<1>4. CASE OpenBatch
  <2>1. um' \in Updates
    BY <1>1, <1>4, NewFields, VersionType DEF OpenBatch, LoopTypes
  <2> QED BY <1>1, <1>4, <2>1 DEF OpenBatch, LoopTypes, Open, Filling, dbVars
<1>5. CASE NewMiniblock
  <2>1. um' \in Updates
    BY <1>1, <1>5, PushedFields DEF NewMiniblock, LoopTypes
  <2> QED BY <1>1, <1>5, <2>1 DEF NewMiniblock, LoopTypes, Open, Filling
<1>6. ASSUME NEW tx \in pool, NEW result \in ExecutionResult, ExecuteTx(tx, result)
      PROVE  LoopTypes'
  <2>1. um' \in Updates
    BY <1>1, <1>6, ExtendedFields DEF ExecuteTx, LoopTypes
  <2> QED BY <1>1, <1>6, <2>1 DEF ExecuteTx, LoopTypes, Open, Filling
<1>7. CASE Reset
  <2>1. um' \in Updates
    BY <1>7, NewFields DEF Reset
  <2> QED BY <1>1, <1>7, <2>1 DEF Reset, LoopTypes
<1>8. ASSUME NEW tx \in Tx, Arrive(tx)
      PROVE  LoopTypes'
  BY <1>1, <1>8 DEF Arrive, LoopTypes, memVars
<1>9. CASE Tick
  BY <1>1, <1>9 DEF Tick, LoopTypes, memVars
<1>10. CASE ClockBack
  BY <1>1, <1>10 DEF ClockBack, LoopTypes, memVars
<1>11. CASE StartFresh \/ CloseOnDeadline \/ MiniblockOnDeadline \/ NoDeadline \/ NoNextTx
            \/ SealLastMiniblock \/ FinishBatch \/ SealL1Batch \/ SealMiniblock \/ SaveRootHash
            \/ NoBatchParams
  BY <1>1, <1>2, <1>11 DEF StartFresh, CloseOnDeadline, MiniblockOnDeadline, NoDeadline, NoNextTx,
         SealLastMiniblock, FinishBatch, SealL1Batch, SealMiniblock, SaveRootHash, NoBatchParams,
         memVars, vars, LoopTypes, Open, Filling
<1> QED BY <1>3, <1>4, <1>5, <1>6, <1>7, <1>8, <1>9, <1>10, <1>11
        DEF Next, Step, Crash, ProcessUpgradeTx

\* So do the numbers in memory and the sealer's queue.
LEMMA MemoryTypesKept ==
    ASSUME StateInv, Next
    PROVE  MemoryTypes'
<1>1. MemoryTypes /\ SealedMiniblock \in Nat /\ NewestBatch \in Nat
  BY DEF StateInv, TablesDense
<1>2. CASE UNCHANGED <<memVars, queue>>
  BY <1>1, <1>2 DEF MemoryTypes, memVars
<1>3. CASE SealMiniblock
  BY <1>1, <1>3, MiniblockSealed DEF SealMiniblock, MemoryTypes, memVars
<1>4. CASE MiniblockOnDeadline
  BY <1>1, <1>4, MiniblockSubmitted DEF MiniblockOnDeadline, SubmitMiniblock, MemoryTypes
<1>5. CASE SealLastMiniblock
  BY <1>1, <1>5, MiniblockSubmitted DEF SealLastMiniblock, SubmitMiniblock, MemoryTypes
<1>6. CASE Reset
  BY <1>1, <1>6 DEF Reset, MemoryTypes
<1>7. CASE StartFresh \/ RestoreState \/ SealL1Batch
  BY <1>1, <1>7 DEF StartFresh, RestoreState, SealL1Batch, MemoryTypes
<1>8. CASE UNCHANGED <<resume, current_l1_batch_number, current_miniblock_number, queue>>
  BY <1>1, <1>8 DEF MemoryTypes
<1> QED BY <1>3, <1>4, <1>5, <1>6, <1>7, <1>8
        DEF Next, Step, NoBatchParams, OpenBatch, NewMiniblock, CloseOnDeadline, NoDeadline,
            NoNextTx, ExecuteTx, FinishBatch, ProcessUpgradeTx, SaveRootHash, Arrive, Tick,
            ClockBack, Crash, memVars, vars

-----------------------------------------------------------------------------
(* Numbers and pending miniblocks. *)

\* What every step does to the two tables.
LEMMA TableSteps ==
    ASSUME Next
    PROVE  SealMiniblock \/ SealL1Batch \/ UNCHANGED <<miniblocks, l1_batches>>
BY DEF Next, Step, StartFresh, RestoreState, NoBatchParams, OpenBatch, NewMiniblock,
       CloseOnDeadline, MiniblockOnDeadline, NoDeadline, NoNextTx, ExecuteTx, SealLastMiniblock,
       FinishBatch, ProcessUpgradeTx, SaveRootHash, Arrive, Tick, ClockBack, Crash, Reset,
       dbVars, vars

\* No table gets a gap.
LEMMA DenseKept ==
    ASSUME StateInv, Next
    PROVE  TablesDense'
<1>1. /\ SealedMiniblock \in Nat /\ DOMAIN miniblocks = 0..SealedMiniblock
      /\ NewestBatch \in Nat /\ DOMAIN l1_batches = 0..NewestBatch
      /\ DOMAIN object_store \subseteq 0..(NewestBatch + 1)
  BY DEF StateInv, TablesDense
<1>2. CASE SealMiniblock
  <2>1. UNCHANGED <<l1_batches, object_store>>
    BY <1>2 DEF SealMiniblock
  <2> QED BY <1>1, <1>2, <2>1, MiniblockSealed DEF TablesDense
<1>3. CASE SealL1Batch
  <2>1. UNCHANGED object_store
    BY <1>3 DEF SealL1Batch
  <2> QED BY <1>1, <1>3, <2>1, BatchSealed DEF TablesDense
<1>4. CASE FinishBatch
  <2>1. pc # "start" /\ UNCHANGED <<miniblocks, l1_batches>>
        /\ object_store' = Put(object_store, current_l1_batch_number, vm)
    BY <1>4 DEF FinishBatch
  <2>2. current_l1_batch_number = NewestBatch + 1
    BY <2>1 DEF StateInv, NumbersAhead
  <2>3. DOMAIN object_store' \subseteq 0..(NewestBatch + 1)
    BY <1>1, <2>1, <2>2 DEF Put
  <2> QED BY <1>1, <2>1, <2>3, TablesUnchanged DEF TablesDense
<1>5. CASE UNCHANGED <<miniblocks, l1_batches, object_store>>
  BY <1>1, <1>5, TablesUnchanged DEF TablesDense
<1>6. \/ SealMiniblock \/ SealL1Batch \/ FinishBatch
      \/ UNCHANGED <<miniblocks, l1_batches, object_store>>
  BY DEF Next, Step, StartFresh, RestoreState, NoBatchParams, OpenBatch, NewMiniblock,
       CloseOnDeadline, MiniblockOnDeadline, NoDeadline, NoNextTx, ExecuteTx, SealLastMiniblock,
       ProcessUpgradeTx, SaveRootHash, Arrive, Tick, ClockBack, Crash, Reset,
       dbVars, vars
<1> QED BY <1>2, <1>3, <1>4, <1>5, <1>6

\* The numbers in memory stay in step with the tables.
LEMMA NumbersKept ==
    ASSUME StateInv, Next
    PROVE  NumbersAhead'
<1>1. /\ SealedMiniblock \in Nat /\ NewestBatch \in Nat
      /\ queue \in Seq(Command) /\ Len(queue) \in Nat
      /\ NumbersAhead
      /\ resume \notin {"start", "new_batch", "upgrade", "seal"}
      /\ um \in Updates
  BY DEF StateInv, TablesDense, MemoryTypes, TypeOK, Updates
<1>2. CASE SealMiniblock
  <2>1. UNCHANGED <<pc, um, current_l1_batch_number, current_miniblock_number>> /\ queue # <<>>
    BY <1>2 DEF SealMiniblock, memVars
  <2>2. /\ SealedMiniblock' = SealedMiniblock + 1 /\ NewestBatch' = NewestBatch
        /\ Len(queue) \in Nat \ {0} /\ Len(queue') = Len(queue) - 1
        /\ \A i \in 1..Len(queue') : queue'[i] = queue[i + 1]
    BY <1>2, MiniblockSealed
  <2> QED BY <1>1, <2>1, <2>2 DEF NumbersAhead
<1>3. CASE SealL1Batch
  <2>1. /\ SealedMiniblock' = SealedMiniblock + 1 /\ NewestBatch' = NewestBatch + 1
        /\ queue = <<>>
    BY <1>3, BatchSealed
  <2> QED BY <1>1, <1>3, <2>1 DEF SealL1Batch, NumbersAhead
<1>4. CASE MiniblockOnDeadline \/ SealLastMiniblock
  <2>1. /\ SubmitMiniblock /\ pc # "start" /\ pc' = "miniblock_params"
        /\ UNCHANGED <<miniblocks, l1_batches, current_l1_batch_number>>
    BY <1>4 DEF MiniblockOnDeadline, SealLastMiniblock, dbVars
  <2>2. /\ Len(queue') = Len(queue) + 1
        /\ \A i \in 1..Len(queue) : queue'[i] = queue[i]
        /\ queue'[Len(queue) + 1].number = current_miniblock_number
        /\ current_miniblock_number' = current_miniblock_number + 1
    BY <2>1, MiniblockSubmitted DEF SubmitMiniblock
  <2> QED BY <1>1, <2>1, <2>2, TablesUnchanged DEF NumbersAhead
<1>5. CASE Reset
  BY <1>1, <1>5, TablesUnchanged DEF Reset, NumbersAhead, dbVars
<1>6. CASE StartFresh \/ RestoreState
  BY <1>1, <1>6, TablesUnchanged DEF StartFresh, RestoreState, NumbersAhead, dbVars
<1>7. CASE FinishBatch
  BY <1>1, <1>7, TablesUnchanged DEF FinishBatch, NumbersAhead, dbVars, memVars
<1>8. CASE /\ UNCHANGED <<miniblocks, l1_batches, queue, current_l1_batch_number,
                          current_miniblock_number>>
           /\ pc = "start" <=> pc' = "start"
           /\ pc' \in {"start", "new_batch", "upgrade"} => pc \in {"start", "new_batch", "upgrade"}
           /\ pc' = "seal" => pc = "seal" /\ um' = um
  BY <1>1, <1>8, TablesUnchanged DEF NumbersAhead
<1>9. CASE NoBatchParams \/ OpenBatch \/ NewMiniblock \/ CloseOnDeadline \/ NoDeadline \/ NoNextTx
           \/ SaveRootHash \/ Tick \/ ClockBack
           \/ (\E tx \in pool, result \in ExecutionResult : ExecuteTx(tx, result))
           \/ (\E tx \in Tx : Arrive(tx))
  BY <1>1, <1>8, <1>9
     DEF NoBatchParams, OpenBatch, NewMiniblock, CloseOnDeadline, NoDeadline, NoNextTx,
         ExecuteTx, SaveRootHash, Arrive, Tick, ClockBack, memVars, dbVars, vars
<1> QED BY <1>2, <1>3, <1>4, <1>5, <1>6, <1>7, <1>9 DEF Next, Step, ProcessUpgradeTx, Crash

\* The miniblocks without a batch stay those after the newest batch.
LEMMA SuffixKept ==
    ASSUME StateInv, Next
    PROVE  PendingIsSuffix'
<1>1. /\ SealedMiniblock \in Nat /\ DOMAIN miniblocks = 0..SealedMiniblock
      /\ NewestBatch \in Nat
      /\ FirstPending \in 1..(SealedMiniblock + 1)
      /\ PendingIsSuffix /\ NumbersAhead
  BY DEF StateInv, TablesDense, PendingIsSuffix
<1>2. CASE SealMiniblock
  <2>1. /\ UNCHANGED pc /\ queue # <<>>
    BY <1>2 DEF SealMiniblock
  <2>2. pc \notin {"start", "new_batch", "upgrade"}
    BY <1>1, <2>1 DEF NumbersAhead
  <2>3. /\ SealedMiniblock' = SealedMiniblock + 1 /\ DOMAIN miniblocks' = 0..(SealedMiniblock + 1)
        /\ \A n \in 0..SealedMiniblock : miniblocks'[n] = miniblocks[n]
        /\ miniblocks'[SealedMiniblock + 1].l1_batch_number = Null
        /\ NewestBatch' = NewestBatch /\ FirstPending' = FirstPending
    BY <1>2, MiniblockSealed
  <2> QED BY <1>1, <2>1, <2>2, <2>3 DEF PendingIsSuffix
<1>3. CASE SealL1Batch
  <2>1. /\ SealedMiniblock' = SealedMiniblock + 1 /\ DOMAIN miniblocks' = 0..(SealedMiniblock + 1)
        /\ NewestBatch' = NewestBatch + 1 /\ FirstPending' = SealedMiniblock + 2
        /\ \A n \in FirstPending..(SealedMiniblock + 1) :
             miniblocks'[n].l1_batch_number = NewestBatch + 1
        /\ \A n \in 0..(FirstPending - 1) : miniblocks'[n] = miniblocks[n]
    BY <1>3, BatchSealed
  <2>2. \A n \in DOMAIN miniblocks' : miniblocks'[n].l1_batch_number # Null
    BY <1>1, <2>1 DEF PendingIsSuffix, Null
  <2> QED BY <1>1, <2>1, <2>2 DEF PendingIsSuffix
<1>4. CASE UNCHANGED <<miniblocks, l1_batches>>
           /\ (pc' \in {"new_batch", "upgrade"} => FirstPending = SealedMiniblock + 1)
  BY <1>1, <1>4, TablesUnchanged DEF PendingIsSuffix
<1>5. CASE StartFresh
  <2>1. FirstPending \notin DOMAIN miniblocks /\ UNCHANGED <<miniblocks, l1_batches>>
    BY <1>5 DEF StartFresh, dbVars
  <2> QED BY <1>1, <1>4, <2>1
<1>6. CASE OpenBatch
  BY <1>1, <1>4, <1>6 DEF OpenBatch, dbVars, PendingIsSuffix
<1>7. CASE UNCHANGED <<miniblocks, l1_batches>>
           /\ (pc' \in {"new_batch", "upgrade"} => pc' = pc)
  BY <1>1, <1>4, <1>7 DEF PendingIsSuffix
<1>8. resume \notin {"new_batch", "upgrade"}
  BY DEF StateInv, MemoryTypes
<1> QED BY <1>2, <1>3, <1>5, <1>6, <1>7, <1>8
        DEF Next, Step, NoBatchParams, RestoreState, NewMiniblock, CloseOnDeadline,
            MiniblockOnDeadline, NoDeadline, NoNextTx, ExecuteTx, SealLastMiniblock, FinishBatch,
            ProcessUpgradeTx, SaveRootHash, Arrive, Tick, ClockBack, Crash, Reset, dbVars, vars

\* Only fictive miniblocks are empty.
LEMMA NoneEmptyKept ==
    ASSUME StateInv, Next
    PROVE  NoneIsEmpty'
<1>1. /\ SealedMiniblock \in Nat /\ FirstPending \in 1..(SealedMiniblock + 1)
      /\ queue \in Seq(Command) /\ Len(queue) \in Nat
      /\ NoneIsEmpty
  BY DEF StateInv, TablesDense, PendingIsSuffix, MemoryTypes
<1>2. CASE SealMiniblock
  <2>1. /\ SealedMiniblock' = SealedMiniblock + 1
        /\ \A n \in 0..SealedMiniblock : miniblocks'[n] = miniblocks[n]
        /\ miniblocks'[SealedMiniblock + 1].txs = queue[1].txs
        /\ FirstPending' = FirstPending
        /\ Len(queue) \in Nat \ {0} /\ Len(queue') = Len(queue) - 1
        /\ \A i \in 1..Len(queue') : queue'[i] = queue[i + 1]
    BY <1>2, MiniblockSealed
  <2>2. \A n \in FirstPending..(SealedMiniblock + 1) : miniblocks'[n].txs # {}
    <3>1. queue[1].txs # {}
      BY <1>1, <2>1 DEF NoneIsEmpty
    <3> TAKE n \in FirstPending..(SealedMiniblock + 1)
    <3>2. CASE n \in FirstPending..SealedMiniblock
      BY <1>1, <2>1, <3>2 DEF NoneIsEmpty
    <3>3. CASE n = SealedMiniblock + 1
      BY <2>1, <3>1, <3>3
    <3> QED BY <1>1, <3>2, <3>3
  <2>3. \A i \in 1..Len(queue') : queue'[i].txs # {}
    <3> TAKE i \in 1..Len(queue')
    <3>1. queue'[i] = queue[i + 1] /\ i + 1 \in 1..Len(queue)
      BY <2>1
    <3> QED BY <1>1, <3>1 DEF NoneIsEmpty
  <2> QED BY <2>1, <2>2, <2>3 DEF NoneIsEmpty
<1>3. CASE SealL1Batch
  <2>1. /\ SealedMiniblock' = SealedMiniblock + 1 /\ FirstPending' = SealedMiniblock + 2
        /\ queue = <<>> /\ queue' = queue
    BY <1>3, BatchSealed DEF SealL1Batch
  <2> QED BY <1>1, <2>1 DEF NoneIsEmpty
<1>4. CASE MiniblockOnDeadline \/ SealLastMiniblock
  <2>1. SubmitMiniblock /\ um.miniblock # {} /\ UNCHANGED <<miniblocks, l1_batches>>
    BY <1>4 DEF MiniblockOnDeadline, SealLastMiniblock, dbVars, should_seal_miniblock
  <2>2. /\ Len(queue') = Len(queue) + 1
        /\ \A i \in 1..Len(queue) : queue'[i] = queue[i]
        /\ queue'[Len(queue) + 1].txs = um.miniblock
    BY <2>1, MiniblockSubmitted
  <2> QED BY <1>1, <2>1, <2>2, TablesUnchanged DEF NoneIsEmpty
<1>5. CASE Reset
  BY <1>1, <1>5, TablesUnchanged DEF Reset, NoneIsEmpty, dbVars
<1>6. CASE UNCHANGED <<miniblocks, l1_batches, queue>>
  BY <1>1, <1>6, TablesUnchanged DEF NoneIsEmpty
<1> QED BY <1>2, <1>3, <1>4, <1>5, <1>6
        DEF Next, Step, StartFresh, RestoreState, NoBatchParams, OpenBatch, NewMiniblock,
            CloseOnDeadline, NoDeadline, NoNextTx, ExecuteTx, FinishBatch, ProcessUpgradeTx,
            SaveRootHash, Arrive, Tick, ClockBack, Crash, dbVars, vars

\* The tables that genesis leaves.
LEMMA GenesisTables ==
    ASSUME Init
    PROVE  SealedMiniblock = 0 /\ NewestBatch = 0 /\ FirstPending = 1
<1>1. /\ DOMAIN miniblocks = 0..0 /\ DOMAIN l1_batches = 0..0
      /\ miniblocks[0].l1_batch_number = 0
  BY DEF Init
<1>2. SealedMiniblock = 0 /\ NewestBatch = 0
  <2>1. SealedMiniblock = Max(0..0) /\ NewestBatch = Max(0..0)
    BY <1>1 DEF SealedMiniblock, NewestBatch
  <2> QED BY <2>1, MaxInterval
<1>3. {n \in DOMAIN miniblocks : miniblocks[n].l1_batch_number = NewestBatch} = 0..0
  BY <1>1, <1>2
<1>4. Max(0..0) = 0
  BY MaxInterval
<1> QED BY <1>2, <1>3, <1>4 DEF FirstPending

\* Genesis satisfies the invariant of the state.
LEMMA StateInit ==
    ASSUME Init
    PROVE  StateInv
<1>1. SealedMiniblock = 0 /\ NewestBatch = 0 /\ FirstPending = 1
  BY GenesisTables
<1>2. um \in Updates
  BY NewFields DEF Init
<1>3. LoopTypes
  BY <1>2 DEF Init, LoopTypes
<1>4. DbTypes
  BY DEF Init, DbTypes, Rows
<1>5. TypeOK
  BY <1>3, <1>4, TypeParts
<1>6. MemoryTypes /\ TablesDense
  BY <1>1 DEF Init, MemoryTypes, TablesDense
<1>7. NumbersAhead
  BY <1>1 DEF Init, NumbersAhead
<1>8. PendingIsSuffix /\ NoneIsEmpty
  BY <1>1 DEF Init, PendingIsSuffix, NoneIsEmpty, Null
<1> QED BY <1>5, <1>6, <1>7, <1>8 DEF StateInv

\* Every step keeps it.
LEMMA StateStep ==
    ASSUME StateInv, [Next]_vars
    PROVE  StateInv'
<1>1. CASE Next
  <2>1. TypeOK'
    BY <1>1, DbTypesKept, LoopTypesKept, TypeParts, PTL
  <2> QED BY <1>1, <2>1, MemoryTypesKept, DenseKept, NumbersKept, SuffixKept, NoneEmptyKept
          DEF StateInv
<1>2. CASE UNCHANGED vars
  <2>1. TypeOK' /\ MemoryTypes'
    BY <1>2 DEF StateInv, vars, memVars, dbVars, TypeOK, MemoryTypes
  <2>2. TablesDense' /\ NumbersAhead' /\ PendingIsSuffix' /\ NoneIsEmpty'
    BY <1>2, TablesUnchanged
       DEF StateInv, vars, memVars, dbVars, TablesDense, NumbersAhead, PendingIsSuffix, NoneIsEmpty
  <2> QED BY <2>1, <2>2 DEF StateInv
<1> QED BY <1>1, <1>2

\* StateInv holds of the whole system, crashes and restarts included.
LEMMA StateInvariant == Spec => []StateInv
<1>1. Init => StateInv
  BY StateInit
<1>2. StateInv /\ [Next]_vars => StateInv'
  BY StateStep
<1> QED BY <1>1, <1>2, PTL DEF Spec

\* The tables, the traces and the sequencer's memory always have their types: a
\* miniblock's l1_batch_number is that of a sealed batch or NULL, and the
\* metadata calculator never hashes a batch that is not sealed.
THEOREM TypeCorrect == Spec => []TypeOK
<1>1. StateInv => TypeOK
  BY DEF StateInv
<1> QED BY <1>1, StateInvariant, PTL

\* The sequencer's counters, the sealer's queue and the tables agree, for every
\* queue capacity and any number of crashes: seal_miniblock and seal_l1_batch
\* never insert a number that exists, and never leave a gap.
THEOREM NumbersTrackDbHolds == Spec => []NumbersTrackDb
<1>1. StateInv => NumbersTrackDb
  BY DEF StateInv, NumbersAhead, TablesDense, NumbersTrackDb
<1> QED BY <1>1, StateInvariant, PTL

\* What is sealed stays as it is.
THEOREM SealedStays == Spec => SealedIsFinal
<1> DEFINE Final ==
       /\ \A n \in DOMAIN miniblocks :
             /\ n \in DOMAIN miniblocks'
             /\ miniblocks'[n].txs = miniblocks[n].txs
             /\ miniblocks'[n].timestamp = miniblocks[n].timestamp
             /\ miniblocks[n].l1_batch_number # Null => miniblocks'[n] = miniblocks[n]
       /\ \A b \in DOMAIN l1_batches : b \in DOMAIN l1_batches' /\ l1_batches'[b] = l1_batches[b]
       /\ \A b \in DOMAIN l1_batches \cap DOMAIN object_store :
             object_store'[b] = object_store[b]
<1>1. ASSUME StateInv, Next
      PROVE  Final
  <2>1. /\ SealedMiniblock \in Nat /\ DOMAIN miniblocks = 0..SealedMiniblock
        /\ NewestBatch \in Nat /\ DOMAIN l1_batches = 0..NewestBatch
        /\ FirstPending \in 1..(SealedMiniblock + 1)
        /\ \A n \in DOMAIN miniblocks : miniblocks[n].l1_batch_number = Null <=> n >= FirstPending
    BY <1>1 DEF StateInv, TablesDense, PendingIsSuffix
  <2>2. CASE SealMiniblock
    <3>1. UNCHANGED <<l1_batches, object_store>>
      BY <2>2 DEF SealMiniblock
    <3> QED BY <1>1, <2>1, <2>2, <3>1, MiniblockSealed
  <2>3. CASE SealL1Batch
    <3>1. UNCHANGED object_store
      BY <2>3 DEF SealL1Batch
    <3> QED BY <1>1, <2>1, <2>3, <3>1, BatchSealed
  <2>4. CASE FinishBatch
    <3>1. pc # "start" /\ UNCHANGED <<miniblocks, l1_batches>>
          /\ object_store' = Put(object_store, current_l1_batch_number, vm)
      BY <2>4 DEF FinishBatch
    <3>2. current_l1_batch_number = NewestBatch + 1
      BY <1>1, <3>1 DEF StateInv, NumbersAhead
    <3> QED BY <2>1, <3>1, <3>2 DEF Put
  <2>5. CASE UNCHANGED <<miniblocks, l1_batches, object_store>>
    BY <2>5
  <2>6. \/ SealMiniblock \/ SealL1Batch \/ FinishBatch
        \/ UNCHANGED <<miniblocks, l1_batches, object_store>>
    BY <1>1
       DEF Next, Step, StartFresh, RestoreState, NoBatchParams, OpenBatch, NewMiniblock,
         CloseOnDeadline, MiniblockOnDeadline, NoDeadline, NoNextTx, ExecuteTx, SealLastMiniblock,
         ProcessUpgradeTx, SaveRootHash, Arrive, Tick, ClockBack, Crash, Reset,
         dbVars, vars
  <2> QED BY <2>2, <2>3, <2>4, <2>5, <2>6
<1>2. StateInv /\ [Next]_vars => [Final]_vars
  BY <1>1
<1> QED BY <1>2, StateInvariant, PTL DEF Spec, SealedIsFinal

-----------------------------------------------------------------------------
(* Timestamps. *)

\* The timestamp of the last miniblock handed to the sealer.
LastTimestamp ==
    IF queue = <<>> THEN miniblocks[SealedMiniblock].timestamp ELSE queue[Len(queue)].timestamp

\* The timestamp of the first miniblock of the open batch.
FirstTimestamp ==
    IF FirstPending <= SealedMiniblock THEN miniblocks[FirstPending].timestamp
    ELSE IF queue # <<>> THEN queue[1].timestamp
    ELSE um.timestamp

\* The open miniblock is later than all that were submitted, and the open
\* batch has the timestamp of its first miniblock.
OpenIsLatest ==
    /\ pc = "miniblock_params" =>
         um.timestamp = LastTimestamp /\ (FirstPending <= SealedMiniblock \/ queue # <<>>)
    /\ pc \in Filling => um.timestamp > LastTimestamp
    /\ pc \in Open => um.batch_timestamp = FirstTimestamp

\* The newest batch is no later than its last miniblock.
BatchStartsFirst ==
    l1_batches[NewestBatch].timestamp <= miniblocks[FirstPending - 1].timestamp

TimeInv == TimestampsIncrease /\ OpenIsLatest /\ BatchStartsFirst

\* The types that comparing timestamps needs.
LEMMA Timestamps ==
    ASSUME StateInv
    PROVE  /\ SealedMiniblock \in Nat /\ DOMAIN miniblocks = 0..SealedMiniblock
           /\ NewestBatch \in Nat /\ DOMAIN l1_batches = 0..NewestBatch
           /\ FirstPending \in 1..(SealedMiniblock + 1)
           /\ Len(queue) \in Nat /\ (queue = <<>> <=> Len(queue) = 0)
           /\ \A n \in 0..SealedMiniblock : miniblocks[n].timestamp \in Nat
           /\ \A b \in 0..NewestBatch : l1_batches[b].timestamp \in Nat
           /\ \A i \in 1..Len(queue) : queue[i].timestamp \in Nat
           /\ um.timestamp \in Nat /\ um.batch_timestamp \in Nat /\ clock \in Nat
           /\ LastTimestamp \in Nat
<1>1. /\ SealedMiniblock \in Nat /\ DOMAIN miniblocks = 0..SealedMiniblock
      /\ NewestBatch \in Nat /\ DOMAIN l1_batches = 0..NewestBatch
      /\ FirstPending \in 1..(SealedMiniblock + 1)
      /\ queue \in Seq(Command)
  BY DEF StateInv, TablesDense, PendingIsSuffix, MemoryTypes
<1>2. \A n \in 0..SealedMiniblock : miniblocks[n].timestamp \in Nat
  BY <1>1, MiniblockRow DEF StateInv
<1>3. \A b \in 0..NewestBatch : l1_batches[b].timestamp \in Nat
  BY <1>1 DEF StateInv, TypeOK
<1>4. Len(queue) \in Nat /\ (queue = <<>> <=> Len(queue) = 0)
  BY <1>1
<1>5. \A i \in 1..Len(queue) : queue[i] \in Command
  BY <1>1
<1>6. \A i \in 1..Len(queue) : queue[i].timestamp \in Nat
  BY <1>5 DEF Command
<1>7. um.timestamp \in Nat /\ um.batch_timestamp \in Nat /\ clock \in Nat
  BY DEF StateInv, TypeOK
<1>8. LastTimestamp \in Nat
  BY <1>1, <1>2, <1>4, <1>6 DEF LastTimestamp
<1> QED BY <1>1, <1>2, <1>3, <1>4, <1>6, <1>7, <1>8

\* No miniblock is later than the last submitted one.
LEMMA LastIsLatest ==
    ASSUME StateInv, TimestampsIncrease
    PROVE  /\ \A n \in 0..SealedMiniblock : miniblocks[n].timestamp <= LastTimestamp
           /\ \A i \in 1..Len(queue) : queue[i].timestamp <= LastTimestamp
<1>1. /\ SealedMiniblock \in Nat /\ DOMAIN miniblocks = 0..SealedMiniblock
      /\ Len(queue) \in Nat /\ (queue = <<>> <=> Len(queue) = 0)
      /\ \A n \in 0..SealedMiniblock : miniblocks[n].timestamp \in Nat
      /\ \A i \in 1..Len(queue) : queue[i].timestamp \in Nat
  BY Timestamps
<1>2. \A n \in 0..SealedMiniblock :
        miniblocks[n].timestamp <= miniblocks[SealedMiniblock].timestamp
  <2> TAKE n \in 0..SealedMiniblock
  <2>1. n = SealedMiniblock \/ n < SealedMiniblock
    BY <1>1
  <2> QED BY <1>1, <2>1 DEF TimestampsIncrease
<1>3. \A i \in 1..Len(queue) : queue[i].timestamp <= queue[Len(queue)].timestamp
  <2> TAKE i \in 1..Len(queue)
  <2>1. i = Len(queue) \/ i < Len(queue)
    BY <1>1
  <2> QED BY <1>1, <2>1 DEF TimestampsIncrease
<1>4. CASE queue = <<>>
  BY <1>1, <1>2, <1>4 DEF LastTimestamp
<1>5. CASE queue # <<>>
  <2>1. miniblocks[SealedMiniblock].timestamp < queue[Len(queue)].timestamp
    BY <1>1, <1>5 DEF TimestampsIncrease
  <2>2. LastTimestamp = queue[Len(queue)].timestamp /\ Len(queue) \in 1..Len(queue)
    BY <1>1, <1>5 DEF LastTimestamp
  <2> QED BY <1>1, <1>2, <1>3, <2>1, <2>2
<1> QED BY <1>4, <1>5

\* A step that touches neither tables nor queue.
LEMMA SubmittedUnchanged ==
    ASSUME UNCHANGED <<miniblocks, l1_batches, queue>>
    PROVE  LastTimestamp' = LastTimestamp
BY TablesUnchanged DEF LastTimestamp

\* The first miniblock of the open batch is no later than the open one, and
\* later than the newest batch.
LEMMA FirstIsBetween ==
    ASSUME StateInv, TimeInv, pc \in Filling
    PROVE  /\ FirstTimestamp <= um.timestamp
           /\ FirstTimestamp > l1_batches[NewestBatch].timestamp
<1>1. /\ SealedMiniblock \in Nat /\ DOMAIN miniblocks = 0..SealedMiniblock
      /\ NewestBatch \in Nat /\ FirstPending \in 1..(SealedMiniblock + 1)
      /\ Len(queue) \in Nat /\ (queue = <<>> <=> Len(queue) = 0)
      /\ \A n \in 0..SealedMiniblock : miniblocks[n].timestamp \in Nat
      /\ l1_batches[NewestBatch].timestamp \in Nat
      /\ \A i \in 1..Len(queue) : queue[i].timestamp \in Nat
      /\ um.timestamp \in Nat /\ LastTimestamp \in Nat
  BY Timestamps
<1>2. /\ um.timestamp > LastTimestamp
      /\ l1_batches[NewestBatch].timestamp <= miniblocks[FirstPending - 1].timestamp
  BY DEF TimeInv, OpenIsLatest, BatchStartsFirst
<1>3. /\ \A n \in 0..SealedMiniblock : miniblocks[n].timestamp <= LastTimestamp
      /\ \A i \in 1..Len(queue) : queue[i].timestamp <= LastTimestamp
  BY LastIsLatest DEF TimeInv
<1>4. FirstPending - 1 \in 0..SealedMiniblock
  BY <1>1
<1>5. CASE FirstPending <= SealedMiniblock
  <2>1. FirstPending \in 0..SealedMiniblock /\ FirstPending - 1 < FirstPending
    BY <1>1, <1>5
  <2>2. miniblocks[FirstPending - 1].timestamp < miniblocks[FirstPending].timestamp
    BY <1>1, <1>4, <2>1 DEF TimeInv, TimestampsIncrease
  <2>3. FirstTimestamp = miniblocks[FirstPending].timestamp
    BY <1>5 DEF FirstTimestamp
  <2>4. miniblocks[FirstPending].timestamp \in Nat /\ miniblocks[FirstPending - 1].timestamp \in Nat
        /\ miniblocks[FirstPending].timestamp <= LastTimestamp
    BY <1>1, <1>3, <1>4, <2>1
  <2> QED BY <1>1, <1>2, <2>2, <2>3, <2>4
<1>6. CASE FirstPending = SealedMiniblock + 1 /\ queue # <<>>
  <2>1. 1 \in 1..Len(queue)
    BY <1>1, <1>6
  <2>2. miniblocks[SealedMiniblock].timestamp < queue[1].timestamp
    BY <1>1, <2>1 DEF TimeInv, TimestampsIncrease
  <2>3. FirstTimestamp = queue[1].timestamp /\ FirstPending - 1 = SealedMiniblock
    BY <1>1, <1>6 DEF FirstTimestamp
  <2>4. queue[1].timestamp \in Nat /\ queue[1].timestamp <= LastTimestamp
        /\ miniblocks[SealedMiniblock].timestamp \in Nat
    BY <1>1, <1>3, <2>1
  <2> QED BY <1>1, <1>2, <2>2, <2>3, <2>4
<1>7. CASE FirstPending = SealedMiniblock + 1 /\ queue = <<>>
  <2>1. FirstTimestamp = um.timestamp /\ FirstPending - 1 = SealedMiniblock
    BY <1>1, <1>7 DEF FirstTimestamp
  <2>2. miniblocks[SealedMiniblock].timestamp \in Nat
        /\ miniblocks[SealedMiniblock].timestamp <= LastTimestamp
    BY <1>1, <1>3
  <2> QED BY <1>1, <1>2, <2>1, <2>2
<1> QED BY <1>1, <1>5, <1>6, <1>7

\* The open batch when a miniblock is submitted.
LEMMA SubmittedInTime ==
    ASSUME StateInv, TimeInv, SubmitMiniblock, pc \in Filling, pc' = "miniblock_params",
           UNCHANGED <<miniblocks, l1_batches, um>>
    PROVE  TimeInv'
<1>1. /\ SealedMiniblock \in Nat /\ DOMAIN miniblocks = 0..SealedMiniblock
      /\ FirstPending \in 1..(SealedMiniblock + 1)
      /\ Len(queue) \in Nat /\ (queue = <<>> <=> Len(queue) = 0)
      /\ \A n \in 0..SealedMiniblock : miniblocks[n].timestamp \in Nat
      /\ \A i \in 1..Len(queue) : queue[i].timestamp \in Nat
      /\ um.timestamp \in Nat /\ LastTimestamp \in Nat
  BY Timestamps
<1>2. /\ SealedMiniblock' = SealedMiniblock /\ NewestBatch' = NewestBatch
      /\ FirstPending' = FirstPending
  BY TablesUnchanged
<1>3. /\ Len(queue') = Len(queue) + 1 /\ queue' # <<>>
      /\ \A i \in 1..Len(queue) : queue'[i] = queue[i]
      /\ queue'[Len(queue) + 1].timestamp = um.timestamp
  BY MiniblockSubmitted
<1>4. um.timestamp > LastTimestamp /\ um.batch_timestamp = FirstTimestamp
  BY DEF TimeInv, OpenIsLatest, Open
<1>5. /\ \A n \in 0..SealedMiniblock : miniblocks[n].timestamp <= LastTimestamp
      /\ \A i \in 1..Len(queue) : queue[i].timestamp <= LastTimestamp
  BY LastIsLatest DEF TimeInv
<1>6. TimestampsIncrease'
  <2>1. \A i, j \in 1..Len(queue') : i < j => queue'[i].timestamp < queue'[j].timestamp
    <3> SUFFICES ASSUME NEW i \in 1..Len(queue'), NEW j \in 1..Len(queue'), i < j
                 PROVE  queue'[i].timestamp < queue'[j].timestamp
      OBVIOUS
    <3>1. i \in 1..Len(queue) /\ queue'[i] = queue[i]
      BY <1>1, <1>3
    <3>2. CASE j = Len(queue) + 1
      BY <1>1, <1>3, <1>4, <1>5, <3>1, <3>2
    <3>3. CASE j \in 1..Len(queue)
      BY <1>3, <3>1, <3>3 DEF TimeInv, TimestampsIncrease
    <3>4. j = Len(queue) + 1 \/ j \in 1..Len(queue)
      <4>1. Len(queue) \in Nat /\ j \in 1..(Len(queue) + 1)
        BY <1>1, <1>3
      <4> QED BY <4>1
    <3> QED BY <3>2, <3>3, <3>4
  <2>2. \A i \in 1..Len(queue') : miniblocks[SealedMiniblock].timestamp < queue'[i].timestamp
    <3> TAKE i \in 1..Len(queue')
    <3>1. CASE i = Len(queue) + 1
      BY <1>1, <1>3, <1>4, <1>5, <3>1
    <3>2. CASE i \in 1..Len(queue)
      BY <1>3, <3>2 DEF TimeInv, TimestampsIncrease
    <3> QED BY <1>1, <1>3, <3>1, <3>2
  <2> QED BY <1>2, <2>1, <2>2 DEF TimeInv, TimestampsIncrease
<1>7. LastTimestamp' = um.timestamp
  BY <1>1, <1>3 DEF LastTimestamp
<1>8. FirstTimestamp' = FirstTimestamp
  BY <1>1, <1>2, <1>3 DEF FirstTimestamp
<1>9. OpenIsLatest'
  BY <1>3, <1>4, <1>7, <1>8 DEF OpenIsLatest, Filling
<1>10. BatchStartsFirst'
  BY <1>2 DEF TimeInv, BatchStartsFirst
<1> QED BY <1>6, <1>9, <1>10 DEF TimeInv

\* The sealer moves a timestamp from its queue to the table.
LEMMA SealedInTime ==
    ASSUME StateInv, TimeInv, SealMiniblock
    PROVE  TimeInv'
<1>1. /\ SealedMiniblock \in Nat /\ DOMAIN miniblocks = 0..SealedMiniblock
      /\ FirstPending \in 1..(SealedMiniblock + 1)
      /\ \A n \in 0..SealedMiniblock : miniblocks[n].timestamp \in Nat
      /\ \A i \in 1..Len(queue) : queue[i].timestamp \in Nat
  BY Timestamps
<1>2. /\ SealedMiniblock' = SealedMiniblock + 1 /\ NewestBatch' = NewestBatch
      /\ FirstPending' = FirstPending
      /\ DOMAIN miniblocks' = 0..(SealedMiniblock + 1)
      /\ \A n \in 0..SealedMiniblock : miniblocks'[n] = miniblocks[n]
      /\ miniblocks'[SealedMiniblock + 1].timestamp = queue[1].timestamp
      /\ Len(queue) \in Nat \ {0} /\ queue' \in Seq(Command) /\ Len(queue') = Len(queue) - 1
      /\ \A i \in 1..Len(queue') : queue'[i] = queue[i + 1]
  BY MiniblockSealed
<1>3. UNCHANGED <<l1_batches, pc, um>> /\ queue # <<>>
  BY DEF SealMiniblock, memVars
<1>4. queue' = <<>> <=> Len(queue') = 0
  BY <1>2
<1>5. /\ \A m, n \in 0..SealedMiniblock : m < n => miniblocks[m].timestamp < miniblocks[n].timestamp
      /\ \A i, j \in 1..Len(queue) : i < j => queue[i].timestamp < queue[j].timestamp
      /\ miniblocks[SealedMiniblock].timestamp < queue[1].timestamp
  <2>1. 1 \in 1..Len(queue)
    BY <1>2
  <2> QED BY <1>1, <2>1 DEF TimeInv, TimestampsIncrease
<1>6. TimestampsIncrease'
  <2>1. \A m, n \in DOMAIN miniblocks' : m < n =>
          miniblocks'[m].timestamp < miniblocks'[n].timestamp
    <3> SUFFICES ASSUME NEW m \in DOMAIN miniblocks', NEW n \in DOMAIN miniblocks', m < n
                 PROVE  miniblocks'[m].timestamp < miniblocks'[n].timestamp
      OBVIOUS
    <3>1. m \in 0..SealedMiniblock /\ miniblocks'[m] = miniblocks[m]
      BY <1>1, <1>2
    <3>2. CASE n \in 0..SealedMiniblock
      BY <1>2, <1>5, <3>1, <3>2
    <3>3. CASE n = SealedMiniblock + 1
      <4>1. m = SealedMiniblock \/ miniblocks[m].timestamp < miniblocks[SealedMiniblock].timestamp
        BY <1>1, <1>5, <3>1
      <4>2. 1 \in 1..Len(queue)
        BY <1>2
      <4>3. /\ miniblocks[m].timestamp \in Nat /\ miniblocks[SealedMiniblock].timestamp \in Nat
            /\ queue[1].timestamp \in Nat
        BY <1>1, <3>1, <4>2
      <4> QED BY <1>2, <1>5, <3>1, <3>3, <4>1, <4>3
    <3> QED BY <1>1, <1>2, <3>2, <3>3
  <2>2. \A i \in 1..Len(queue') : i + 1 \in 1..Len(queue) /\ 1 < i + 1 /\ 1 \in 1..Len(queue)
    BY <1>2
  <2>3. \A i \in 1..Len(queue') : miniblocks'[SealedMiniblock'].timestamp < queue'[i].timestamp
    BY <1>2, <1>5, <2>2
  <2>4. \A i, j \in 1..Len(queue') : i < j => queue'[i].timestamp < queue'[j].timestamp
    <3> SUFFICES ASSUME NEW i \in 1..Len(queue'), NEW j \in 1..Len(queue'), i < j
                 PROVE  queue'[i].timestamp < queue'[j].timestamp
      OBVIOUS
    <3>1. i + 1 < j + 1
      BY <1>2
    <3> QED BY <1>2, <1>5, <2>2, <3>1
  <2> QED BY <1>3, <2>1, <2>3, <2>4 DEF TimeInv, TimestampsIncrease
<1>7. LastTimestamp' = LastTimestamp
  <2>1. CASE Len(queue) = 1
    <3>1. queue' = <<>>
      BY <1>2, <1>4, <2>1
    <3> QED BY <1>2, <1>3, <2>1, <3>1 DEF LastTimestamp
  <2>2. CASE Len(queue) > 1
    <3>1. queue' # <<>> /\ queue'[Len(queue')] = queue[Len(queue)]
      BY <1>2, <1>4, <2>2
    <3> QED BY <1>3, <3>1 DEF LastTimestamp
  <2> QED BY <1>2, <2>1, <2>2
<1>8. FirstTimestamp' = FirstTimestamp
  BY <1>1, <1>2, <1>3 DEF FirstTimestamp
<1>9. OpenIsLatest'
  <2>1. SealedMiniblock + 1 >= FirstPending /\ FirstPending' <= SealedMiniblock'
    BY <1>1, <1>2
  <2> QED BY <1>3, <1>7, <1>8, <2>1 DEF TimeInv, OpenIsLatest
<1>10. BatchStartsFirst'
  BY <1>1, <1>2, <1>3 DEF TimeInv, BatchStartsFirst
<1> QED BY <1>6, <1>9, <1>10 DEF TimeInv

\* The new batch and its fictive miniblock are later than all before.
LEMMA BatchInTime ==
    ASSUME StateInv, TimeInv, SealL1Batch
    PROVE  TimeInv'
<1>1. /\ SealedMiniblock \in Nat /\ DOMAIN miniblocks = 0..SealedMiniblock
      /\ NewestBatch \in Nat /\ DOMAIN l1_batches = 0..NewestBatch
      /\ \A n \in 0..SealedMiniblock : miniblocks[n].timestamp \in Nat
      /\ \A b \in 0..NewestBatch : l1_batches[b].timestamp \in Nat
      /\ um.timestamp \in Nat /\ um.batch_timestamp \in Nat /\ LastTimestamp \in Nat
  BY Timestamps
<1>2. /\ SealedMiniblock' = SealedMiniblock + 1 /\ NewestBatch' = NewestBatch + 1
      /\ FirstPending' = SealedMiniblock + 2
      /\ DOMAIN miniblocks' = 0..(SealedMiniblock + 1)
      /\ DOMAIN l1_batches' = 0..(NewestBatch + 1)
      /\ \A n \in 0..SealedMiniblock : miniblocks'[n].timestamp = miniblocks[n].timestamp
      /\ miniblocks'[SealedMiniblock + 1].timestamp = um.timestamp
      /\ \A b \in 0..NewestBatch : l1_batches'[b] = l1_batches[b]
      /\ l1_batches'[NewestBatch + 1].timestamp = um.batch_timestamp
      /\ queue = <<>>
  BY BatchSealed
<1>3. pc = "seal" /\ pc' = "new_batch" /\ queue' = queue
  BY DEF SealL1Batch
<1>4. pc \in Filling /\ pc \in Open /\ pc' \notin Filling /\ pc' \notin Open
  BY <1>3 DEF Filling, Open
<1>5. /\ um.timestamp > LastTimestamp /\ um.batch_timestamp = FirstTimestamp
      /\ FirstTimestamp <= um.timestamp
      /\ FirstTimestamp > l1_batches[NewestBatch].timestamp
  BY <1>4, FirstIsBetween DEF TimeInv, OpenIsLatest
<1>6. \A n \in 0..SealedMiniblock : miniblocks[n].timestamp < um.timestamp
  <2>1. \A n \in 0..SealedMiniblock : miniblocks[n].timestamp <= LastTimestamp
    BY LastIsLatest DEF TimeInv
  <2> QED BY <1>1, <1>5, <2>1
<1>7. \A b \in 0..NewestBatch : l1_batches[b].timestamp < um.batch_timestamp
  <2> TAKE b \in 0..NewestBatch
  <2>1. b = NewestBatch \/ l1_batches[b].timestamp < l1_batches[NewestBatch].timestamp
    BY <1>1 DEF TimeInv, TimestampsIncrease
  <2>2. l1_batches[b].timestamp \in Nat /\ l1_batches[NewestBatch].timestamp \in Nat
    BY <1>1
  <2> QED BY <1>1, <1>5, <2>1, <2>2
<1>8. \A m, n \in DOMAIN miniblocks' : m < n => miniblocks'[m].timestamp < miniblocks'[n].timestamp
  <2> SUFFICES ASSUME NEW m \in DOMAIN miniblocks', NEW n \in DOMAIN miniblocks', m < n
               PROVE  miniblocks'[m].timestamp < miniblocks'[n].timestamp
    OBVIOUS
  <2>1. m \in 0..SealedMiniblock
    BY <1>1, <1>2
  <2>2. CASE n \in 0..SealedMiniblock
    BY <1>1, <1>2, <2>1, <2>2 DEF TimeInv, TimestampsIncrease
  <2>3. CASE n = SealedMiniblock + 1
    BY <1>2, <1>6, <2>1, <2>3
  <2> QED BY <1>1, <1>2, <2>2, <2>3
<1>9. \A b, c \in DOMAIN l1_batches' : b < c => l1_batches'[b].timestamp < l1_batches'[c].timestamp
  <2> SUFFICES ASSUME NEW b \in DOMAIN l1_batches', NEW c \in DOMAIN l1_batches', b < c
               PROVE  l1_batches'[b].timestamp < l1_batches'[c].timestamp
    OBVIOUS
  <2>1. b \in 0..NewestBatch
    BY <1>1, <1>2
  <2>2. CASE c \in 0..NewestBatch
    BY <1>1, <1>2, <2>1, <2>2 DEF TimeInv, TimestampsIncrease
  <2>3. CASE c = NewestBatch + 1
    BY <1>2, <1>7, <2>1, <2>3
  <2> QED BY <1>1, <1>2, <2>2, <2>3
<1>10. TimestampsIncrease'
  BY <1>2, <1>3, <1>8, <1>9 DEF TimestampsIncrease
<1>11. OpenIsLatest'
  BY <1>3, <1>4 DEF OpenIsLatest
<1>12. BatchStartsFirst'
  BY <1>1, <1>2, <1>5 DEF BatchStartsFirst
<1> QED BY <1>10, <1>11, <1>12 DEF TimeInv

\* Steps after which the timestamps of the open batch are what they were.
LEMMA QuietInTime ==
    ASSUME StateInv, TimeInv, UNCHANGED <<miniblocks, l1_batches, queue>>,
           um'.timestamp = um.timestamp, um'.batch_timestamp = um.batch_timestamp,
           \/ pc' = pc \/ pc' \notin Open
           \/ pc \in Filling /\ pc' \in Filling
    PROVE  TimeInv'
<1>1. /\ SealedMiniblock' = SealedMiniblock /\ NewestBatch' = NewestBatch
      /\ FirstPending' = FirstPending /\ LastTimestamp' = LastTimestamp
  BY TablesUnchanged, SubmittedUnchanged
<1>2. FirstTimestamp' = FirstTimestamp
  BY <1>1 DEF FirstTimestamp
<1>3. OpenIsLatest'
  BY <1>1, <1>2 DEF TimeInv, OpenIsLatest, Open, Filling
<1>4. TimestampsIncrease' /\ BatchStartsFirst'
  BY <1>1 DEF TimeInv, TimestampsIncrease, BatchStartsFirst
<1> QED BY <1>3, <1>4 DEF TimeInv

\* Every step keeps the order of the timestamps.
LEMMA TimeStep ==
    ASSUME StateInv, TimeInv, [Next]_vars
    PROVE  TimeInv'
<1>1. /\ SealedMiniblock \in Nat /\ DOMAIN miniblocks = 0..SealedMiniblock
      /\ FirstPending \in 1..(SealedMiniblock + 1)
      /\ \A n \in 0..SealedMiniblock : miniblocks[n].timestamp \in Nat
      /\ um.timestamp \in Nat /\ clock \in Nat /\ LastTimestamp \in Nat
      /\ um \in Updates
  BY Timestamps DEF StateInv, TypeOK, Updates
<1>2. CASE SealMiniblock
  BY <1>2, SealedInTime
<1>3. CASE SealL1Batch
  BY <1>3, BatchInTime
<1>4. CASE MiniblockOnDeadline \/ SealLastMiniblock
  BY <1>4, SubmittedInTime DEF MiniblockOnDeadline, SealLastMiniblock, Filling, dbVars
<1>5. CASE RestoreState
  <2>1. /\ FirstPending \in DOMAIN miniblocks /\ UNCHANGED <<miniblocks, l1_batches, queue>>
        /\ pc = "start" /\ pc' = "miniblock_params"
    BY <1>5 DEF RestoreState, dbVars
  <2>2. queue = <<>>
    BY <2>1 DEF StateInv, NumbersAhead
  <2>3. /\ SealedMiniblock' = SealedMiniblock /\ FirstPending' = FirstPending
        /\ NewestBatch' = NewestBatch
        /\ LastTimestamp' = miniblocks[SealedMiniblock].timestamp
    BY <2>1, <2>2, TablesUnchanged, SubmittedUnchanged DEF LastTimestamp
  <2>4. /\ Max(MiniblocksToReexecute) = SealedMiniblock /\ PendingParams \in Updates
        /\ PendingParams.batch_timestamp = miniblocks[FirstPending].timestamp
    BY <2>1, PendingFound
  <2>5. /\ um'.timestamp = miniblocks[SealedMiniblock].timestamp
        /\ um'.batch_timestamp = miniblocks[FirstPending].timestamp
    BY <1>5, <2>4 DEF RestoreState, Updates
  <2>6. FirstPending <= SealedMiniblock
    BY <1>1, <2>1
  <2>7. FirstTimestamp' = miniblocks[FirstPending].timestamp
    BY <2>1, <2>3, <2>6 DEF FirstTimestamp
  <2>8. OpenIsLatest'
    BY <2>1, <2>3, <2>5, <2>6, <2>7 DEF OpenIsLatest, Filling
  <2> QED BY <2>1, <2>3, <2>8 DEF TimeInv, TimestampsIncrease, BatchStartsFirst
<1>6. CASE OpenBatch
  <2>1. /\ pc = "new_batch" /\ pc' \in {"upgrade", "loop"}
        /\ UNCHANGED <<miniblocks, l1_batches, queue>>
        /\ clock > miniblocks[current_miniblock_number - 1].timestamp
        /\ um' = NewUpdates(clock, VersionAt(clock))
    BY <1>6 DEF OpenBatch, SleepPast, PrevMiniblockTimestamp, dbVars
  <2>2. /\ queue = <<>> /\ FirstPending = SealedMiniblock + 1
        /\ current_miniblock_number - 1 = SealedMiniblock
    BY <1>1, <2>1 DEF StateInv, NumbersAhead, PendingIsSuffix
  <2>3. /\ SealedMiniblock' = SealedMiniblock /\ FirstPending' = FirstPending
        /\ NewestBatch' = NewestBatch
        /\ LastTimestamp' = miniblocks[SealedMiniblock].timestamp
    BY <2>1, <2>2, TablesUnchanged, SubmittedUnchanged DEF LastTimestamp
  <2>4. um'.timestamp = clock /\ um'.batch_timestamp = clock
    BY <1>1, <2>1, NewFields, VersionType
  <2>5. FirstTimestamp' = clock
    BY <1>1, <2>1, <2>2, <2>3, <2>4 DEF FirstTimestamp
  <2>6. OpenIsLatest'
    BY <2>1, <2>2, <2>3, <2>4, <2>5 DEF OpenIsLatest
  <2> QED BY <2>1, <2>3, <2>6 DEF TimeInv, TimestampsIncrease, BatchStartsFirst
<1>7. CASE NewMiniblock
  <2>1. /\ pc = "miniblock_params" /\ pc' # "miniblock_params"
        /\ UNCHANGED <<miniblocks, l1_batches, queue>>
        /\ clock > um.timestamp /\ um' = PushMiniblock(clock)
    BY <1>7 DEF NewMiniblock, SleepPast, dbVars, StateInv, MemoryTypes
  <2>2. /\ SealedMiniblock' = SealedMiniblock /\ FirstPending' = FirstPending
        /\ NewestBatch' = NewestBatch /\ LastTimestamp' = LastTimestamp
    BY <2>1, TablesUnchanged, SubmittedUnchanged
  <2>3. um'.timestamp = clock /\ um'.batch_timestamp = um.batch_timestamp
    BY <1>1, <2>1, PushedFields
  <2>4. um.timestamp = LastTimestamp /\ (FirstPending <= SealedMiniblock \/ queue # <<>>)
        /\ um.batch_timestamp = FirstTimestamp
    BY <2>1 DEF TimeInv, OpenIsLatest, Open
  <2>5. FirstTimestamp' = FirstTimestamp
    BY <2>1, <2>2, <2>4 DEF FirstTimestamp
  <2>6. OpenIsLatest'
    BY <2>1, <2>2, <2>3, <2>4, <2>5 DEF OpenIsLatest
  <2> QED BY <2>1, <2>2, <2>6 DEF TimeInv, TimestampsIncrease, BatchStartsFirst
<1>8. ASSUME NEW tx \in pool, NEW result \in ExecutionResult, ExecuteTx(tx, result)
      PROVE  TimeInv'
  <2>1. /\ UNCHANGED <<miniblocks, l1_batches, queue>> /\ (um' = um \/ um' = Extended(tx))
        /\ pc \in Filling /\ pc' \in Filling
    BY <1>8 DEF ExecuteTx, dbVars, Filling
  <2>2. tx \in Tx
    BY DEF StateInv, TypeOK
  <2>3. um'.timestamp = um.timestamp /\ um'.batch_timestamp = um.batch_timestamp
    BY <1>1, <2>1, <2>2, ExtendedFields
  <2> QED BY <2>1, <2>3, QuietInTime
<1>9. CASE Reset
  <2>1. UNCHANGED <<miniblocks, l1_batches>> /\ pc' \notin Open /\ queue' = <<>>
    BY <1>9 DEF Reset, dbVars, Open, Filling
  <2>2. /\ SealedMiniblock' = SealedMiniblock /\ FirstPending' = FirstPending
        /\ NewestBatch' = NewestBatch
    BY <2>1, TablesUnchanged
  <2>3. OpenIsLatest'
    BY <2>1 DEF OpenIsLatest, Open
  <2> QED BY <2>1, <2>2, <2>3 DEF TimeInv, TimestampsIncrease, BatchStartsFirst
<1>10. CASE \/ UNCHANGED <<miniblocks, l1_batches, queue, um, pc>>
            \/ UNCHANGED <<miniblocks, l1_batches, queue, um>> /\ pc' \notin Open
            \/ UNCHANGED <<miniblocks, l1_batches, queue, um>> /\ pc \in Filling /\ pc' \in Filling
  BY <1>10, QuietInTime
<1>11. CASE StartFresh \/ CloseOnDeadline \/ NoDeadline \/ NoNextTx \/ FinishBatch \/ NoBatchParams
            \/ SaveRootHash \/ Tick \/ ClockBack \/ (\E tx \in Tx : Arrive(tx)) \/ UNCHANGED vars
  BY <1>10, <1>11
     DEF StartFresh, CloseOnDeadline, NoDeadline, NoNextTx, FinishBatch, NoBatchParams,
         SaveRootHash, Tick, ClockBack, Arrive, vars, dbVars, memVars, Filling, Open
<1> QED BY <1>2, <1>3, <1>4, <1>5, <1>6, <1>7, <1>8, <1>9, <1>11
        DEF Next, Step, ProcessUpgradeTx, Crash

\* Genesis has one miniblock and one batch.
LEMMA TimeInit ==
    ASSUME Init
    PROVE  TimeInv
<1>1. SealedMiniblock = 0 /\ NewestBatch = 0 /\ FirstPending = 1
  BY GenesisTables
<1>2. TimestampsIncrease /\ BatchStartsFirst
  BY <1>1 DEF Init, TimestampsIncrease, BatchStartsFirst
<1>3. OpenIsLatest
  BY DEF Init, OpenIsLatest, Filling, Open
<1> QED BY <1>2, <1>3 DEF TimeInv

\* TimeInv holds of the whole system, whatever the system clock does.
LEMMA TimeInvariant == Spec => []TimeInv
<1>1. Init => TimeInv
  BY TimeInit
<1>2. StateInv /\ TimeInv /\ [Next]_vars => TimeInv'
  BY TimeStep
<1> QED BY <1>1, <1>2, StateInvariant, PTL DEF Spec

\* sleep_past and the parameters that load_pending_batch takes from the first
\* pending miniblock make timestamps increase strictly, from miniblock to
\* miniblock and from batch to batch, when the clock is set back and when the
\* process restarts.
THEOREM TimestampsAlwaysIncrease == Spec => []TimestampsIncrease
<1>1. TimeInv => TimestampsIncrease
  BY DEF TimeInv
<1> QED BY <1>1, TimeInvariant, PTL

-----------------------------------------------------------------------------
(* Every transaction in one place. *)

\* A transaction is in one miniblock, sealed, queued or open; once
\* submitted, the open one is left until push_miniblock.
BlocksApart ==
    /\ \A m, n \in 0..SealedMiniblock : m # n => miniblocks[m].txs \cap miniblocks[n].txs = {}
    /\ \A i, j \in 1..Len(queue) : i # j => queue[i].txs \cap queue[j].txs = {}
    /\ \A n \in 0..SealedMiniblock, i \in 1..Len(queue) : miniblocks[n].txs \cap queue[i].txs = {}
    /\ pc \in Filling =>
         /\ \A n \in 0..SealedMiniblock : um.miniblock \cap miniblocks[n].txs = {}
         /\ \A i \in 1..Len(queue) : um.miniblock \cap queue[i].txs = {}

\* What the mempool offers, and what was rejected, is in none.
OutsideBlocks ==
    /\ pool \cap rejected = {}
    /\ \A tx \in pool \cup rejected :
         /\ \A n \in 0..SealedMiniblock : tx \notin miniblocks[n].txs
         /\ \A i \in 1..Len(queue) : tx \notin queue[i].txs
         /\ tx \notin um.l1_batch \cup um.miniblock

PlaceInv == BlocksApart /\ OutsideBlocks

\* The memory of the loop when nothing is submitted or sealed.
LEMMA QuietInPlace ==
    ASSUME StateInv, PlaceInv, UNCHANGED <<miniblocks, l1_batches, queue, rejected>>,
           pool' \subseteq pool,
           um'.l1_batch \cup um'.miniblock \subseteq um.l1_batch \cup um.miniblock,
           \/ pc' \notin Filling \/ um'.miniblock = {}
           \/ pc \in Filling /\ um'.miniblock \subseteq um.miniblock
    PROVE  PlaceInv'
<1>1. SealedMiniblock' = SealedMiniblock
  BY TablesUnchanged
<1>2. BlocksApart'
  <2>1. CASE pc' \notin Filling \/ um'.miniblock = {}
    BY <1>1, <2>1 DEF PlaceInv, BlocksApart
  <2>2. CASE pc \in Filling /\ um'.miniblock \subseteq um.miniblock
    BY <1>1, <2>2 DEF PlaceInv, BlocksApart
  <2> QED BY <2>1, <2>2
<1>3. OutsideBlocks'
  BY <1>1 DEF PlaceInv, OutsideBlocks
<1> QED BY <1>2, <1>3 DEF PlaceInv

\* A transaction leaves the mempool for the open miniblock or is rejected.
LEMMA ExecutedInPlace ==
    ASSUME StateInv, PlaceInv, NEW tx \in pool, NEW result, ExecuteTx(tx, result)
    PROVE  PlaceInv'
<1> DEFINE resolution == process_one_tx(tx, result)
<1>1. /\ UNCHANGED <<miniblocks, l1_batches, queue>> /\ pc = "take"
      /\ pool' = IF resolution = "ExcludeAndSeal" THEN pool ELSE pool \ {tx}
      /\ rejected' = IF resolution = "Unexecutable" THEN rejected \cup {tx} ELSE rejected
      /\ um' = IF resolution \in {"NoSeal", "IncludeAndSeal"} THEN Extended(tx) ELSE um
  BY DEF ExecuteTx, dbVars
<1> HIDE DEF resolution
<1>2. SealedMiniblock' = SealedMiniblock
  BY <1>1, TablesUnchanged
<1>3. um \in Updates /\ tx \in Tx
  BY DEF StateInv, TypeOK, Updates
<1>4. /\ Extended(tx).miniblock = um.miniblock \cup {tx} /\ Extended(tx).l1_batch = um.l1_batch
  BY <1>3, ExtendedFields
<1>5. CASE resolution \in {"NoSeal", "IncludeAndSeal"}
  <2>1. /\ um'.miniblock = um.miniblock \cup {tx} /\ um'.l1_batch = um.l1_batch
        /\ pool' = pool \ {tx} /\ rejected' = rejected
    BY <1>1, <1>4, <1>5
  <2>2. BlocksApart'
    BY <1>1, <1>2, <2>1 DEF PlaceInv, BlocksApart, OutsideBlocks, Filling
  <2>3. OutsideBlocks'
    BY <1>1, <1>2, <2>1 DEF PlaceInv, OutsideBlocks
  <2> QED BY <2>2, <2>3 DEF PlaceInv
<1>6. CASE resolution \notin {"NoSeal", "IncludeAndSeal"}
  <2>1. /\ um' = um
        /\ pool' \subseteq pool /\ rejected' \subseteq rejected \cup {tx}
        /\ tx \in rejected' => tx \notin pool' \/ tx \in rejected
    BY <1>1, <1>6
  <2>2. BlocksApart'
    BY <1>1, <1>2, <2>1 DEF PlaceInv, BlocksApart, Filling
  <2>3. OutsideBlocks'
    BY <1>1, <1>2, <2>1 DEF PlaceInv, OutsideBlocks
  <2> QED BY <2>2, <2>3 DEF PlaceInv
<1> QED BY <1>5, <1>6

\* The open miniblock goes to the queue.
LEMMA SubmittedInPlace ==
    ASSUME StateInv, PlaceInv, SubmitMiniblock, pc \in Filling, pc' = "miniblock_params",
           UNCHANGED <<miniblocks, l1_batches, um, pool, rejected>>
    PROVE  PlaceInv'
<1>1. SealedMiniblock' = SealedMiniblock
  BY TablesUnchanged
<1>2. /\ Len(queue) \in Nat /\ Len(queue') = Len(queue) + 1
      /\ \A i \in 1..Len(queue) : queue'[i] = queue[i]
      /\ queue'[Len(queue) + 1].txs = um.miniblock
  BY MiniblockSubmitted
<1>3. \A i \in 1..Len(queue') :
        \/ i \in 1..Len(queue) /\ queue'[i] = queue[i]
        \/ i = Len(queue) + 1 /\ queue'[i].txs = um.miniblock
  <2> TAKE i \in 1..Len(queue')
  <2>1. i \in 1..Len(queue) \/ i = Len(queue) + 1
    <3>1. Len(queue) \in Nat /\ i \in 1..(Len(queue) + 1)
      BY <1>2
    <3> QED BY <3>1
  <2> QED BY <1>2, <2>1
<1>4. BlocksApart'
  <2>1. \A i, j \in 1..Len(queue') : i # j => queue'[i].txs \cap queue'[j].txs = {}
    BY <1>3 DEF PlaceInv, BlocksApart
  <2>2. \A n \in 0..SealedMiniblock, i \in 1..Len(queue') :
          miniblocks[n].txs \cap queue'[i].txs = {}
    BY <1>3 DEF PlaceInv, BlocksApart
  <2> QED BY <1>1, <2>1, <2>2 DEF PlaceInv, BlocksApart, Filling
<1>5. OutsideBlocks'
  BY <1>1, <1>3 DEF PlaceInv, OutsideBlocks
<1> QED BY <1>4, <1>5 DEF PlaceInv

\* The sealer moves transactions from its queue to the table.
LEMMA SealedInPlace ==
    ASSUME StateInv, PlaceInv, SealMiniblock
    PROVE  PlaceInv'
<1>1. SealedMiniblock \in Nat
  BY DEF StateInv, TablesDense
<1>2. /\ SealedMiniblock' = SealedMiniblock + 1
      /\ \A n \in 0..SealedMiniblock : miniblocks'[n] = miniblocks[n]
      /\ miniblocks'[SealedMiniblock + 1].txs = queue[1].txs
      /\ Len(queue) \in Nat \ {0} /\ Len(queue') = Len(queue) - 1
      /\ \A i \in 1..Len(queue') : queue'[i] = queue[i + 1]
  BY MiniblockSealed
<1>3. UNCHANGED <<pc, um, pool, rejected>>
  BY DEF SealMiniblock, memVars
<1>4. \A n \in 0..(SealedMiniblock + 1) :
        \/ n \in 0..SealedMiniblock /\ miniblocks'[n] = miniblocks[n]
        \/ n = SealedMiniblock + 1 /\ miniblocks'[n].txs = queue[1].txs
  BY <1>1, <1>2
<1>5. \A i \in 1..Len(queue') : /\ i + 1 \in 1..Len(queue) /\ i + 1 # 1
                                /\ queue'[i] = queue[i + 1]
  BY <1>2
<1>6. 1 \in 1..Len(queue)
  BY <1>2
<1>7. BlocksApart'
  <2>1. \A m, n \in 0..(SealedMiniblock + 1) : m # n =>
          miniblocks'[m].txs \cap miniblocks'[n].txs = {}
    <3> SUFFICES ASSUME NEW m \in 0..(SealedMiniblock + 1),
                        NEW n \in 0..(SealedMiniblock + 1), m # n
                 PROVE  miniblocks'[m].txs \cap miniblocks'[n].txs = {}
      OBVIOUS
    <3> QED BY <1>4, <1>6 DEF PlaceInv, BlocksApart
  <2>2. \A i, j \in 1..Len(queue') : i # j => queue'[i].txs \cap queue'[j].txs = {}
    <3> SUFFICES ASSUME NEW i \in 1..Len(queue'), NEW j \in 1..Len(queue'), i # j
                 PROVE  queue'[i].txs \cap queue'[j].txs = {}
      OBVIOUS
    <3>1. i + 1 # j + 1
      BY <1>2
    <3> QED BY <1>5, <3>1 DEF PlaceInv, BlocksApart
  <2>3. \A n \in 0..(SealedMiniblock + 1), i \in 1..Len(queue') :
          miniblocks'[n].txs \cap queue'[i].txs = {}
    <3> SUFFICES ASSUME NEW n \in 0..(SealedMiniblock + 1), NEW i \in 1..Len(queue')
                 PROVE  miniblocks'[n].txs \cap queue'[i].txs = {}
      OBVIOUS
    <3> QED BY <1>4, <1>5, <1>6 DEF PlaceInv, BlocksApart
  <2>4. pc' \in Filling =>
         /\ \A n \in 0..(SealedMiniblock + 1) : um'.miniblock \cap miniblocks'[n].txs = {}
         /\ \A i \in 1..Len(queue') : um'.miniblock \cap queue'[i].txs = {}
    BY <1>3, <1>4, <1>5, <1>6 DEF PlaceInv, BlocksApart
  <2> QED BY <1>2, <2>1, <2>2, <2>3, <2>4 DEF BlocksApart
<1>8. OutsideBlocks'
  <2>1. ASSUME NEW tx \in pool' \cup rejected'
        PROVE  /\ \A n \in 0..(SealedMiniblock + 1) : tx \notin miniblocks'[n].txs
               /\ \A i \in 1..Len(queue') : tx \notin queue'[i].txs
               /\ tx \notin um'.l1_batch \cup um'.miniblock
    BY <1>3, <1>4, <1>5, <1>6 DEF PlaceInv, OutsideBlocks
  <2> QED BY <1>2, <1>3, <2>1 DEF PlaceInv, OutsideBlocks
<1> QED BY <1>7, <1>8 DEF PlaceInv

\* Every step keeps every transaction in one place.
LEMMA PlaceStep ==
    ASSUME StateInv, PlaceInv, [Next]_vars
    PROVE  PlaceInv'
<1>1. /\ SealedMiniblock \in Nat /\ DOMAIN miniblocks = 0..SealedMiniblock
      /\ FirstPending \in 1..(SealedMiniblock + 1)
      /\ um \in Updates /\ clock \in Nat
  BY DEF StateInv, TablesDense, PendingIsSuffix, TypeOK, Updates
<1>2. CASE SealMiniblock
  BY <1>2, SealedInPlace
<1>3. CASE SealL1Batch
  <2>1. /\ SealedMiniblock' = SealedMiniblock + 1
        /\ \A n \in 0..SealedMiniblock : miniblocks'[n].txs = miniblocks[n].txs
        /\ miniblocks'[SealedMiniblock + 1].txs = {}
    BY <1>3, BatchSealed
  <2>2. pc' = "new_batch" /\ UNCHANGED <<um, queue, pool, rejected>>
    BY <1>3 DEF SealL1Batch
  <2>3. \A n \in 0..(SealedMiniblock + 1) :
          \/ n \in 0..SealedMiniblock /\ miniblocks'[n].txs = miniblocks[n].txs
          \/ miniblocks'[n].txs = {}
    BY <1>1, <2>1
  <2>4. BlocksApart'
    BY <2>1, <2>2, <2>3 DEF PlaceInv, BlocksApart, Filling
  <2>5. OutsideBlocks'
    BY <2>1, <2>2, <2>3 DEF PlaceInv, OutsideBlocks
  <2> QED BY <2>4, <2>5 DEF PlaceInv
<1>4. CASE MiniblockOnDeadline \/ SealLastMiniblock
  BY <1>4, SubmittedInPlace DEF MiniblockOnDeadline, SealLastMiniblock, Filling, dbVars
<1>5. CASE RestoreState
  <2>1. /\ FirstPending \in DOMAIN miniblocks
        /\ UNCHANGED <<miniblocks, l1_batches, queue, pool, rejected>>
        /\ pc' = "miniblock_params"
    BY <1>5 DEF RestoreState, dbVars
  <2>2. /\ MiniblocksToReexecute = FirstPending..SealedMiniblock
        /\ Max(MiniblocksToReexecute) = SealedMiniblock /\ PendingParams \in Updates
    BY <2>1, PendingFound
  <2> DEFINE pending == UNION {miniblocks[n].txs : n \in FirstPending..SealedMiniblock}
  <2>3. /\ um'.l1_batch = pending \ miniblocks[SealedMiniblock].txs
        /\ um'.miniblock = miniblocks[SealedMiniblock].txs
    BY <1>5, <2>2 DEF RestoreState, Updates
  <2>4. \A tx \in um'.l1_batch \cup um'.miniblock :
          \E n \in 0..SealedMiniblock : tx \in miniblocks[n].txs
    BY <1>1, <2>3
  <2>5. SealedMiniblock' = SealedMiniblock
    BY <2>1, TablesUnchanged
  <2>6. BlocksApart'
    BY <2>1, <2>5 DEF PlaceInv, BlocksApart, Filling
  <2>7. OutsideBlocks'
    BY <2>1, <2>4, <2>5 DEF PlaceInv, OutsideBlocks
  <2> QED BY <2>6, <2>7 DEF PlaceInv
<1>6. CASE OpenBatch
  <2>1. /\ UNCHANGED <<miniblocks, l1_batches, queue, pool, rejected>>
        /\ um'.miniblock = {} /\ um'.l1_batch = {}
    BY <1>1, <1>6, NewFields, VersionType DEF OpenBatch, dbVars
  <2> QED BY <2>1, QuietInPlace
<1>7. CASE NewMiniblock
  <2>1. /\ UNCHANGED <<miniblocks, l1_batches, queue, pool, rejected>>
        /\ um'.miniblock = {} /\ um'.l1_batch = um.l1_batch \cup um.miniblock
    BY <1>1, <1>7, PushedFields DEF NewMiniblock, PendingTxs, dbVars
  <2> QED BY <2>1, QuietInPlace
<1>8. ASSUME NEW tx \in pool, NEW result \in ExecutionResult, ExecuteTx(tx, result)
      PROVE  PlaceInv'
  BY <1>8, ExecutedInPlace
<1>9. CASE Reset
  <2>1. /\ UNCHANGED <<miniblocks, l1_batches, rejected>> /\ pc' \notin Filling
        /\ queue' = <<>> /\ pool' = {} /\ um'.miniblock = {} /\ um'.l1_batch = {}
    BY <1>9, NewFields DEF Reset, dbVars, Filling
  <2>2. SealedMiniblock' = SealedMiniblock
    BY <2>1, TablesUnchanged
  <2>3. BlocksApart'
    BY <2>1, <2>2 DEF PlaceInv, BlocksApart
  <2>4. OutsideBlocks'
    BY <2>1, <2>2 DEF PlaceInv, OutsideBlocks
  <2> QED BY <2>3, <2>4 DEF PlaceInv
<1>10. ASSUME NEW tx \in Tx, Arrive(tx)
       PROVE  PlaceInv'
  <2>1. /\ tx \notin pool \cup rejected \cup Handled /\ pool' = pool \cup {tx}
        /\ UNCHANGED <<miniblocks, l1_batches, rejected, pc, um, queue>>
    BY <1>10 DEF Arrive, dbVars, memVars
  <2>2. /\ \A n \in 0..SealedMiniblock : tx \notin miniblocks[n].txs
        /\ \A i \in 1..Len(queue) : tx \notin queue[i].txs
        /\ tx \notin um.l1_batch \cup um.miniblock
    BY <1>1, <2>1 DEF Handled, PendingTxs
  <2>3. SealedMiniblock' = SealedMiniblock
    BY <2>1, TablesUnchanged
  <2>4. BlocksApart'
    BY <2>1, <2>3 DEF PlaceInv, BlocksApart
  <2>5. OutsideBlocks'
    BY <2>1, <2>2, <2>3 DEF PlaceInv, OutsideBlocks
  <2> QED BY <2>4, <2>5 DEF PlaceInv
<1>11. CASE \/ UNCHANGED <<miniblocks, l1_batches, queue, um, pc, pool, rejected>>
            \/ UNCHANGED <<miniblocks, l1_batches, queue, um, pool, rejected>> /\ pc' \notin Filling
            \/ UNCHANGED <<miniblocks, l1_batches, queue, um, pool, rejected>> /\ pc \in Filling
  BY <1>11, QuietInPlace
<1>12. CASE StartFresh \/ CloseOnDeadline \/ NoDeadline \/ NoNextTx \/ FinishBatch \/ NoBatchParams
            \/ SaveRootHash \/ Tick \/ ClockBack \/ UNCHANGED vars
  BY <1>11, <1>12
     DEF StartFresh, CloseOnDeadline, NoDeadline, NoNextTx, FinishBatch, NoBatchParams,
         SaveRootHash, Tick, ClockBack, vars, dbVars, memVars, Filling
<1> QED BY <1>2, <1>3, <1>4, <1>5, <1>6, <1>7, <1>8, <1>9, <1>10, <1>12
        DEF Next, Step, ProcessUpgradeTx, Crash

\* PlaceInv holds of the whole system.
LEMMA PlaceInvariant == Spec => []PlaceInv
<1>1. Init => PlaceInv
  <2> SUFFICES ASSUME Init PROVE PlaceInv
    OBVIOUS
  <2>1. SealedMiniblock = 0 /\ FirstPending = 1
    BY GenesisTables
  <2>2. um.miniblock = {} /\ um.l1_batch = {}
    BY NewFields DEF Init
  <2>3. BlocksApart
    BY <2>1 DEF Init, BlocksApart, Filling
  <2>4. OutsideBlocks
    BY DEF Init, OutsideBlocks
  <2> QED BY <2>3, <2>4 DEF PlaceInv
<1>2. StateInv /\ PlaceInv /\ [Next]_vars => PlaceInv'
  BY PlaceStep
<1> QED BY <1>1, <1>2, StateInvariant, PTL DEF Spec

\* process_l1_batch executes a transaction into one miniblock, and a crash
\* between the sealer's steps and the restart's re-execution never put it
\* into a second one; a rejected transaction is in none.
THEOREM ExecutedOnceHolds == Spec => []ExecutedOnce
<1>1. StateInv /\ PlaceInv => ExecutedOnce
  BY DEF StateInv, TablesDense, PlaceInv, BlocksApart, OutsideBlocks, ExecutedOnce
<1> QED BY <1>1, StateInvariant, PlaceInvariant, PTL

-----------------------------------------------------------------------------
(* What a batch consists of. *)

\* Transactions of the miniblocks of the open batch that were submitted.
SealedTxs == UNION {miniblocks[n].txs : n \in FirstPending..SealedMiniblock}
QueuedTxs == UNION {queue[i].txs : i \in 1..Len(queue)}
Submitted == SealedTxs \cup QueuedTxs

\* The submitted miniblocks are of the open batch: its protocol version (in a
\* restarted process, the one they share) and its transactions.
OpenIsSubmitted ==
    /\ \A m, n \in FirstPending..SealedMiniblock : miniblocks[m].version = miniblocks[n].version
    /\ pc \in Open =>
         /\ \A n \in FirstPending..SealedMiniblock : miniblocks[n].version = um.version
         /\ \A i \in 1..Len(queue) : queue[i].version = um.version
    /\ pc = "miniblock_params" => PendingTxs = Submitted
    /\ pc \in Filling => um.l1_batch = Submitted

\* No batch without transactions is finished.
FinishedHasTxs ==
    /\ pc \in {"finish", "seal"} => PendingTxs # {}
    /\ pc = "miniblock_params" /\ resume = "finish" => PendingTxs # {}

OpenInv == OpenIsSubmitted /\ FinishedHasTxs

\* The transactions of some miniblocks, one by one.
LEMMA UnionOfTxs ==
    ASSUME NEW S, NEW f, NEW tx
    PROVE  tx \in UNION {f[n].txs : n \in S} <=> \E n \in S : tx \in f[n].txs
BY Zenon

\* What is submitted, one transaction at a time.
LEMMA InSubmitted ==
    ASSUME NEW tx
    PROVE  tx \in Submitted <=> \/ \E n \in FirstPending..SealedMiniblock : tx \in miniblocks[n].txs
                                \/ \E i \in 1..Len(queue) : tx \in queue[i].txs
<1>1. tx \in SealedTxs <=> \E n \in FirstPending..SealedMiniblock : tx \in miniblocks[n].txs
  BY UnionOfTxs, Zenon DEF SealedTxs
<1>2. tx \in QueuedTxs <=> \E i \in 1..Len(queue) : tx \in queue[i].txs
  BY UnionOfTxs, Zenon DEF QueuedTxs
<1> QED BY <1>1, <1>2 DEF Submitted

\* The same of the next state.
LEMMA InSubmittedNext ==
    ASSUME NEW tx
    PROVE  tx \in Submitted' <=>
             \/ \E n \in FirstPending'..SealedMiniblock' : tx \in miniblocks'[n].txs
             \/ \E i \in 1..Len(queue') : tx \in queue'[i].txs
<1>1. tx \in SealedTxs' <=> \E n \in FirstPending'..SealedMiniblock' : tx \in miniblocks'[n].txs
  BY UnionOfTxs, Zenon DEF SealedTxs
<1>2. tx \in QueuedTxs' <=> \E i \in 1..Len(queue') : tx \in queue'[i].txs
  BY UnionOfTxs, Zenon DEF QueuedTxs
<1> QED BY <1>1, <1>2 DEF Submitted

\* A step that leaves the tables and the sealer's queue alone.
LEMMA SameSubmitted ==
    ASSUME UNCHANGED <<miniblocks, l1_batches, queue>>
    PROVE  Submitted' = Submitted
BY TablesUnchanged DEF Submitted, SealedTxs, QueuedTxs

\* A first transaction that is too large is unexecutable and never excluded.
LEMMA ExcludedIsNotFirst ==
    ASSUME NEW tx \in Tx, NEW result, process_one_tx(tx, result) = "ExcludeAndSeal"
    PROVE  PendingTxs # {}
<1>1. should_seal_l1_batch(tx) = "ExcludeAndSeal"
  BY DEF process_one_tx
<1>2. SlotsCriterion(tx) \in {"NoSeal", "IncludeAndSeal"}
  BY DEF SlotsCriterion
<1>3. TxEncodingSizeCriterion(tx) = "ExcludeAndSeal"
  BY <1>1, <1>2 DEF should_seal_l1_batch, Stricter
<1>4. ~ (tx.size > RejectBound) /\ TotalSize(PendingTxs) + tx.size > EncodingSpace
  BY <1>3 DEF TxEncodingSizeCriterion
<1>5. tx.size \in Nat /\ RejectBound \in 0..EncodingSpace /\ EncodingSpace \in Nat
  BY SequencerAssumption
<1>6. SUFFICES ASSUME PendingTxs = {} PROVE FALSE
  OBVIOUS
<1>7. TotalSize(PendingTxs) = 0
  BY <1>6, EmptySize
<1> QED BY <1>4, <1>5, <1>7

\* The types the open batch needs.
LEMMA OpenTypes ==
    ASSUME StateInv
    PROVE  /\ SealedMiniblock \in Nat /\ DOMAIN miniblocks = 0..SealedMiniblock
           /\ NewestBatch \in Nat /\ DOMAIN l1_batches = 0..NewestBatch
           /\ FirstPending \in 1..(SealedMiniblock + 1)
           /\ Len(queue) \in Nat /\ um \in Updates /\ clock \in Nat
           /\ pc \in Open \cup {"start", "new_batch"}
BY TypeParts DEF StateInv, TablesDense, PendingIsSuffix, MemoryTypes, LoopTypes

\* The sealer moves a miniblock of the open batch from its queue to the table.
LEMMA SealedIsSubmitted ==
    ASSUME StateInv, OpenInv, SealMiniblock
    PROVE  OpenInv' /\ Submitted' = Submitted
<1>1. /\ SealedMiniblock \in Nat /\ FirstPending \in 1..(SealedMiniblock + 1)
      /\ pc \in Open \cup {"start", "new_batch"}
  BY OpenTypes
<1>2. /\ SealedMiniblock' = SealedMiniblock + 1 /\ FirstPending' = FirstPending
      /\ \A n \in 0..SealedMiniblock : miniblocks'[n] = miniblocks[n]
      /\ miniblocks'[SealedMiniblock + 1].txs = queue[1].txs
      /\ miniblocks'[SealedMiniblock + 1].version = queue[1].version
      /\ Len(queue) \in Nat \ {0} /\ Len(queue') = Len(queue) - 1
      /\ \A i \in 1..Len(queue') : queue'[i] = queue[i + 1]
  BY MiniblockSealed
<1>3. UNCHANGED <<pc, um, resume>> /\ queue # <<>>
  BY DEF SealMiniblock, memVars
<1>4. pc \in Open
  BY <1>1, <1>3 DEF StateInv, NumbersAhead
<1>5. \A n \in FirstPending..(SealedMiniblock + 1) :
        \/ n \in FirstPending..SealedMiniblock /\ miniblocks'[n] = miniblocks[n]
        \/ /\ n = SealedMiniblock + 1
           /\ miniblocks'[n].txs = queue[1].txs /\ miniblocks'[n].version = queue[1].version
  BY <1>1, <1>2
<1>6. \A i \in 1..Len(queue') : i + 1 \in 1..Len(queue) /\ queue'[i] = queue[i + 1]
  BY <1>2
<1>7. 1 \in 1..Len(queue)
  BY <1>2
<1>8. \A i \in 1..Len(queue) : i = 1 \/ (i - 1 \in 1..Len(queue') /\ queue'[i - 1] = queue[i])
  BY <1>2
<1>9. /\ SealedMiniblock + 1 \in FirstPending..(SealedMiniblock + 1)
      /\ \A n \in FirstPending..SealedMiniblock :
           n \in FirstPending..(SealedMiniblock + 1) /\ miniblocks'[n] = miniblocks[n]
  BY <1>1, <1>2
<1>10. ASSUME NEW tx
       PROVE  tx \in Submitted' <=> tx \in Submitted
  <2>1. tx \in Submitted' <=>
          \/ \E n \in FirstPending..(SealedMiniblock + 1) : tx \in miniblocks'[n].txs
          \/ \E i \in 1..Len(queue') : tx \in queue'[i].txs
    BY <1>1, <1>2, InSubmittedNext
  <2>2. ASSUME tx \in Submitted' PROVE tx \in Submitted
    BY <1>5, <1>6, <1>7, <2>1, <2>2, InSubmitted
  <2>3. ASSUME tx \in Submitted PROVE tx \in Submitted'
    <3>1. CASE \E n \in FirstPending..SealedMiniblock : tx \in miniblocks[n].txs
      BY <1>9, <2>1, <3>1
    <3>2. CASE \E i \in 1..Len(queue) : tx \in queue[i].txs
      BY <1>2, <1>8, <1>9, <2>1, <3>2
    <3> QED BY <2>3, <3>1, <3>2, InSubmitted
  <2> QED BY <2>2, <2>3
<1>11. Submitted' = Submitted
  BY <1>10
<1>12. /\ \A n \in FirstPending..(SealedMiniblock + 1) : miniblocks'[n].version = um.version
       /\ \A i \in 1..Len(queue') : queue'[i].version = um.version
  BY <1>4, <1>5, <1>6, <1>7 DEF OpenInv, OpenIsSubmitted
<1>13. PendingTxs' = PendingTxs
  BY <1>3 DEF PendingTxs
<1>14. OpenIsSubmitted'
  BY <1>2, <1>3, <1>11, <1>12, <1>13 DEF OpenInv, OpenIsSubmitted
<1>15. FinishedHasTxs'
  BY <1>3, <1>13 DEF OpenInv, FinishedHasTxs
<1> QED BY <1>11, <1>14, <1>15 DEF OpenInv

\* The open miniblock becomes one of the submitted ones.
LEMMA SubmittedGrows ==
    ASSUME StateInv, OpenInv, SubmitMiniblock, pc \in Filling, pc' = "miniblock_params",
           UNCHANGED <<miniblocks, l1_batches, um>>, resume' = "finish" => PendingTxs # {}
    PROVE  OpenInv'
<1>1. SealedMiniblock' = SealedMiniblock /\ FirstPending' = FirstPending
  BY TablesUnchanged
<1>2. /\ Len(queue) \in Nat /\ Len(queue') = Len(queue) + 1
      /\ \A i \in 1..Len(queue) : queue'[i] = queue[i]
      /\ queue'[Len(queue) + 1].txs = um.miniblock
      /\ queue'[Len(queue) + 1].version = um.version
  BY MiniblockSubmitted
<1>3. \A i \in 1..Len(queue') :
        \/ i \in 1..Len(queue) /\ queue'[i] = queue[i]
        \/ i = Len(queue) + 1
  <2> TAKE i \in 1..Len(queue')
  <2>1. i \in 1..Len(queue) \/ i = Len(queue) + 1
    <3>1. Len(queue) \in Nat /\ i \in 1..(Len(queue) + 1)
      BY <1>2
    <3> QED BY <3>1
  <2> QED BY <1>2, <2>1
<1>4. /\ Len(queue) + 1 \in 1..Len(queue')
      /\ \A i \in 1..Len(queue) : i \in 1..Len(queue') /\ queue'[i] = queue[i]
  BY <1>2
<1>5. ASSUME NEW tx
      PROVE  tx \in Submitted' <=> tx \in Submitted \/ tx \in um.miniblock
  <2>1. tx \in Submitted' <=>
          \/ \E n \in FirstPending..SealedMiniblock : tx \in miniblocks[n].txs
          \/ \E i \in 1..Len(queue') : tx \in queue'[i].txs
    BY <1>1, <1>2, InSubmittedNext
  <2> QED BY <1>2, <1>3, <1>4, <2>1, InSubmitted
<1>6. PendingTxs' = PendingTxs /\ PendingTxs = um.l1_batch \cup um.miniblock
  BY DEF PendingTxs
<1>7. um.l1_batch = Submitted
  BY DEF OpenInv, OpenIsSubmitted
<1>8. PendingTxs' = Submitted'
  BY <1>5, <1>6, <1>7
<1>9. \A i \in 1..Len(queue') : queue'[i].version = um.version
  BY <1>2, <1>3 DEF OpenInv, OpenIsSubmitted, Open
<1>10. OpenIsSubmitted'
  BY <1>1, <1>8, <1>9 DEF OpenInv, OpenIsSubmitted, Open, Filling
<1>11. FinishedHasTxs'
  BY <1>6 DEF FinishedHasTxs
<1> QED BY <1>10, <1>11 DEF OpenInv

\* Steps that submit nothing and leave the open batch's transactions alone.
LEMMA QuietOpen ==
    ASSUME StateInv, OpenInv, UNCHANGED <<miniblocks, l1_batches, queue>>,
           um'.version = um.version, um'.l1_batch = um.l1_batch,
           \/ UNCHANGED <<pc, um, resume>>
           \/ pc' \notin Open
           \/ pc \in Filling /\ pc' \in Filling,
           pc' \in {"finish", "seal"} => PendingTxs' # {}
    PROVE  OpenInv'
<1>1. /\ SealedMiniblock' = SealedMiniblock /\ FirstPending' = FirstPending
      /\ Submitted' = Submitted
  BY TablesUnchanged, SameSubmitted
<1>2. CASE UNCHANGED <<pc, um, resume>>
  BY <1>1, <1>2 DEF OpenInv, OpenIsSubmitted, FinishedHasTxs, PendingTxs
<1>3. CASE pc' \notin Open
  BY <1>1, <1>3 DEF OpenInv, OpenIsSubmitted, FinishedHasTxs, Open, Filling
<1>4. CASE pc \in Filling /\ pc' \in Filling
  BY <1>1, <1>4 DEF OpenInv, OpenIsSubmitted, FinishedHasTxs, Open, Filling
<1> QED BY <1>2, <1>3, <1>4

\* Every step keeps the open batch equal to its submitted miniblocks.
LEMMA OpenStep ==
    ASSUME StateInv, OpenInv, [Next]_vars
    PROVE  OpenInv'
<1>1. /\ SealedMiniblock \in Nat /\ DOMAIN miniblocks = 0..SealedMiniblock
      /\ FirstPending \in 1..(SealedMiniblock + 1)
      /\ um \in Updates /\ clock \in Nat
  BY OpenTypes
<1>2. CASE SealMiniblock
  BY <1>2, SealedIsSubmitted
<1>3. CASE SealL1Batch
  <2>1. SealedMiniblock' = SealedMiniblock + 1 /\ FirstPending' = SealedMiniblock + 2
    BY <1>3, BatchSealed
  <2>2. pc' = "new_batch"
    BY <1>3 DEF SealL1Batch
  <2> QED BY <1>1, <2>1, <2>2 DEF OpenInv, OpenIsSubmitted, FinishedHasTxs, Open, Filling
<1>4. CASE MiniblockOnDeadline \/ SealLastMiniblock
  BY <1>4, SubmittedGrows
     DEF MiniblockOnDeadline, SealLastMiniblock, Filling, dbVars, OpenInv, FinishedHasTxs
<1>5. CASE RestoreState
  <2>1. /\ FirstPending \in DOMAIN miniblocks /\ pc = "start"
        /\ UNCHANGED <<miniblocks, l1_batches, queue>>
        /\ pc' = "miniblock_params" /\ resume' = "loop"
    BY <1>5 DEF RestoreState, dbVars
  <2>2. /\ MiniblocksToReexecute = FirstPending..SealedMiniblock
        /\ Max(MiniblocksToReexecute) = SealedMiniblock /\ PendingParams \in Updates
        /\ PendingParams.version = miniblocks[FirstPending].version
    BY <2>1, PendingFound
  <2> DEFINE pending == UNION {miniblocks[n].txs : n \in FirstPending..SealedMiniblock}
  <2>3. /\ um'.l1_batch = pending \ miniblocks[SealedMiniblock].txs
        /\ um'.miniblock = miniblocks[SealedMiniblock].txs
        /\ um'.version = miniblocks[FirstPending].version
    BY <1>5, <2>2 DEF RestoreState, Updates
  <2>4. queue = <<>>
    BY <2>1 DEF StateInv, NumbersAhead
  <2>5. /\ SealedMiniblock' = SealedMiniblock /\ FirstPending' = FirstPending
        /\ Submitted' = Submitted
    BY <2>1, TablesUnchanged, SameSubmitted
  <2>6. Submitted = pending
    BY <2>4 DEF Submitted, SealedTxs, QueuedTxs
  <2>7. /\ SealedMiniblock \in FirstPending..SealedMiniblock
        /\ FirstPending \in FirstPending..SealedMiniblock
    BY <1>1, <2>1
  <2>8. PendingTxs' = pending
    BY <2>3, <2>7 DEF PendingTxs
  <2>9. OpenIsSubmitted'
    BY <2>1, <2>3, <2>4, <2>5, <2>6, <2>7, <2>8 DEF OpenInv, OpenIsSubmitted, Filling
  <2>10. FinishedHasTxs'
    BY <2>1 DEF FinishedHasTxs
  <2> QED BY <2>9, <2>10 DEF OpenInv
<1>6. CASE OpenBatch
  <2>1. /\ pc = "new_batch" /\ pc' \in {"upgrade", "loop"}
        /\ UNCHANGED <<miniblocks, l1_batches, queue>>
        /\ um'.l1_batch = {}
    BY <1>1, <1>6, NewFields, VersionType DEF OpenBatch, dbVars
  <2>2. queue = <<>> /\ FirstPending = SealedMiniblock + 1
    BY <2>1 DEF StateInv, NumbersAhead, PendingIsSuffix
  <2>3. /\ SealedMiniblock' = SealedMiniblock /\ FirstPending' = FirstPending
        /\ Submitted' = Submitted
    BY <2>1, TablesUnchanged, SameSubmitted
  <2>4. Submitted = {}
    BY <1>1, <2>2 DEF Submitted, SealedTxs, QueuedTxs
  <2> QED BY <1>1, <2>1, <2>2, <2>3, <2>4 DEF OpenInv, OpenIsSubmitted, FinishedHasTxs
<1>7. CASE NewMiniblock
  <2>1. /\ pc = "miniblock_params" /\ pc' = resume /\ pc' # "miniblock_params" /\ pc' # "seal"
        /\ UNCHANGED <<miniblocks, l1_batches, queue>>
        /\ um' = PushMiniblock(clock)
    BY <1>7 DEF NewMiniblock, dbVars, StateInv, MemoryTypes
  <2>2. um'.l1_batch = PendingTxs /\ um'.miniblock = {} /\ um'.version = um.version
    BY <1>1, <2>1, PushedFields
  <2>3. /\ SealedMiniblock' = SealedMiniblock /\ FirstPending' = FirstPending
        /\ Submitted' = Submitted
    BY <2>1, TablesUnchanged, SameSubmitted
  <2>4. PendingTxs' = PendingTxs
    BY <2>2 DEF PendingTxs
  <2>5. OpenIsSubmitted'
    BY <2>1, <2>2, <2>3 DEF OpenInv, OpenIsSubmitted, Open
  <2>6. FinishedHasTxs'
    BY <2>1, <2>4 DEF OpenInv, FinishedHasTxs
  <2> QED BY <2>5, <2>6 DEF OpenInv
<1>8. ASSUME NEW tx \in pool, NEW result \in ExecutionResult, ExecuteTx(tx, result)
      PROVE  OpenInv'
  <2> DEFINE resolution == process_one_tx(tx, result)
  <2>1. /\ UNCHANGED <<miniblocks, l1_batches, queue, resume>> /\ pc \in Filling /\ pc' \in Filling
        /\ um' = IF resolution \in {"NoSeal", "IncludeAndSeal"} THEN Extended(tx) ELSE um
        /\ pc' = IF resolution \in {"IncludeAndSeal", "ExcludeAndSeal"} THEN "finish" ELSE "loop"
    BY <1>8 DEF ExecuteTx, dbVars, Filling
  <2>2. tx \in Tx
    BY DEF StateInv, TypeOK
  <2>3. resolution = "ExcludeAndSeal" => PendingTxs # {}
    BY <2>2, ExcludedIsNotFirst
  <2> HIDE DEF resolution
  <2>4. /\ Extended(tx).miniblock = um.miniblock \cup {tx} /\ Extended(tx).l1_batch = um.l1_batch
        /\ Extended(tx).version = um.version
    BY <1>1, <2>2, ExtendedFields
  <2>5. um'.version = um.version /\ um'.l1_batch = um.l1_batch
    BY <2>1, <2>4
  <2>6. pc' \in {"finish", "seal"} => PendingTxs' # {}
    <3>1. CASE resolution = "IncludeAndSeal"
      <4>1. tx \in PendingTxs'
        BY <2>1, <2>4, <3>1 DEF PendingTxs
      <4> QED BY <4>1
    <3>2. CASE resolution = "ExcludeAndSeal"
      <4>1. um' = um
        BY <2>1, <3>2
      <4>2. PendingTxs' = PendingTxs
        BY <4>1 DEF PendingTxs
      <4> QED BY <2>3, <3>2, <4>2
    <3> QED BY <2>1, <3>1, <3>2
  <2> QED BY <2>1, <2>5, <2>6, QuietOpen
<1>9. CASE Reset
  <2>1. UNCHANGED <<miniblocks, l1_batches>> /\ pc' = "start"
    BY <1>9 DEF Reset, dbVars
  <2>2. SealedMiniblock' = SealedMiniblock /\ FirstPending' = FirstPending
    BY <2>1, TablesUnchanged
  <2> QED BY <2>1, <2>2 DEF OpenInv, OpenIsSubmitted, FinishedHasTxs, Open, Filling
<1>10. CASE CloseOnDeadline
  <2>1. /\ UNCHANGED <<miniblocks, l1_batches, queue, um>> /\ pc \in Filling /\ pc' \in Filling
        /\ PendingTxs # {}
    BY <1>10 DEF CloseOnDeadline, should_seal_l1_batch_unconditionally, Filling, dbVars, memVars
  <2>2. PendingTxs' = PendingTxs
    BY <2>1 DEF PendingTxs
  <2> QED BY <2>1, <2>2, QuietOpen
<1>11. CASE FinishBatch
  <2>1. /\ UNCHANGED <<miniblocks, l1_batches, queue, um>> /\ pc = "finish" /\ pc' = "seal"
    BY <1>11 DEF FinishBatch, memVars
  <2>2. PendingTxs' = PendingTxs /\ PendingTxs # {}
    BY <2>1 DEF PendingTxs, OpenInv, FinishedHasTxs
  <2> QED BY <2>1, <2>2, QuietOpen DEF Filling
<1>12. CASE NoDeadline \/ NoNextTx \/ StartFresh
  <2>1. /\ UNCHANGED <<miniblocks, l1_batches, queue, um>> /\ pc' \notin {"finish", "seal"}
        /\ ((pc \in Filling /\ pc' \in Filling) \/ pc' \notin Open)
    BY <1>12 DEF NoDeadline, NoNextTx, StartFresh, dbVars, memVars, Filling, Open
  <2> QED BY <2>1, QuietOpen
<1>13. CASE NoBatchParams \/ SaveRootHash \/ Tick \/ ClockBack \/ (\E tx \in Tx : Arrive(tx))
            \/ UNCHANGED vars
  <2>1. UNCHANGED <<miniblocks, l1_batches, queue, um, pc, resume>>
    BY <1>13 DEF NoBatchParams, SaveRootHash, Tick, ClockBack, Arrive, vars, dbVars, memVars
  <2>2. pc' \in {"finish", "seal"} => PendingTxs' # {}
    BY <2>1 DEF PendingTxs, OpenInv, FinishedHasTxs
  <2> QED BY <2>1, <2>2, QuietOpen
<1> QED BY <1>2, <1>3, <1>4, <1>5, <1>6, <1>7, <1>8, <1>9, <1>10, <1>11, <1>12, <1>13
        DEF Next, Step, ProcessUpgradeTx, Crash

\* OpenInv holds of the whole system.
LEMMA OpenInvariant == Spec => []OpenInv
<1>1. Init => OpenInv
  <2> SUFFICES ASSUME Init PROVE OpenInv
    OBVIOUS
  <2>1. SealedMiniblock = 0 /\ FirstPending = 1 /\ pc = "start"
    BY GenesisTables DEF Init
  <2> QED BY <2>1 DEF OpenInv, OpenIsSubmitted, FinishedHasTxs, Open, Filling
<1>2. StateInv /\ OpenInv /\ [Next]_vars => OpenInv'
  BY OpenStep
<1> QED BY <1>1, <1>2, StateInvariant, PTL DEF Spec

TxsOf(M, table) == UNION {table[n].txs : n \in M}

\* What BatchIsItsMiniblocks says of a batch with miniblocks M that comes after
\* one with miniblocks P.
RunOf(M, P, table, batch, b) ==
    /\ Cardinality(M) >= 2 /\ M = Min(M)..Max(M)
    /\ \A n \in M : table[n].txs = {} <=> n = Max(M)
    /\ \A n \in M : table[n].version = batch.version
    /\ batch.timestamp = table[Min(M)].timestamp
    /\ batch.txs = TxsOf(M, table)
    /\ b # 1 => Min(M) = Max(P) + 1

\* BatchIsItsMiniblocks, one batch at a time.
LEMMA BatchesAreRuns ==
    BatchIsItsMiniblocks <=>
        \A b \in DOMAIN l1_batches \ {0} :
            RunOf(MiniblocksOf(b), MiniblocksOf(b - 1), miniblocks, l1_batches[b], b)
BY DEF BatchIsItsMiniblocks, RunOf, TxsOf

\* It depends on the rows of its own miniblocks only.
LEMMA RunDepends ==
    ASSUME NEW M, NEW P, NEW f, NEW g, NEW r, NEW b, Min(M) \in M, \A n \in M : f[n] = g[n],
           RunOf(M, P, f, r, b)
    PROVE  RunOf(M, P, g, r, b)
<1>1. \A tx : tx \in TxsOf(M, f) <=> \E n \in M : tx \in f[n].txs
  BY UnionOfTxs, Zenon DEF TxsOf
<1>2. \A tx : tx \in TxsOf(M, g) <=> \E n \in M : tx \in g[n].txs
  BY UnionOfTxs, Zenon DEF TxsOf
<1>3. TxsOf(M, f) = TxsOf(M, g)
  BY <1>1, <1>2
<1> QED BY <1>3 DEF RunOf

\* A run is not empty.
LEMMA RunHasMin ==
    ASSUME NEW M \in SUBSET Nat, NEW P, NEW f, NEW r, NEW b, RunOf(M, P, f, r, b), IsFiniteSet(M)
    PROVE  Min(M) \in M
<1>1. Cardinality(M) >= 2 /\ M = Min(M)..Max(M)
  BY DEF RunOf
<1>2. M # {}
  BY <1>1, FS_EmptySet
<1>3. PICK x \in M : \A y \in M : ~ (<<y, x>> \in OpToRel(<, Nat))
  BY <1>2, NatLessThanWellFounded, WFMin, Zenon
<1>4. \A y \in M : ~ (y < x)
  BY <1>3, Zenon DEF OpToRel
<1>5. \A y \in M : x <= y
  BY <1>4
<1>6. M \subseteq Int
  OBVIOUS
<1>7. Min(M) = x
  BY <1>5, <1>6, MinIs
<1> QED BY <1>7

\* Sealed batches keep their miniblocks.
LEMMA SealedBatchesKept ==
    ASSUME StateInv, [Next]_vars, NEW b \in DOMAIN l1_batches
    PROVE  /\ b \in DOMAIN l1_batches' /\ l1_batches'[b] = l1_batches[b]
           /\ MiniblocksOf(b)' = MiniblocksOf(b)
           /\ \A n \in MiniblocksOf(b) : miniblocks'[n] = miniblocks[n]
<1>1. /\ SealedMiniblock \in Nat /\ DOMAIN miniblocks = 0..SealedMiniblock
      /\ NewestBatch \in Nat /\ DOMAIN l1_batches = 0..NewestBatch
      /\ FirstPending \in 1..(SealedMiniblock + 1)
      /\ b \in Nat /\ b # Null /\ b # NewestBatch + 1
  BY OpenTypes DEF Null
<1>2. \A n \in DOMAIN miniblocks : miniblocks[n].l1_batch_number = Null <=> n >= FirstPending
  BY DEF StateInv, PendingIsSuffix
<1>3. CASE SealMiniblock
  <2>1. l1_batches' = l1_batches
    BY <1>3 DEF SealMiniblock
  <2>2. /\ DOMAIN miniblocks' = 0..(SealedMiniblock + 1)
        /\ \A n \in 0..SealedMiniblock : miniblocks'[n] = miniblocks[n]
        /\ miniblocks'[SealedMiniblock + 1].l1_batch_number = Null
    BY <1>3, MiniblockSealed
  <2>3. \A n \in DOMAIN miniblocks' : \/ n \in DOMAIN miniblocks /\ miniblocks'[n] = miniblocks[n]
                                      \/ miniblocks'[n].l1_batch_number = Null
    BY <1>1, <2>2
  <2>4. \A n \in DOMAIN miniblocks : n \in DOMAIN miniblocks' /\ miniblocks'[n] = miniblocks[n]
    BY <1>1, <2>2
  <2>5. MiniblocksOf(b)' = MiniblocksOf(b)
    BY <1>1, <2>3, <2>4 DEF MiniblocksOf
  <2> QED BY <2>1, <2>4, <2>5 DEF MiniblocksOf
<1>4. CASE SealL1Batch
  <2>1. /\ DOMAIN miniblocks' = 0..(SealedMiniblock + 1)
        /\ \A n \in 0..(FirstPending - 1) : miniblocks'[n] = miniblocks[n]
        /\ \A n \in FirstPending..(SealedMiniblock + 1) :
             miniblocks'[n].l1_batch_number = NewestBatch + 1
        /\ DOMAIN l1_batches' = 0..(NewestBatch + 1)
        /\ \A c \in 0..NewestBatch : l1_batches'[c] = l1_batches[c]
    BY <1>4, BatchSealed
  <2>2. b \in DOMAIN l1_batches' /\ l1_batches'[b] = l1_batches[b]
    BY <1>1, <2>1
  <2>3. \A n \in DOMAIN miniblocks' :
          \/ n \in DOMAIN miniblocks /\ miniblocks'[n] = miniblocks[n]
          \/ miniblocks'[n].l1_batch_number = NewestBatch + 1
    BY <1>1, <2>1
  <2>4. \A n \in DOMAIN miniblocks : miniblocks[n].l1_batch_number # Null =>
           n \in DOMAIN miniblocks' /\ miniblocks'[n] = miniblocks[n]
    BY <1>1, <1>2, <2>1
  <2>5. MiniblocksOf(b)' = MiniblocksOf(b)
    BY <1>1, <2>3, <2>4 DEF MiniblocksOf
  <2>6. \A n \in MiniblocksOf(b) : miniblocks'[n] = miniblocks[n]
    BY <1>1, <2>4 DEF MiniblocksOf
  <2> QED BY <2>2, <2>5, <2>6
<1>5. CASE UNCHANGED <<miniblocks, l1_batches>>
  BY <1>5 DEF MiniblocksOf
<1> QED BY <1>3, <1>4, <1>5, TableSteps DEF vars, dbVars

\* The batch that seal_l1_batch inserts is a run of miniblocks.
LEMMA NewBatchIsRun ==
    ASSUME StateInv, TimeInv, OpenInv, SealL1Batch, [Next]_vars, NEW b \in Nat, b = NewestBatch
    PROVE  RunOf(MiniblocksOf(b + 1)', MiniblocksOf(b)', miniblocks', l1_batches'[b + 1], b + 1)
<1>1. /\ SealedMiniblock \in Nat /\ DOMAIN miniblocks = 0..SealedMiniblock
      /\ NewestBatch \in Nat /\ DOMAIN l1_batches = 0..NewestBatch
      /\ FirstPending \in 1..(SealedMiniblock + 1)
  BY OpenTypes
<1>2. /\ DOMAIN miniblocks' = 0..(SealedMiniblock + 1)
      /\ \A n \in 0..(FirstPending - 1) : miniblocks'[n] = miniblocks[n]
      /\ \A n \in 0..SealedMiniblock :
           /\ miniblocks'[n].timestamp = miniblocks[n].timestamp
           /\ miniblocks'[n].txs = miniblocks[n].txs
           /\ miniblocks'[n].version = miniblocks[n].version
      /\ miniblocks'[SealedMiniblock + 1].txs = {}
      /\ miniblocks'[SealedMiniblock + 1].version = um.version
      /\ \A n \in FirstPending..(SealedMiniblock + 1) :
           miniblocks'[n].l1_batch_number = NewestBatch + 1
      /\ l1_batches'[NewestBatch + 1] =
           [timestamp |-> um.batch_timestamp, version |-> um.version, txs |-> um.l1_batch]
      /\ queue = <<>> /\ um.miniblock = {}
  BY BatchSealed
<1>3. pc = "seal" /\ pc \in Filling /\ pc \in Open
  BY DEF SealL1Batch, Filling, Open
<1>4. /\ um.l1_batch = Submitted /\ um.l1_batch # {}
      /\ \A n \in FirstPending..SealedMiniblock : miniblocks[n].version = um.version
  BY <1>2, <1>3 DEF OpenInv, OpenIsSubmitted, FinishedHasTxs, PendingTxs
<1>5. \A tx : tx \in um.l1_batch <=>
        \E n \in FirstPending..SealedMiniblock : tx \in miniblocks[n].txs
  <2>1. 1..Len(queue) = {}
    BY <1>2
  <2> QED BY <1>4, <2>1, InSubmitted
<1>6. FirstPending <= SealedMiniblock
  BY <1>1, <1>4, <1>5
<1> DEFINE M == FirstPending..(SealedMiniblock + 1)
<1>7. MiniblocksOf(b + 1)' = M
  <2>1. MiniblocksOf(b + 1)' = {n \in DOMAIN miniblocks' : miniblocks'[n].l1_batch_number = b + 1}
    BY DEF MiniblocksOf
  <2>2. \A n \in 0..(FirstPending - 1) : miniblocks'[n].l1_batch_number # NewestBatch + 1
    <3> TAKE n \in 0..(FirstPending - 1)
    <3>1. n \in DOMAIN miniblocks /\ miniblocks'[n] = miniblocks[n]
      BY <1>1, <1>2
    <3>2. miniblocks[n].l1_batch_number \in 0..NewestBatch \cup {Null}
      BY <1>1, <3>1, MiniblockRow DEF StateInv
    <3> QED BY <1>1, <3>1, <3>2 DEF Null
  <2>3. \A n \in 0..(SealedMiniblock + 1) : n \in 0..(FirstPending - 1) \/ n \in M
    BY <1>1
  <2>4. M \subseteq 0..(SealedMiniblock + 1)
    BY <1>1
  <2> HIDE DEF M
  <2>5. \A n \in M : miniblocks'[n].l1_batch_number = b + 1
    BY <1>2 DEF M
  <2> QED BY <1>2, <2>1, <2>2, <2>3, <2>4, <2>5
<1>8. Min(M) = FirstPending /\ Max(M) = SealedMiniblock + 1
  <2>1. M \subseteq Int /\ FirstPending \in M /\ \A y \in M : FirstPending <= y
    BY <1>1
  <2>2. Max(M) = SealedMiniblock + 1
    <3>1. FirstPending \in Int /\ SealedMiniblock + 1 \in Int /\ FirstPending <= SealedMiniblock + 1
      BY <1>1
    <3> QED BY <3>1, MaxInterval
  <2> HIDE DEF M
  <2>3. Min(M) = FirstPending
    BY <2>1, MinIs
  <2> QED BY <2>2, <2>3
<1>9. Cardinality(M) >= 2
  BY <1>1, <1>6, FS_Interval
<1>10. \A n \in M : /\ miniblocks'[n].txs = {} <=> n = SealedMiniblock + 1
                    /\ miniblocks'[n].version = um.version
  <2> TAKE n \in M
  <2>1. CASE n = SealedMiniblock + 1
    BY <1>2, <2>1
  <2>2. CASE n \in FirstPending..SealedMiniblock
    <3>1. miniblocks[n].txs # {} /\ n \in 0..SealedMiniblock /\ n # SealedMiniblock + 1
      BY <1>1, <2>2 DEF StateInv, NoneIsEmpty
    <3> QED BY <1>2, <1>4, <2>2, <3>1
  <2> QED BY <1>1, <2>1, <2>2
<1>11. um.batch_timestamp = miniblocks'[FirstPending].timestamp
  <2>1. um.batch_timestamp = miniblocks[FirstPending].timestamp
    BY <1>3, <1>6 DEF TimeInv, OpenIsLatest, FirstTimestamp
  <2> QED BY <1>1, <1>2, <1>6, <2>1
<1>12. um.l1_batch = TxsOf(M, miniblocks')
  <2>1. \A tx : tx \in TxsOf(M, miniblocks') <=> \E n \in M : tx \in miniblocks'[n].txs
    BY UnionOfTxs, Zenon DEF TxsOf
  <2>2. ASSUME NEW tx
        PROVE  (\E n \in M : tx \in miniblocks'[n].txs)
                 <=> \E n \in FirstPending..SealedMiniblock : tx \in miniblocks[n].txs
    <3>1. \A n \in FirstPending..SealedMiniblock :
            n \in M /\ miniblocks'[n].txs = miniblocks[n].txs
      BY <1>1, <1>2
    <3>2. \A n \in M : n \in FirstPending..SealedMiniblock \/ miniblocks'[n].txs = {}
      BY <1>1, <1>2
    <3> HIDE DEF M
    <3> QED BY <3>1, <3>2
  <2> HIDE DEF M
  <2> QED BY <1>5, <2>1, <2>2
<1>13. FirstPending = Max(MiniblocksOf(b)') + 1
  <2>1. b \in DOMAIN l1_batches
    BY <1>1
  <2>2. MiniblocksOf(b)' = MiniblocksOf(b)
    BY <2>1, SealedBatchesKept
  <2>3. MiniblocksOf(b) = {n \in DOMAIN miniblocks : miniblocks[n].l1_batch_number = NewestBatch}
    BY DEF MiniblocksOf
  <2> QED BY <2>2, <2>3 DEF FirstPending
<1> HIDE DEF M
<1>14. M = Min(M)..Max(M)
  BY <1>8 DEF M
<1> DEFINE r == l1_batches'[b + 1]
<1>15. r.timestamp = um.batch_timestamp /\ r.version = um.version /\ r.txs = um.l1_batch
  BY <1>2
<1> HIDE DEF r
<1>16. RunOf(M, MiniblocksOf(b)', miniblocks', r, b + 1)
  BY <1>8, <1>9, <1>10, <1>11, <1>12, <1>13, <1>14, <1>15 DEF RunOf
<1> QED BY <1>7, <1>16 DEF r

\* Every step keeps every sealed batch a run of its miniblocks.
LEMMA RunsKept ==
    ASSUME StateInv, TimeInv, OpenInv, BatchIsItsMiniblocks, [Next]_vars
    PROVE  BatchIsItsMiniblocks'
<1>1. /\ SealedMiniblock \in Nat /\ DOMAIN miniblocks = 0..SealedMiniblock
      /\ NewestBatch \in Nat /\ DOMAIN l1_batches = 0..NewestBatch
  BY OpenTypes
<1>2. ASSUME NEW b \in DOMAIN l1_batches \ {0}
      PROVE  RunOf(MiniblocksOf(b)', MiniblocksOf(b - 1)', miniblocks', l1_batches'[b], b)
  <2>1. b - 1 \in DOMAIN l1_batches
    BY <1>1
  <2>2. /\ l1_batches'[b] = l1_batches[b]
        /\ MiniblocksOf(b)' = MiniblocksOf(b) /\ MiniblocksOf(b - 1)' = MiniblocksOf(b - 1)
        /\ \A n \in MiniblocksOf(b) : miniblocks'[n] = miniblocks[n]
    BY <2>1, SealedBatchesKept
  <2>3. RunOf(MiniblocksOf(b), MiniblocksOf(b - 1), miniblocks, l1_batches[b], b)
    BY BatchesAreRuns
  <2>4. MiniblocksOf(b) \in SUBSET Nat /\ MiniblocksOf(b) \subseteq 0..SealedMiniblock
    BY <1>1 DEF MiniblocksOf
  <2>5. IsFiniteSet(MiniblocksOf(b))
    <3>1. IsFiniteSet(0..SealedMiniblock)
      BY <1>1, FS_Interval
    <3> QED BY <2>4, <3>1, FS_Subset
  <2>6. Min(MiniblocksOf(b)) \in MiniblocksOf(b)
    BY <2>3, <2>4, <2>5, RunHasMin
  <2> QED BY <2>2, <2>3, <2>6, RunDepends
<1>3. CASE UNCHANGED l1_batches
  BY <1>2, <1>3 DEF BatchIsItsMiniblocks, RunOf, TxsOf
<1>4. CASE SealL1Batch
  <2>1. DOMAIN l1_batches' = 0..(NewestBatch + 1)
    BY <1>4, BatchSealed
  <2>2. PICK top \in Nat : top = NewestBatch
    BY <1>1
  <2>3. ASSUME NEW b \in DOMAIN l1_batches' \ {0}
        PROVE  RunOf(MiniblocksOf(b)', MiniblocksOf(b - 1)', miniblocks', l1_batches'[b], b)
    <3>1. CASE b \in DOMAIN l1_batches
      BY <1>2, <3>1
    <3>2. CASE b = top + 1
      <4>1. RunOf(MiniblocksOf(top + 1)', MiniblocksOf(top)', miniblocks',
                  l1_batches'[top + 1], top + 1)
        BY <1>4, <2>2, NewBatchIsRun
      <4>2. b - 1 = top
        BY <2>2, <3>2
      <4> QED BY <3>2, <4>1, <4>2
    <3> QED BY <1>1, <2>1, <2>2, <3>1, <3>2
  <2> QED BY <2>3 DEF BatchIsItsMiniblocks, RunOf, TxsOf
<1>5. CASE SealMiniblock
  BY <1>3, <1>5 DEF SealMiniblock
<1> QED BY <1>3, <1>4, <1>5, TableSteps DEF vars, dbVars

\* seal_l1_batch marks exactly the miniblocks of the batch it inserts: in
\* every reachable state a batch is a run of miniblocks with its protocol
\* version, its timestamp and its transactions, also when one process sealed
\* the miniblocks and another, after a restart, the batch.
THEOREM BatchesHold == Spec => []BatchIsItsMiniblocks
<1>1. Init => BatchIsItsMiniblocks
  BY DEF Init, BatchIsItsMiniblocks
<1>2. StateInv /\ TimeInv /\ OpenInv /\ BatchIsItsMiniblocks /\ [Next]_vars => BatchIsItsMiniblocks'
  BY RunsKept
<1> QED BY <1>1, <1>2, StateInvariant, TimeInvariant, OpenInvariant, PTL DEF Spec

-----------------------------------------------------------------------------
(* The size of a batch. *)

\* Among finite sets there is a smallest.
LEMMA SmallestSet ==
    ASSUME NEW F, F # {}, \A s \in F : IsFiniteSet(s)
    PROVE  \E s \in F : \A t \in F : ~ (Cardinality(t) < Cardinality(s))
<1> DEFINE K == {Cardinality(s) : s \in F}
<1>1. K \subseteq Nat /\ K # {}
  BY FS_CardinalityType
<1>2. PICK x \in K : \A y \in K : ~ (<<y, x>> \in OpToRel(<, Nat))
  BY <1>1, NatLessThanWellFounded, WFMin, Zenon
<1>3. \A y \in K : ~ (y < x)
  BY <1>1, <1>2, Zenon DEF OpToRel
<1>4. PICK s \in F : x = Cardinality(s)
  BY <1>2
<1> QED BY <1>3, <1>4

\* The element that the fold takes next.
Pick(s) == CHOOSE x \in s : TRUE
Rest(s) == s \ {Pick(s)}

\* The recursion of the fold over the sets of D.
Sums(g, D) == [s \in D |-> IF s = {} THEN 0 ELSE Pick(s).size + g[Rest(s)]]

\* The fold takes one element and leaves a smaller set.
LEMMA PickRest ==
    ASSUME NEW s, IsFiniteSet(s), s # {}
    PROVE  /\ Pick(s) \in s /\ Rest(s) \subseteq s /\ IsFiniteSet(Rest(s))
           /\ Cardinality(Rest(s)) = Cardinality(s) - 1
           /\ Cardinality(s) \in Nat /\ Cardinality(Rest(s)) \in Nat
<1>1. Pick(s) \in s
  BY DEF Pick
<1>2. IsFiniteSet(Rest(s)) /\ Cardinality(Rest(s)) = Cardinality(s) - 1
  BY <1>1, FS_RemoveElement DEF Rest
<1> QED BY <1>1, <1>2, FS_CardinalityType DEF Rest

\* The fold's function exists.
LEMMA SumsExist ==
    ASSUME NEW S, IsFiniteSet(S)
    PROVE  \E g : g = Sums(g, SUBSET S)
<1> DEFINE Sub(k) == {s \in SUBSET S : Cardinality(s) <= k}
           Bad == {k \in Nat : ~ \E g : g = Sums(g, Sub(k))}
<1>1. \A s \in SUBSET S : /\ IsFiniteSet(s) /\ Cardinality(s) \in Nat
                           /\ Cardinality(s) <= Cardinality(S)
  BY FS_Subset, FS_CardinalityType
<1>2. Cardinality(S) \in Nat
  BY FS_CardinalityType
<1>3. Sub(Cardinality(S)) = SUBSET S
  BY <1>1
<1>4. SUFFICES Bad = {}
  BY <1>2, <1>3
<1>5. SUFFICES ASSUME Bad # {} PROVE FALSE
  OBVIOUS
<1>6. PICK k \in Bad : \A y \in Bad : ~ (<<y, k>> \in OpToRel(<, Nat))
  <2>1. Bad \subseteq Nat
    OBVIOUS
  <2> QED BY <1>5, <2>1, NatLessThanWellFounded, WFMin, Zenon
<1>7. k \in Nat /\ \A y \in Bad : ~ (y < k)
  <2>1. Bad \subseteq Nat
    OBVIOUS
  <2> HIDE DEF Bad
  <2> QED BY <1>6, <2>1, Zenon DEF OpToRel
<1>8. k # 0
  <2> SUFFICES ASSUME k = 0 PROVE FALSE
    OBVIOUS
  <2>1. Sub(0) = {{}}
    BY <1>1, FS_EmptySet
  <2> DEFINE f == [s \in {{}} |-> 0]
  <2>2. f = Sums(f, {{}})
    BY DEF Sums
  <2> QED BY <1>6, <2>1, <2>2
<1>9. k - 1 \in Nat /\ k - 1 \notin Bad
  <2> HIDE DEF Bad
  <2> QED BY <1>7, <1>8
<1>10. PICK g : g = Sums(g, Sub(k - 1))
  BY <1>9
<1> DEFINE h == Sums(g, Sub(k))
<1>11. \A s \in Sub(k) : s # {} => Rest(s) \in Sub(k - 1) /\ Rest(s) \in Sub(k)
  BY <1>1, <1>7, PickRest
<1>12. \A s \in Sub(k - 1) : s \in Sub(k) /\ h[s] = g[s]
  <2>1. \A s \in Sub(k - 1) : s \in Sub(k)
    BY <1>1, <1>7
  <2>2. \A s \in Sub(k - 1) : g[s] = Sums(g, Sub(k - 1))[s]
    BY <1>10
  <2> QED BY <2>1, <2>2 DEF Sums
<1>13. h = Sums(h, Sub(k))
  <2>1. \A s \in Sub(k) : s # {} => h[Rest(s)] = g[Rest(s)]
    BY <1>11, <1>12
  <2> HIDE DEF Sub
  <2> QED BY <2>1 DEF Sums
<1> QED BY <1>6, <1>13

\* The function the fold chooses for a set.
Iter(T) == CHOOSE g : g = Sums(g, SUBSET T)

\* It satisfies its recursion.
LEMMA IterIsSums ==
    ASSUME NEW S, IsFiniteSet(S)
    PROVE  Iter(S) = Sums(Iter(S), SUBSET S)
<1>1. \E g : g = Sums(g, SUBSET S)
  BY SumsExist
<1> QED BY <1>1, Zenon DEF Iter

\* It is the same whatever set it was made for.
LEMMA SumsUnique ==
    ASSUME NEW S, IsFiniteSet(S), NEW T \in SUBSET S
    PROVE  \A s \in SUBSET T : Iter(S)[s] = Iter(T)[s]
<1>0. PICK g, h : g = Iter(S) /\ h = Iter(T)
  OBVIOUS
<1>a. g = Sums(g, SUBSET S) /\ h = Sums(h, SUBSET T)
  BY <1>0, IterIsSums, FS_Subset
<1>b. SUFFICES \A s \in SUBSET T : g[s] = h[s]
  BY <1>0
<1> DEFINE Bad == {s \in SUBSET T : g[s] # h[s]}
<1>1. \A s \in SUBSET T : s \in SUBSET S /\ IsFiniteSet(s)
  BY FS_Subset
<1>2. SUFFICES ASSUME Bad # {} PROVE FALSE
  OBVIOUS
<1>3. PICK s \in Bad : \A t \in Bad : ~ (Cardinality(t) < Cardinality(s))
  <2>1. \A s \in Bad : IsFiniteSet(s)
    BY <1>1
  <2> HIDE DEF Bad
  <2> QED BY <1>2, <2>1, SmallestSet
<1>4. /\ g[s] = IF s = {} THEN 0 ELSE Pick(s).size + g[Rest(s)]
      /\ h[s] = IF s = {} THEN 0 ELSE Pick(s).size + h[Rest(s)]
  <2>1. g[s] = Sums(g, SUBSET S)[s] /\ h[s] = Sums(h, SUBSET T)[s]
    BY <1>a
  <2>2. s \in SUBSET S /\ s \in SUBSET T
    BY <1>1
  <2> QED BY <2>1, <2>2 DEF Sums
<1>5. s # {}
  BY <1>3, <1>4
<1>6. /\ Rest(s) \in SUBSET T /\ Cardinality(Rest(s)) < Cardinality(s)
  BY <1>1, <1>5, PickRest
<1>7. g[Rest(s)] = h[Rest(s)]
  BY <1>3, <1>6
<1> QED BY <1>3, <1>4, <1>5, <1>7

\* The total size, one transaction at a time.
LEMMA SizeOfRest ==
    ASSUME NEW S, IsFiniteSet(S), S # {}
    PROVE  TotalSize(S) = Pick(S).size + TotalSize(Rest(S))
<1>1. ASSUME NEW T
      PROVE  TotalSize(T) = Iter(T)[T]
  BY Zenon DEF TotalSize, MapThenSumSet, MapThenFoldSet, Iter, Sums, Pick, Rest
<1>2. S \in SUBSET S /\ Rest(S) \in SUBSET S
  BY DEF Rest
<1>3. Iter(S)[S] = Pick(S).size + Iter(S)[Rest(S)]
  <2>1. Iter(S)[S] = Sums(Iter(S), SUBSET S)[S]
    BY IterIsSums
  <2> QED BY <1>2, <2>1 DEF Sums
<1>4. Iter(S)[Rest(S)] = Iter(Rest(S))[Rest(S)]
  BY <1>2, SumsUnique
<1> QED BY <1>1, <1>3, <1>4

\* Sizes are numbers, and so is their sum.
LEMMA SizeIsNat ==
    ASSUME NEW S \in SUBSET Tx
    PROVE  TotalSize(S) \in Nat /\ IsFiniteSet(S)
<1> DEFINE Bad == {s \in SUBSET Tx : TotalSize(s) \notin Nat}
<1>1. \A s \in SUBSET Tx : IsFiniteSet(s)
  BY SequencerAssumption, FS_Subset
<1>2. SUFFICES ASSUME Bad # {} PROVE FALSE
  BY <1>1
<1>3. PICK s \in Bad : \A t \in Bad : ~ (Cardinality(t) < Cardinality(s))
  <2>1. \A s \in Bad : IsFiniteSet(s)
    BY <1>1
  <2> HIDE DEF Bad
  <2> QED BY <1>2, <2>1, SmallestSet
<1>4. s # {}
  BY <1>3, EmptySize
<1>5. /\ Pick(s) \in s /\ Rest(s) \in SUBSET Tx /\ Cardinality(Rest(s)) < Cardinality(s)
  BY <1>1, <1>4, PickRest
<1>6. TotalSize(Rest(s)) \in Nat
  BY <1>3, <1>5
<1>7. Pick(s).size \in Nat
  BY <1>5, SequencerAssumption
<1>8. TotalSize(s) = Pick(s).size + TotalSize(Rest(s))
  BY <1>1, <1>4, SizeOfRest
<1> QED BY <1>3, <1>6, <1>7, <1>8

\* In whatever order the transactions are counted.
LEMMA SizeWithout ==
    ASSUME NEW S \in SUBSET Tx, NEW x \in S
    PROVE  TotalSize(S) = x.size + TotalSize(S \ {x})
<1> DEFINE Bad == {s \in SUBSET Tx : \E y \in s : TotalSize(s) # y.size + TotalSize(s \ {y})}
<1>1. \A s \in SUBSET Tx : IsFiniteSet(s)
  BY SizeIsNat
<1>2. SUFFICES ASSUME Bad # {} PROVE FALSE
  OBVIOUS
<1>3. PICK s \in Bad : \A t \in Bad : ~ (Cardinality(t) < Cardinality(s))
  <2>1. \A s \in Bad : IsFiniteSet(s)
    BY <1>1
  <2> HIDE DEF Bad
  <2> QED BY <1>2, <2>1, SmallestSet
<1>4. PICK y \in s : TotalSize(s) # y.size + TotalSize(s \ {y})
  BY <1>3
<1>5. s \in SUBSET Tx /\ s # {}
  BY <1>3, <1>4
<1>6. PICK p \in s : TotalSize(s) = p.size + TotalSize(s \ {p})
  BY <1>1, <1>5, SizeOfRest, PickRest DEF Rest
<1>7. p # y
  BY <1>4, <1>6
<1>8. \A z \in s : s \ {z} \in SUBSET Tx /\ Cardinality(s \ {z}) < Cardinality(s)
  <2> TAKE z \in s
  <2>1. Cardinality(s \ {z}) = Cardinality(s) - 1 /\ Cardinality(s) \in Nat
    BY <1>1, <1>5, FS_RemoveElement, FS_CardinalityType
  <2> QED BY <1>5, <2>1
<1>9. \A z \in s : s \ {z} \notin Bad
  <2> HIDE DEF Bad
  <2> QED BY <1>3, <1>8
<1>10. TotalSize(s \ {p}) = y.size + TotalSize((s \ {p}) \ {y})
  BY <1>7, <1>8, <1>9
<1>11. TotalSize(s \ {y}) = p.size + TotalSize((s \ {y}) \ {p})
  BY <1>7, <1>8, <1>9
<1>12. TotalSize((s \ {p}) \ {y}) = TotalSize((s \ {y}) \ {p})
  <2>1. (s \ {p}) \ {y} = (s \ {y}) \ {p}
    OBVIOUS
  <2> QED BY <2>1, Zenon
<1>13. p.size \in Nat /\ y.size \in Nat
  BY <1>5, SequencerAssumption
<1>14. TotalSize((s \ {p}) \ {y}) \in Nat
  <2>1. (s \ {p}) \ {y} \in SUBSET Tx
    BY <1>5
  <2> QED BY <2>1, SizeIsNat
<1> HIDE DEF Bad
<1> QED BY <1>4, <1>6, <1>10, <1>11, <1>12, <1>13, <1>14

\* One more transaction.
LEMMA SizeWith ==
    ASSUME NEW S \in SUBSET Tx, NEW x \in Tx
    PROVE  TotalSize(S \cup {x}) <= TotalSize(S) + x.size
<1>1. x.size \in Nat /\ TotalSize(S) \in Nat
  BY SequencerAssumption, SizeIsNat
<1>2. CASE x \in S
  <2>1. S \cup {x} = S
    BY <1>2
  <2>2. TotalSize(S \cup {x}) = TotalSize(S)
    BY <2>1, Zenon
  <2> QED BY <1>1, <2>2
<1>3. CASE x \notin S
  <2>1. (S \cup {x}) \ {x} = S /\ S \cup {x} \in SUBSET Tx /\ x \in S \cup {x}
    BY <1>3
  <2>2. TotalSize(S \cup {x}) = x.size + TotalSize((S \cup {x}) \ {x})
    BY <2>1, SizeWithout
  <2>3. TotalSize((S \cup {x}) \ {x}) = TotalSize(S)
    BY <2>1, Zenon
  <2> QED BY <1>1, <2>2, <2>3
<1> QED BY <1>2, <1>3

\* Fewer transactions take no more space.
LEMMA SizeOfPart ==
    ASSUME NEW T \in SUBSET Tx, NEW S \in SUBSET T
    PROVE  TotalSize(S) <= TotalSize(T)
<1> DEFINE Bad == {t \in SUBSET Tx : \E s \in SUBSET t : ~ (TotalSize(s) <= TotalSize(t))}
<1>1. \A s \in SUBSET Tx : IsFiniteSet(s) /\ TotalSize(s) \in Nat
  BY SizeIsNat
<1>2. SUFFICES ASSUME Bad # {} PROVE FALSE
  OBVIOUS
<1>3. PICK t \in Bad : \A u \in Bad : ~ (Cardinality(u) < Cardinality(t))
  <2>1. \A s \in Bad : IsFiniteSet(s)
    BY <1>1
  <2> HIDE DEF Bad
  <2> QED BY <1>2, <2>1, SmallestSet
<1>4. PICK s \in SUBSET t : ~ (TotalSize(s) <= TotalSize(t))
  BY <1>3
<1>5. t \in SUBSET Tx /\ s \in SUBSET Tx
  BY <1>3, <1>4
<1>6. PICK x \in t : x \notin s
  <2>1. s # t
    BY <1>1, <1>4, <1>5
  <2> QED BY <2>1
<1>7. Cardinality(t \ {x}) < Cardinality(t) /\ t \ {x} \in SUBSET Tx
  <2>1. Cardinality(t \ {x}) = Cardinality(t) - 1 /\ Cardinality(t) \in Nat
    BY <1>1, <1>5, FS_RemoveElement, FS_CardinalityType
  <2> QED BY <1>5, <2>1
<1>8. t \ {x} \notin Bad
  <2> HIDE DEF Bad
  <2> QED BY <1>3, <1>7
<1>9. TotalSize(s) <= TotalSize(t \ {x})
  BY <1>6, <1>7, <1>8
<1>10. TotalSize(t) = x.size + TotalSize(t \ {x})
  BY <1>5, SizeWithout
<1>11. x.size \in Nat /\ TotalSize(t \ {x}) \in Nat /\ TotalSize(s) \in Nat
  BY <1>1, <1>5, <1>7, SequencerAssumption
<1> HIDE DEF Bad
<1> QED BY <1>4, <1>9, <1>10, <1>11

Fits(S) == TotalSize(S) <= EncodingSpace

\* The parts of a set that fits, fit.
LEMMA PartFits ==
    ASSUME NEW T \in SUBSET Tx, NEW S \in SUBSET T, Fits(T)
    PROVE  Fits(S)
<1>1. TotalSize(S) <= TotalSize(T)
  BY SizeOfPart
<1>2. S \in SUBSET Tx
  OBVIOUS
<1>3. TotalSize(S) \in Nat /\ TotalSize(T) \in Nat /\ EncodingSpace \in Nat
  BY <1>2, SizeIsNat, SequencerAssumption
<1> QED BY <1>1, <1>3 DEF Fits

\* A batch without transactions fits.
LEMMA NothingFits == Fits({})
BY EmptySize, SequencerAssumption DEF Fits

\* A transaction that the criteria include fits with those before it.
LEMMA IncludedFits ==
    ASSUME NEW tx \in Tx, NEW result, PendingTxs \in SUBSET Tx,
           process_one_tx(tx, result) \in {"NoSeal", "IncludeAndSeal"}
    PROVE  Fits(PendingTxs \cup {tx})
<1>1. should_seal_l1_batch(tx) \in {"NoSeal", "IncludeAndSeal"}
  BY DEF process_one_tx
<1>2. TxEncodingSizeCriterion(tx) \notin {"Unexecutable", "ExcludeAndSeal"}
  BY <1>1 DEF should_seal_l1_batch, Stricter
<1>3. ~ (TotalSize(PendingTxs) + tx.size > EncodingSpace)
  BY <1>2 DEF TxEncodingSizeCriterion
<1>4. tx.size \in Nat /\ EncodingSpace \in Nat /\ TotalSize(PendingTxs) \in Nat
  BY SequencerAssumption, SizeIsNat
<1>5. TotalSize(PendingTxs \cup {tx}) <= TotalSize(PendingTxs) + tx.size
  BY SizeWith
<1>6. PendingTxs \cup {tx} \in SUBSET Tx
  OBVIOUS
<1>7. TotalSize(PendingTxs \cup {tx}) \in Nat
  BY <1>6, SizeIsNat
<1> QED BY <1>3, <1>4, <1>5, <1>7 DEF Fits

\* A crash leaves the miniblocks that no batch contains: they too must fit, for
\* the restarted process opens the batch with them.
SizeInv ==
    /\ \A b \in DOMAIN l1_batches : Fits(l1_batches[b].txs)
    /\ Fits(SealedTxs)
    /\ Fits(PendingTxs)

\* What is open, and what is sealed of it, are transactions.
LEMMA OpenTxs ==
    ASSUME StateInv
    PROVE  PendingTxs \in SUBSET Tx /\ SealedTxs \in SUBSET Tx
<1>1. um \in Updates
  BY OpenTypes
<1>2. PendingTxs \in SUBSET Tx
  BY <1>1 DEF PendingTxs, Updates
<1>3. \A n \in FirstPending..SealedMiniblock : miniblocks[n].txs \subseteq Tx
  BY OpenTypes, MiniblockRow DEF StateInv
<1>4. SealedTxs \in SUBSET Tx
  BY <1>3 DEF SealedTxs
<1> QED BY <1>2, <1>4

\* Only ExecuteTx makes the open batch larger; RestoreState opens it with what
\* the sealer had sealed.
LEMMA SizeStep ==
    ASSUME StateInv, OpenInv, SizeInv, [Next]_vars
    PROVE  SizeInv'
<1>1. /\ SealedMiniblock \in Nat /\ DOMAIN miniblocks = 0..SealedMiniblock
      /\ NewestBatch \in Nat /\ DOMAIN l1_batches = 0..NewestBatch
      /\ FirstPending \in 1..(SealedMiniblock + 1)
      /\ um \in Updates /\ clock \in Nat
      /\ pc \in Open \cup {"start", "new_batch"}
  BY OpenTypes
<1>2. PendingTxs \in SUBSET Tx /\ SealedTxs \in SUBSET Tx
  BY OpenTxs
<1>3. UNCHANGED um => PendingTxs' = PendingTxs
  BY DEF PendingTxs
<1>4. UNCHANGED <<miniblocks, l1_batches>> => SealedTxs' = SealedTxs
  <2> SUFFICES ASSUME UNCHANGED <<miniblocks, l1_batches>> PROVE SealedTxs' = SealedTxs
    OBVIOUS
  <2>1. SealedMiniblock' = SealedMiniblock /\ FirstPending' = FirstPending
    BY TablesUnchanged
  <2> QED BY <2>1 DEF SealedTxs
<1>5. ASSUME UNCHANGED <<miniblocks, l1_batches>>, Fits(PendingTxs')
      PROVE  SizeInv'
  BY <1>4, <1>5 DEF SizeInv, Fits
<1>6. CASE SealMiniblock
  <2>1. UNCHANGED <<l1_batches, pc, um>> /\ queue # <<>>
    BY <1>6 DEF SealMiniblock, memVars
  <2>2. pc \in Open
    BY <1>1, <2>1 DEF StateInv, NumbersAhead
  <2>3. Submitted' = Submitted
    BY <1>6, SealedIsSubmitted
  <2>4. Submitted \subseteq PendingTxs
    BY <2>2 DEF OpenInv, OpenIsSubmitted, Open, PendingTxs
  <2>5. SealedTxs' \in SUBSET PendingTxs
    BY <2>3, <2>4 DEF Submitted
  <2>6. Fits(SealedTxs')
    BY <1>2, <2>5, PartFits DEF SizeInv
  <2> QED BY <1>3, <2>1, <2>6 DEF SizeInv, Fits
<1>7. CASE SealL1Batch
  <2>1. /\ SealedMiniblock' = SealedMiniblock + 1 /\ FirstPending' = SealedMiniblock + 2
        /\ DOMAIN l1_batches' = 0..(NewestBatch + 1)
        /\ \A b \in 0..NewestBatch : l1_batches'[b] = l1_batches[b]
        /\ l1_batches'[NewestBatch + 1].txs = um.l1_batch
    BY <1>7, BatchSealed
  <2>2. UNCHANGED um
    BY <1>7 DEF SealL1Batch
  <2>3. SealedTxs' = {}
    BY <1>1, <2>1 DEF SealedTxs
  <2>4. Fits(SealedTxs')
    BY <2>3, NothingFits, Zenon
  <2>5. Fits(um.l1_batch)
    <3>1. um.l1_batch \in SUBSET PendingTxs
      BY DEF PendingTxs
    <3> QED BY <1>2, <3>1, PartFits DEF SizeInv
  <2>6. \A b \in DOMAIN l1_batches' : Fits(l1_batches'[b].txs)
    <3> SUFFICES ASSUME NEW b \in DOMAIN l1_batches' PROVE Fits(l1_batches'[b].txs)
      OBVIOUS
    <3>1. CASE b \in 0..NewestBatch
      <4>1. Fits(l1_batches[b].txs)
        BY <1>1, <3>1 DEF SizeInv
      <4>2. l1_batches'[b].txs = l1_batches[b].txs
        BY <2>1, <3>1
      <4> QED BY <4>1, <4>2, Zenon
    <3>2. CASE b = NewestBatch + 1
      BY <2>1, <2>5, <3>2, Zenon
    <3> QED BY <1>1, <2>1, <3>1, <3>2
  <2> QED BY <1>3, <2>2, <2>4, <2>6 DEF SizeInv, Fits
<1>8. CASE RestoreState
  <2>1. FirstPending \in DOMAIN miniblocks /\ UNCHANGED <<miniblocks, l1_batches>>
    BY <1>8 DEF RestoreState, dbVars
  <2>2. /\ MiniblocksToReexecute = FirstPending..SealedMiniblock
        /\ Max(MiniblocksToReexecute) = SealedMiniblock /\ PendingParams \in Updates
    BY <2>1, PendingFound
  <2>3. /\ um'.l1_batch = SealedTxs \ miniblocks[SealedMiniblock].txs
        /\ um'.miniblock = miniblocks[SealedMiniblock].txs
    BY <1>8, <2>2 DEF RestoreState, Updates, SealedTxs
  <2>4. SealedMiniblock \in FirstPending..SealedMiniblock
    BY <1>1, <2>1
  <2>5. miniblocks[SealedMiniblock].txs \subseteq SealedTxs
    BY <2>4 DEF SealedTxs
  <2>6. PendingTxs' = SealedTxs
    BY <2>3, <2>5 DEF PendingTxs
  <2>7. Fits(PendingTxs')
    BY <2>6, Zenon DEF SizeInv
  <2> QED BY <1>5, <2>1, <2>7
<1>9. CASE OpenBatch \/ Reset
  <2>1. UNCHANGED <<miniblocks, l1_batches>> /\ um'.miniblock = {} /\ um'.l1_batch = {}
    BY <1>1, <1>9, NewFields, VersionType DEF OpenBatch, Reset, dbVars
  <2>2. PendingTxs' = {}
    BY <2>1 DEF PendingTxs
  <2>3. Fits(PendingTxs')
    BY <2>2, NothingFits, Zenon
  <2> QED BY <1>5, <2>1, <2>3
<1>10. CASE NewMiniblock
  <2>1. /\ UNCHANGED <<miniblocks, l1_batches>>
        /\ um'.miniblock = {} /\ um'.l1_batch = PendingTxs
    BY <1>1, <1>10, PushedFields DEF NewMiniblock, dbVars
  <2>2. PendingTxs' = PendingTxs
    BY <2>1 DEF PendingTxs
  <2>3. Fits(PendingTxs')
    BY <2>2, Zenon DEF SizeInv
  <2> QED BY <1>5, <2>1, <2>3
<1>11. ASSUME NEW tx \in pool, NEW result \in ExecutionResult, ExecuteTx(tx, result)
       PROVE  SizeInv'
  <2> DEFINE resolution == process_one_tx(tx, result)
  <2>1. /\ UNCHANGED <<miniblocks, l1_batches>>
        /\ um' = IF resolution \in {"NoSeal", "IncludeAndSeal"} THEN Extended(tx) ELSE um
    BY <1>11 DEF ExecuteTx, dbVars
  <2>2. tx \in Tx
    BY DEF StateInv, TypeOK
  <2>3. Extended(tx).miniblock = um.miniblock \cup {tx} /\ Extended(tx).l1_batch = um.l1_batch
    BY <1>1, <2>2, ExtendedFields
  <2>4. CASE resolution \in {"NoSeal", "IncludeAndSeal"}
    <3>1. Fits(PendingTxs \cup {tx})
      BY <1>2, <2>2, <2>4, IncludedFits
    <3> HIDE DEF resolution
    <3>2. PendingTxs' = PendingTxs \cup {tx}
      BY <2>1, <2>3, <2>4 DEF PendingTxs
    <3>3. Fits(PendingTxs')
      BY <3>1, <3>2, Zenon
    <3> QED BY <1>5, <2>1, <3>3
  <2>5. CASE resolution \notin {"NoSeal", "IncludeAndSeal"}
    <3> HIDE DEF resolution
    <3>1. PendingTxs' = PendingTxs
      BY <1>3, <2>1, <2>5
    <3>2. Fits(PendingTxs')
      BY <3>1, Zenon DEF SizeInv
    <3> QED BY <1>5, <2>1, <3>2
  <2> QED BY <2>4, <2>5
<1>12. CASE StartFresh \/ CloseOnDeadline \/ MiniblockOnDeadline \/ NoDeadline \/ NoNextTx
           \/ SealLastMiniblock \/ FinishBatch \/ NoBatchParams \/ SaveRootHash \/ Tick
           \/ ClockBack \/ (\E tx \in Tx : Arrive(tx)) \/ UNCHANGED vars
  <2>1. UNCHANGED <<miniblocks, l1_batches, um>>
    BY <1>12
       DEF StartFresh, CloseOnDeadline, MiniblockOnDeadline, NoDeadline, NoNextTx,
           SealLastMiniblock, FinishBatch, NoBatchParams, SaveRootHash, Tick, ClockBack, Arrive,
           vars, dbVars, memVars
  <2>2. Fits(PendingTxs')
    BY <1>3, <2>1, Zenon DEF SizeInv
  <2> QED BY <1>5, <2>1, <2>2
<1> QED BY <1>6, <1>7, <1>8, <1>9, <1>10, <1>11, <1>12
        DEF Next, Step, ProcessUpgradeTx, Crash

\* A batch never outgrows its encoding space, open or sealed, however often the
\* process stops and re-executes the pending miniblocks without asking the
\* criteria again: TxEncodingSizeCriterion counted each of them when it came.
THEOREM SizeIsRespected == Spec => []SizeRespected
<1>1. Init => SizeInv
  <2> SUFFICES ASSUME Init PROVE SizeInv
    OBVIOUS
  <2>1. SealedMiniblock = 0 /\ FirstPending = 1
    BY GenesisTables
  <2>2. um.miniblock = {} /\ um.l1_batch = {}
    BY NewFields DEF Init
  <2>3. SealedTxs = {} /\ PendingTxs = {}
    BY <2>1, <2>2 DEF SealedTxs, PendingTxs
  <2>4. \A b \in DOMAIN l1_batches : l1_batches[b].txs = {}
    BY DEF Init
  <2> QED BY <2>3, <2>4, NothingFits, Zenon DEF SizeInv
<1>2. StateInv /\ OpenInv /\ SizeInv /\ [Next]_vars => SizeInv'
  BY SizeStep
<1>3. SizeInv => SizeRespected
  BY DEF SizeInv, SizeRespected, Fits
<1> QED BY <1>1, <1>2, <1>3, StateInvariant, OpenInvariant, PTL DEF Spec

-----------------------------------------------------------------------------
(* The traces of a batch. *)

\* The size criterion includes every transaction that the VM executes.
NothingExcluded ==
    pc = "take" => \A tx \in pool : TxEncodingSizeCriterion(tx) \in {"NoSeal", "IncludeAndSeal"}

\* The VM has executed what the open batch contains, and the traces stored for
\* a batch about to be sealed are its own.
VmInv ==
    /\ pc \in Open => vm = PendingTxs
    /\ pc = "seal" =>
         NewestBatch + 1 \in DOMAIN object_store /\ object_store[NewestBatch + 1] = um.l1_batch
    /\ WitnessMatchesBatch

\* Steps that leave tables, traces, the VM and the open batch alone.
LEMMA QuietVm ==
    ASSUME VmInv, UNCHANGED <<l1_batches, object_store, um>>,
           \/ UNCHANGED <<pc, vm>>
           \/ pc' \notin Open
           \/ pc \in Open /\ pc' # "seal" /\ UNCHANGED vm
    PROVE  VmInv'
<1>1. NewestBatch' = NewestBatch /\ PendingTxs' = PendingTxs
  BY DEF NewestBatch, PendingTxs
<1>2. pc' = "seal" => pc' \in Open
  BY DEF Open, Filling
<1> QED BY <1>1, <1>2 DEF VmInv, WitnessMatchesBatch

\* As long as nothing is excluded, every step keeps VM and batch equal.
LEMMA VmStep ==
    ASSUME StateInv, VmInv, NothingExcluded, [Next]_vars
    PROVE  VmInv'
<1>1. /\ SealedMiniblock \in Nat /\ DOMAIN miniblocks = 0..SealedMiniblock
      /\ NewestBatch \in Nat /\ DOMAIN l1_batches = 0..NewestBatch
      /\ FirstPending \in 1..(SealedMiniblock + 1)
      /\ um \in Updates /\ clock \in Nat
  BY OpenTypes
<1>2. CASE SealL1Batch
  <2>1. /\ NewestBatch' = NewestBatch + 1 /\ DOMAIN l1_batches' = 0..(NewestBatch + 1)
        /\ \A b \in 0..NewestBatch : l1_batches'[b] = l1_batches[b]
        /\ l1_batches'[NewestBatch + 1].txs = um.l1_batch
    BY <1>2, BatchSealed
  <2>2. UNCHANGED object_store /\ pc = "seal" /\ pc' = "new_batch"
    BY <1>2 DEF SealL1Batch
  <2>3. WitnessMatchesBatch'
    <3> SUFFICES ASSUME NEW b \in DOMAIN l1_batches' \ {0}
                 PROVE  b \in DOMAIN object_store /\ object_store[b] = l1_batches'[b].txs
      BY <2>2 DEF WitnessMatchesBatch
    <3>1. CASE b \in DOMAIN l1_batches
      BY <1>1, <2>1, <3>1 DEF VmInv, WitnessMatchesBatch
    <3>2. CASE b = NewestBatch + 1
      BY <2>1, <2>2, <3>2 DEF VmInv
    <3> QED BY <1>1, <2>1, <3>1, <3>2
  <2> QED BY <2>2, <2>3 DEF VmInv, Open, Filling
<1>3. CASE FinishBatch
  <2>1. /\ pc = "finish" /\ pc' = "seal" /\ um.miniblock = {}
        /\ UNCHANGED <<l1_batches, um, vm>>
        /\ object_store' = Put(object_store, current_l1_batch_number, vm)
    BY <1>3 DEF FinishBatch, memVars
  <2>2. current_l1_batch_number = NewestBatch + 1
    BY <2>1 DEF StateInv, NumbersAhead
  <2>3. NewestBatch' = NewestBatch /\ PendingTxs' = PendingTxs /\ PendingTxs = um.l1_batch
    BY <2>1 DEF NewestBatch, PendingTxs
  <2>4. vm = um.l1_batch
    BY <2>1, <2>3 DEF VmInv, Open, Filling
  <2>5. /\ NewestBatch + 1 \in DOMAIN object_store' /\ object_store'[NewestBatch + 1] = um.l1_batch
        /\ \A b \in 0..NewestBatch : b \in DOMAIN object_store =>
             b \in DOMAIN object_store' /\ object_store'[b] = object_store[b]
    BY <1>1, <2>1, <2>2, <2>4 DEF Put
  <2>6. WitnessMatchesBatch'
    BY <1>1, <2>1, <2>5 DEF VmInv, WitnessMatchesBatch
  <2> QED BY <2>1, <2>3, <2>4, <2>5, <2>6 DEF VmInv
<1>4. CASE RestoreState
  <2>1. /\ FirstPending \in DOMAIN miniblocks /\ pc' = "miniblock_params"
        /\ UNCHANGED <<l1_batches, object_store>>
    BY <1>4 DEF RestoreState, dbVars
  <2>2. /\ MiniblocksToReexecute = FirstPending..SealedMiniblock
        /\ Max(MiniblocksToReexecute) = SealedMiniblock /\ PendingParams \in Updates
    BY <2>1, PendingFound
  <2> DEFINE pending == UNION {miniblocks[n].txs : n \in FirstPending..SealedMiniblock}
  <2>3. /\ um'.l1_batch = pending \ miniblocks[SealedMiniblock].txs
        /\ um'.miniblock = miniblocks[SealedMiniblock].txs
        /\ vm' = pending
    BY <1>4, <2>2 DEF RestoreState, Updates
  <2>4. SealedMiniblock \in FirstPending..SealedMiniblock
    BY <1>1, <2>1
  <2>5. PendingTxs' = vm'
    BY <2>3, <2>4 DEF PendingTxs
  <2> QED BY <2>1, <2>5 DEF VmInv, WitnessMatchesBatch
<1>5. CASE OpenBatch
  <2>1. /\ UNCHANGED <<l1_batches, object_store>> /\ pc' \in {"upgrade", "loop"}
        /\ um'.miniblock = {} /\ um'.l1_batch = {} /\ vm' = {}
    BY <1>1, <1>5, NewFields, VersionType DEF OpenBatch, dbVars
  <2>2. PendingTxs' = {}
    BY <2>1 DEF PendingTxs
  <2> QED BY <2>1, <2>2 DEF VmInv, WitnessMatchesBatch
<1>6. CASE NewMiniblock
  <2>1. /\ UNCHANGED <<l1_batches, object_store, vm>> /\ pc = "miniblock_params" /\ pc' # "seal"
        /\ um'.miniblock = {} /\ um'.l1_batch = PendingTxs
    BY <1>1, <1>6, PushedFields DEF NewMiniblock, dbVars, StateInv, MemoryTypes
  <2>2. PendingTxs' = PendingTxs /\ vm = PendingTxs
    BY <2>1 DEF PendingTxs, VmInv, Open
  <2> QED BY <2>1, <2>2 DEF VmInv, WitnessMatchesBatch
<1>7. ASSUME NEW tx \in pool, NEW result \in ExecutionResult, ExecuteTx(tx, result)
      PROVE  VmInv'
  <2> DEFINE resolution == process_one_tx(tx, result)
  <2>1. /\ UNCHANGED <<l1_batches, object_store>> /\ pc = "take" /\ pc' # "seal"
        /\ vm' = IF result = "Success" THEN vm \cup {tx} ELSE vm
        /\ um' = IF resolution \in {"NoSeal", "IncludeAndSeal"} THEN Extended(tx) ELSE um
    BY <1>7 DEF ExecuteTx, dbVars
  <2>2. tx \in Tx
    BY DEF StateInv, TypeOK
  <2>3. Extended(tx).miniblock = um.miniblock \cup {tx} /\ Extended(tx).l1_batch = um.l1_batch
    BY <1>1, <2>2, ExtendedFields
  <2>4. vm = PendingTxs
    BY <2>1 DEF VmInv, Open, Filling
  <2>5. CASE result = "Success"
    <3>1. TxEncodingSizeCriterion(tx) \in {"NoSeal", "IncludeAndSeal"}
      BY <2>1 DEF NothingExcluded
    <3>2. SlotsCriterion(tx) \in {"NoSeal", "IncludeAndSeal"}
      BY DEF SlotsCriterion
    <3>3. resolution \in {"NoSeal", "IncludeAndSeal"}
      BY <2>5, <3>1, <3>2 DEF process_one_tx, should_seal_l1_batch, Stricter
    <3> HIDE DEF resolution
    <3>4. PendingTxs' = PendingTxs \cup {tx}
      BY <2>1, <2>3, <3>3 DEF PendingTxs
    <3> QED BY <2>1, <2>4, <2>5, <3>4 DEF VmInv, WitnessMatchesBatch
  <2>6. CASE result = "RejectedByVm"
    <3>1. resolution = "Unexecutable"
      BY <2>6 DEF process_one_tx
    <3> HIDE DEF resolution
    <3>2. um' = um /\ vm' = vm
      BY <2>1, <2>6, <3>1
    <3>3. PendingTxs' = PendingTxs
      BY <3>2 DEF PendingTxs
    <3> QED BY <2>1, <2>4, <3>2, <3>3 DEF VmInv, WitnessMatchesBatch
  <2> QED BY <2>5, <2>6 DEF ExecutionResult
<1>8. CASE Reset
  <2>1. UNCHANGED <<l1_batches, object_store>> /\ pc' = "start"
    BY <1>8 DEF Reset, dbVars
  <2> QED BY <2>1 DEF VmInv, WitnessMatchesBatch, Open, Filling
<1>9. CASE StartFresh \/ CloseOnDeadline \/ MiniblockOnDeadline \/ NoDeadline \/ NoNextTx
           \/ SealLastMiniblock \/ SealMiniblock \/ NoBatchParams \/ SaveRootHash \/ Tick
           \/ ClockBack \/ (\E tx \in Tx : Arrive(tx)) \/ UNCHANGED vars
  <2>1. /\ UNCHANGED <<l1_batches, object_store, um>>
        /\ \/ UNCHANGED <<pc, vm>>
           \/ pc' \notin Open
           \/ pc \in Open /\ pc' # "seal" /\ UNCHANGED vm
    BY <1>9
       DEF StartFresh, CloseOnDeadline, MiniblockOnDeadline, NoDeadline, NoNextTx,
           SealLastMiniblock, SealMiniblock, NoBatchParams, SaveRootHash, Tick, ClockBack, Arrive,
           vars, dbVars, memVars, Open, Filling
  <2> QED BY <2>1, QuietVm
<1> QED BY <1>2, <1>3, <1>4, <1>5, <1>6, <1>7, <1>8, <1>9
        DEF Next, Step, ProcessUpgradeTx, Crash

\* The traces in the object store are those of the batch, through crashes and
\* restarts, in every behaviour in which the size criterion never excludes or
\* rejects a transaction that the VM has executed: that is the only way to
\* the mismatch.
THEOREM WitnessHolds == Spec /\ []NothingExcluded => []WitnessMatchesBatch
<1>1. Init => VmInv
  BY DEF Init, VmInv, WitnessMatchesBatch, Open, Filling
<1>2. StateInv /\ VmInv /\ NothingExcluded /\ [Next]_vars => VmInv'
  BY VmStep
<1>3. VmInv => WitnessMatchesBatch
  BY DEF VmInv
<1> QED BY <1>1, <1>2, <1>3, StateInvariant, PTL DEF Spec
=============================================================================
