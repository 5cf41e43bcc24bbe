--------------------------- MODULE MCStateStorage ---------------------------
(* An instance of the storage tables for TLC. *)
EXTENDS StateStorage

CONSTANTS d0, d1

Read(k) == [key |-> k, rw |-> FALSE, value |-> 0]
Write(k, v) == [key |-> k, rw |-> TRUE, value |-> v]

\* A first write, and one that is undone at once, in a deployment; a reset
\* after a read, and another first write.
MCTxs ==
    {[ops |-> <<Write(2, 1), Write(1, 2), Write(1, 0)>>, deps |-> {d0, d1}],
     [ops |-> <<Read(2), Write(2, 0), Write(3, 1)>>, deps |-> {}]}

MCTips == {<<Write(1, 2)>>}
MCGenesisOps == <<Write(1, 1)>>
MCGenesisDeps == {d0}
MCValues == 0 .. 2
=============================================================================
