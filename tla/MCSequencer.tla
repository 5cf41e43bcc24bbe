---------------------------- MODULE MCSequencer ----------------------------
(* Transactions for the runs of Sequencer. *)
EXTENDS Sequencer

Small(i) == [id |-> i, size |-> 1]
Large(i) == [id |-> i, size |-> 3]

ThreeSmall == {Small(1), Small(2), Small(3)}
Mixed == {Small(1), Small(2), Large(3)}
=============================================================================
