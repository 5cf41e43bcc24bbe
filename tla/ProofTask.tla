------------------------------ MODULE ProofTask ------------------------------
(***************************************************************************)
(* What the server is promised about the proofs of its batches, whoever    *)
(* computes them and however often work is handed out, lost or repeated:   *)
(* a batch is wanted from the moment it is entered; at some point a proof  *)
(* of it exists; only then is it settled as generated; it may be settled   *)
(* as skipped instead, but only while nobody has proved it; and a settled  *)
(* batch stays as it is.                                                   *)
(***************************************************************************)
EXTENDS Naturals

CONSTANT Batches

VARIABLES
    state,      \* what the server knows of each batch
    proved      \* the batches a proof exists of

vars == <<state, proved>>

Init ==
    /\ state = [b \in Batches |-> "absent"]
    /\ proved = {}

Enter(b) ==
    /\ state[b] = "absent"
    /\ \A a \in Batches : a < b => state[a] # "absent"
    /\ state' = [state EXCEPT ![b] = "wanted"]
    /\ UNCHANGED proved

Prove(b) ==
    /\ state[b] = "wanted"
    /\ proved' = proved \union {b}
    /\ UNCHANGED state

Settle(b) ==
    /\ state[b] = "wanted"
    /\ \/ /\ b \in proved
          /\ state' = [state EXCEPT ![b] = "generated"]
       \/ /\ b \notin proved
          /\ state' = [state EXCEPT ![b] = "skipped"]
    /\ UNCHANGED proved

Next == \E b \in Batches : Enter(b) \/ Prove(b) \/ Settle(b)

Spec == Init /\ [][Next]_vars
=============================================================================
