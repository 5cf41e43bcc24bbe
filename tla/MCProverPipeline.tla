-------------------------- MODULE MCProverPipeline --------------------------
(* Instances of the prover pipeline for TLC. *)
EXTENDS ProverPipeline

CONSTANTS g1, p1, p2

OneGenerator == {g1}
TwoProvers == {p1, p2}
OneProver == {p1}
=============================================================================
