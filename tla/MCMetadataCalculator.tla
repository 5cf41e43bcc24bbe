------------------------ MODULE MCMetadataCalculator ------------------------
(* A tree with four leaves; the genesis batch writes two of them. *)
EXTENDS MetadataCalculator

TwoWrites == <<[key |-> 2, value |-> 1], [key |-> 1, value |-> 1]>>
=============================================================================
