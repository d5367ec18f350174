---------------------------- MODULE MCMessageStream ----------------------------
(* Instances of MessageStream for TLC. *)
EXTENDS MessageStream, TLC

MessageSymmetry == Permutations(Messages)
================================================================================
