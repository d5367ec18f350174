------------------------- MODULE MCAccountProvisioning -------------------------
(* Instances of AccountProvisioning for TLC. *)
EXTENDS AccountProvisioning, TLC

\* Requests are interchangeable.
CallSymmetry == Permutations(Calls)
================================================================================
