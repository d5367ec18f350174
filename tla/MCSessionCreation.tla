--------------------------- MODULE MCSessionCreation ---------------------------
(* Instances of SessionCreation for TLC. *)
EXTENDS SessionCreation, TLC

\* Agents and requests are interchangeable.
CreationSymmetry == Permutations(Agents) \cup Permutations(Calls)
================================================================================
