----------------------------- MODULE MCChatSession -----------------------------
(* Instances of ChatSession for TLC. *)
EXTENDS ChatSession, TLC

\* Writers differ in nothing but their message: any renaming of them is sound
\* for the invariants and the action property.
WriterSymmetry == Permutations(Writers)
================================================================================
