----------------------------- MODULE MCAgentReply -----------------------------
(* Instances of AgentReply for TLC. *)
EXTENDS AgentReply, TLC

\* Agents and events are interchangeable.
ReplySymmetry == Permutations(Agents) \cup Permutations(Calls)
================================================================================
