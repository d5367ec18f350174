----------------------------- MODULE MCAuthTokens -----------------------------
(* Instances of AuthTokens for TLC. *)
EXTENDS AuthTokens, TLC

\* One email for all: whoever registers first has it.
SameEmail(a, b) == TRUE

AuthSymmetry == Permutations(Accounts) \cup Permutations(Clients) \cup Permutations(Requests)
================================================================================
