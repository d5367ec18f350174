--------------------------- MODULE MCCredentialIssue ---------------------------
(* Instances of CredentialIssue for TLC. *)
EXTENDS CredentialIssue
================================================================================
