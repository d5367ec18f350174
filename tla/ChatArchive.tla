------------------------------ MODULE ChatArchive ------------------------------
(***************************************************************************)
(* What the agent-chat archive promises, without its calls, reads and      *)
(* retries: accepted messages stay live until one archive of live messages *)
(* has been made and marked; texts of no other are published; success      *)
(* is confirmed only once it exists.  ChatSession implements this module.  *)
(***************************************************************************)
CONSTANT Messages

VARIABLES
  accepted,  \* messages ever accepted
  live,      \* accepted messages still in the collection
  archives,  \* the conversation archived, if any: at most one
  marked,    \* the session document says there is a transcript
  ledger,    \* the conversations a text has been published of, in any words
  published, \* the transcript document says it is published
  confirmed  \* some caller has been told success

vars == <<accepted, live, archives, marked, ledger, published, confirmed>>

Init ==
  /\ accepted = {}
  /\ live = {}
  /\ archives = {}
  /\ marked = FALSE
  /\ ledger = {}
  /\ published = FALSE
  /\ confirmed = FALSE

\* A new message is live.
Accept(m) ==
  /\ m \notin accepted
  /\ accepted' = accepted \cup {m}
  /\ live' = live \cup {m}
  /\ UNCHANGED <<archives, marked, ledger, published, confirmed>>

\* The archive is made once, from messages none of which has been deleted.
Archive(conversation) ==
  /\ archives = {}
  /\ conversation # {}
  /\ conversation \subseteq live
  /\ archives' = {conversation}
  /\ UNCHANGED <<accepted, live, marked, ledger, published, confirmed>>

\* A retry that gives up after this confirms at once.
Publish ==
  /\ archives # {}
  /\ ledger' = ledger \cup archives
  /\ confirmed' \in {confirmed, TRUE}
  /\ UNCHANGED <<accepted, live, archives, marked, published>>

\* The flag may be raised only for what is on the ledger, and may be lost.
Flag(value) ==
  /\ archives # {}
  /\ value => archives \subseteq ledger
  /\ published' = value
  /\ confirmed' \in {confirmed, TRUE}
  /\ UNCHANGED <<accepted, live, archives, marked, ledger>>

Mark ==
  /\ archives # {}
  /\ marked' = TRUE
  /\ UNCHANGED <<accepted, live, archives, ledger, published, confirmed>>

Purge ==
  /\ marked
  /\ live' = {}
  /\ confirmed' = TRUE
  /\ UNCHANGED <<accepted, archives, marked, ledger, published>>

Confirm ==
  /\ archives # {}
  /\ confirmed' = TRUE
  /\ UNCHANGED <<accepted, live, archives, marked, ledger, published>>

Next ==
  \/ \E m \in Messages : Accept(m)
  \/ \E conversation \in SUBSET Messages : Archive(conversation)
  \/ Publish
  \/ \E value \in BOOLEAN : Flag(value)
  \/ Mark
  \/ Purge
  \/ Confirm

Spec == Init /\ [][Next]_vars
================================================================================
