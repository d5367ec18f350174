----------------------------- MODULE MessageStream -----------------------------
(***************************************************************************)
(* A client that streams a conversation in batches, while messages are     *)
(* stored and purged.                                                      *)
(*                                                                         *)
(* Source: handleStreamMessages in conversations/agent-chat.gateway.ts,    *)
(* storeMessage and getConversation in agent-chat.service.ts.  A message   *)
(* is stamped before it is saved, so it may take a place before messages   *)
(* that were streamed already; two of one millisecond come in any order.   *)
(* One pass of one client is followed: the handler keeps nothing between   *)
(* two requests, so passes do not meet.                                    *)
(***************************************************************************)
EXTENDS Naturals, Sequences, SequencesExt

CONSTANTS
  Messages,  \* storeMessage calls, each named by the message it stores
  BatchSize, \* payload.batchSize, 10 unless the client says otherwise
  MaxTime,   \* bound: milliseconds that the clock shows
  MaxFaults  \* bound: stream requests that fail

ASSUME BatchIsPositive == BatchSize \in Nat \ {0}
ASSUME BoundsAreNat == MaxTime \in Nat \ {0} /\ MaxFaults \in Nat

VARIABLES
  clock,  \* new Date()
  stamp,  \* the timestamp of each message, NoStamp before it is taken
  saved,  \* messages ever saved ...
  purged, \* ... and those deleted by cleanupSessionMessages
  step,   \* where the pass is: waiting for the client, reading, emitting, done
  index,  \* startIndex of the current request, then nextStartIndex
  total,  \* conversation.length, as the request has read it
  batch,  \* formattedMessages that have not been emitted
  got,    \* what the client has received
  first,  \* history: the conversation at the first read of the pass
  faults  \* faults so far

vars == <<clock, stamp, saved, purged, step, index, total, batch, got, first, faults>>
store == <<clock, stamp, saved, purged>>
pass == <<step, index, total, batch, got, first, faults>>

NoStamp == 0
Times == 1..MaxTime

\* A message on the wire, with the conversation it was sliced from.
Items == [m : Messages, index : Nat, isLast : BOOLEAN, of : SUBSET Messages]

Init ==
  /\ clock = 1
  /\ stamp = [m \in Messages |-> NoStamp]
  /\ saved = {}
  /\ purged = {}
  /\ step = "client"
  /\ index = 0
  /\ total = 0
  /\ batch = <<>>
  /\ got = <<>>
  /\ first = {}
  /\ faults = 0

Conversation == saved \ purged

--------------------------------------------------------------------------------
(* Mutants: what the definitions below would be with a plausible bug. *)

\* Sorted: in the order in which the database finds them.
Unsorted(messages) == SetToSeqs(messages)

\* Complete: the next batch starts one message too far.
CompleteTooFar ==
  /\ step = "emit"
  /\ batch = <<>>
  /\ index' = index + BatchSize + 1
  /\ step' = IF index + BatchSize < total THEN "client" ELSE "done"
  /\ UNCHANGED <<store, total, batch, got, first, faults>>

\* Complete: a conversation that ends with the batch is taken for a longer one.
CompleteNotLast ==
  /\ step = "emit"
  /\ batch = <<>>
  /\ index' = index + BatchSize
  /\ step' = IF index + BatchSize <= total THEN "client" ELSE "done"
  /\ UNCHANGED <<store, total, batch, got, first, faults>>

\* ReadConversation: all that is left is sent, not a batch of it.
ReadRest ==
  /\ step = "read"
  /\ \E conversation \in SetToSeqs(Conversation) :
       batch' = [i \in 1..Len(conversation) - index |->
                   [m |-> conversation[index + i], index |-> index + i - 1,
                    isLast |-> index + i = Len(conversation), of |-> Conversation]]
  /\ total' = Cardinality(Conversation)
  /\ step' = "emit"
  /\ UNCHANGED <<store, index, got, first, faults>>

--------------------------------------------------------------------------------
(* Messages come and go. *)

Tick ==
  /\ clock < MaxTime
  /\ clock' = clock + 1
  /\ UNCHANGED <<stamp, saved, purged, pass>>

\* storeMessage builds the document ...
StampMessage(m) ==
  /\ stamp[m] = NoStamp
  /\ stamp' = [stamp EXCEPT ![m] = clock]
  /\ UNCHANGED <<clock, saved, purged, pass>>

\* ... and the database inserts it, after others that were stamped later.
SaveMessage(m) ==
  /\ stamp[m] # NoStamp
  /\ m \notin saved
  /\ saved' = saved \cup {m}
  /\ UNCHANGED <<clock, stamp, purged, pass>>

CleanupSessionMessages ==
  /\ Conversation # {}
  /\ purged' = saved
  /\ UNCHANGED <<clock, stamp, saved, pass>>

--------------------------------------------------------------------------------
(* 'stream-conversation-messages' *)

\* The client asks for the next batch.
Ask ==
  /\ step = "client"
  /\ step' = "read"
  /\ UNCHANGED <<store, index, total, batch, got, first, faults>>

\* sort({ timestamp: 1 }): equal timestamps come in any order, another one each time.
Sorted(messages) ==
  {s \in SetToSeqs(messages) :
     \A i, j \in DOMAIN s : i < j => stamp[s[i]] <= stamp[s[j]]}

\* The whole conversation is read and sliced.
ReadConversation ==
  /\ step = "read"
  /\ \E conversation \in Sorted(Conversation) :
       LET Item(i) == [m |-> conversation[i], index |-> i - 1,
                       isLast |-> i = Len(conversation), of |-> Conversation]
           items == [i \in DOMAIN conversation |-> Item(i)]
       IN batch' = SubSeq(items, index + 1, Min({index + BatchSize, Len(items)}))
  /\ total' = Cardinality(Conversation)
  /\ first' = IF index = 0 THEN Conversation ELSE first
  /\ step' = "emit"
  /\ UNCHANGED <<store, index, got, faults>>

\* Messages leave one by one, a tenth of a second apart.
Emit ==
  /\ step = "emit"
  /\ batch # <<>>
  /\ got' = Append(got, Head(batch))
  /\ batch' = Tail(batch)
  /\ UNCHANGED <<store, step, index, total, first, faults>>

\* message-stream-complete: hasMore is about the conversation that was read, and
\* nextStartIndex about a full batch.  The client goes on while there is more.
Complete ==
  /\ step = "emit"
  /\ batch = <<>>
  /\ index' = index + BatchSize
  /\ step' = IF index + BatchSize < total THEN "client" ELSE "done"
  /\ UNCHANGED <<store, total, batch, got, first, faults>>

\* STREAM_ERROR: the client asks again.
StreamError ==
  /\ step = "read"
  /\ faults < MaxFaults
  /\ faults' = faults + 1
  /\ step' = "client"
  /\ UNCHANGED <<store, index, total, batch, got, first>>

--------------------------------------------------------------------------------
StreamStep == Ask \/ ReadConversation \/ Emit \/ Complete

Next ==
  \/ Tick
  \/ \E m \in Messages : StampMessage(m) \/ SaveMessage(m)
  \/ CleanupSessionMessages
  \/ StreamStep
  \/ StreamError

Spec == Init /\ [][Next]_vars

--------------------------------------------------------------------------------
(* Properties. *)

\* Times, sets and sequences keep their ranges.
TypeOK ==
  /\ clock \in Times
  /\ stamp \in [Messages -> Times \cup {NoStamp}]
  /\ \A m \in saved : stamp[m] # NoStamp
  /\ saved \subseteq Messages /\ purged \subseteq saved
  /\ step \in {"client", "read", "emit", "done"}
  /\ index \in Nat /\ total \in Nat
  /\ batch \in Seq(Items) /\ Len(batch) <= BatchSize
  /\ got \in Seq(Items)
  /\ first \subseteq saved
  /\ faults \in 0..MaxFaults

SameTime(m, n) == m # n /\ stamp[m] = stamp[n]

\* "Next batch start index": a client that goes on from it receives a message twice
\* only if one that is not younger was saved in between, or stamped with it.
RepeatsExplained ==
  \A i, j \in DOMAIN got :
    i < j /\ got[i].m = got[j].m =>
      \E n \in got[j].of \ {got[i].m} :
        \/ n \notin got[i].of /\ stamp[n] < stamp[got[i].m]
        \/ SameTime(n, got[i].m)

\* "More messages available": a pass that ends without more has delivered every
\* message that was there when it began, unless it was purged meanwhile or has the
\* timestamp of another.
NothingSkipped ==
  step = "done" =>
    \A m \in first \ purged :
      \/ \E i \in DOMAIN got : got[i].m = m
      \/ \E n \in saved : SameTime(n, m)

\* "Is this the final message": nothing follows a message that says so, and the
\* places that messages claim only ever grow.
LastEndsPass ==
  \A i, j \in DOMAIN got : i < j => ~got[i].isLast /\ got[i].index < got[j].index

================================================================================
