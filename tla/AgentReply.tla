------------------------------ MODULE AgentReply ------------------------------
(***************************************************************************)
(* Messages and AI replies of the two agents of one session: a user speaks *)
(* for an agent and may trigger the other one's AI, or a client triggers   *)
(* an agent's AI directly.                                                  *)
(*                                                                         *)
(* Source: conversations/agent-chat.gateway.ts, agent-ai.service.ts and    *)
(* storeMessage in agent-chat.service.ts.  A message is what decides about *)
(* replies: who sent it, when, and what it answers.                         *)
(***************************************************************************)
EXTENDS Naturals

CONSTANTS
  Agents,    \* the two agents of the session
  Calls,     \* socket events
  NoMessage, \* stands for the last message of an empty conversation
  MaxTime,   \* bound: the last millisecond
  MaxFaults  \* bound: database errors plus crashes

\* An event stores what its user says, or a reply, or first the one and then the other.
Ids == Calls \X {"said", "reply"}

ASSUME TwoAgents == \E a, b \in Agents : a # b /\ Agents = {a, b}
ASSUME NoMessageIsNone == NoMessage \notin Ids
ASSUME BoundsAreNat == MaxTime \in Nat /\ MaxFaults \in Nat

VARIABLES
  status,   \* of the session document
  clock,    \* new Date(): milliseconds, in which several messages may be stored
  messages, \* every SessionMessage that was stored
  purged,   \* those that were deleted with the transcript's submission
  call,     \* what an event is, where its handler is and what it has read
  faults    \* faults so far

vars == <<status, clock, messages, purged, call, faults>>

Other(a) == CHOOSE b \in Agents : b # a

\* "fallback" is what generateResponse returns when it fails.  "basis" is the last
\* message of the conversation that a reply was made from, and "cause" the message
\* whose sender asked for the reply.
Made == {"byUser", "byAI", "fallback"}
Messages == [id: Ids, timestamp: 0..MaxTime, from: Agents, made: Made,
             basis: Ids \cup {NoMessage}, cause: Ids \cup {NoMessage}]

Steps == {"check", "save", "announce", "timer", "read", "generate", "done", "failed"}
NoCall == [step |-> "none"]
CallData == [step: Steps, agent: Agents, made: Made, trigger: BOOLEAN, timestamp: 0..MaxTime,
             basis: Ids \cup {NoMessage}, cause: Ids \cup {NoMessage}]

Init ==
  /\ status = "active"
  /\ clock = 0
  /\ messages = {}
  /\ purged = {}
  /\ call = [r \in Calls |-> NoCall]
  /\ faults = 0

At(r, step) == call[r].step = step
Go(r, from, to) == At(r, from) /\ call' = [call EXCEPT ![r].step = to]
Running == {r \in Calls : call[r].step \notin {"none", "done", "failed"}}

\* The message that an event is about to store, or has stored last.
MessageOf(r) == <<r, IF call[r].made = "byUser" THEN "said" ELSE "reply">>

\* getConversation sorts by timestamp and by nothing else: of several messages of the
\* newest millisecond any may come last.
Stored == {m \in messages : m.id \notin purged}
LastMessages ==
  IF Stored = {} THEN {NoMessage}
  ELSE {m.id : m \in {n \in Stored : \A o \in Stored : o.timestamp <= n.timestamp}}

SentBy(id, a) == \E m \in messages : m.id = id /\ m.from = a

--------------------------------------------------------------------------------
(* Mutants: what the actions below would be with a plausible bug. *)

\* ReadConversation: the check for the agent's own message is left out.
ReadWithoutLoopCheck(r) ==
  /\ At(r, "read")
  /\ \E last \in LastMessages :
       call' = [call EXCEPT ![r].step = "generate", ![r].basis = last]
  /\ UNCHANGED <<status, clock, messages, purged, faults>>

\* CheckSession: the timer is set before the message has been stored.
CheckAndSetTimer(r) ==
  /\ At(r, "check")
  /\ call' = IF status = "active"
             THEN [call EXCEPT ![r].step = IF call[r].trigger THEN "timer" ELSE "save",
                               ![r].timestamp = clock]
             ELSE [call EXCEPT ![r].step = "failed"]
  /\ UNCHANGED <<status, clock, messages, purged, faults>>

\* Generate: an error of the AI is not caught.
GenerateOrReject(r) ==
  /\ At(r, "generate")
  /\ \E step \in {"check", "failed"} :
       call' = [call EXCEPT ![r].step = step, ![r].made = "byAI"]
  /\ UNCHANGED <<status, clock, messages, purged, faults>>

\* TimerFires: the reply that was asked for asks the first agent for one in turn.
TimerFiresAgain(r) ==
  /\ At(r, "timer")
  /\ call' = [call EXCEPT ![r].step = IF status = "active" THEN "read" ELSE "failed",
                          ![r].agent = Other(@), ![r].made = "fallback",
                          ![r].cause = MessageOf(r)]
  /\ UNCHANGED <<status, clock, messages, purged, faults>>

--------------------------------------------------------------------------------
(* The events.  The session is read and found active in both. *)

\* 'user-send-message-on-behalf', with or without triggerAI
SendOnBehalf(r, a, trigger) ==
  /\ call[r] = NoCall
  /\ status = "active"
  /\ call' = [call EXCEPT ![r] =
       [step |-> "check", agent |-> a, made |-> "byUser", trigger |-> trigger,
        timestamp |-> 0, basis |-> NoMessage, cause |-> NoMessage]]
  /\ UNCHANGED <<status, clock, messages, purged, faults>>

\* 'trigger-ai-response'
TriggerAI(r, a) ==
  /\ call[r] = NoCall
  /\ status = "active"
  /\ call' = [call EXCEPT ![r] =
       [step |-> "read", agent |-> a, made |-> "fallback", trigger |-> FALSE,
        timestamp |-> 0, basis |-> NoMessage, cause |-> NoMessage]]
  /\ UNCHANGED <<status, clock, messages, purged, faults>>

\* setTimeout(handleTriggerAI, 500) for the other agent; how long it takes is left open.
TimerFires(r) ==
  /\ At(r, "timer")
  /\ call' = [call EXCEPT ![r].step = IF status = "active" THEN "read" ELSE "failed",
                          ![r].agent = Other(@), ![r].made = "fallback",
                          ![r].trigger = FALSE, ![r].cause = MessageOf(r)]
  /\ UNCHANGED <<status, clock, messages, purged, faults>>

--------------------------------------------------------------------------------
(* generateResponse *)

\* An agent is not to answer its own message: the check throws, the catch around it
\* makes a fallback answer.
ReadConversation(r) ==
  /\ At(r, "read")
  /\ \E last \in LastMessages :
       call' = [call EXCEPT ![r].step = IF SentBy(last, call[r].agent)
                                        THEN "check" ELSE "generate",
                            ![r].basis = last]
  /\ UNCHANGED <<status, clock, messages, purged, faults>>

\* The profile and the model: an error of either gives the fallback answer too.
Generate(r) ==
  /\ At(r, "generate")
  /\ \E made \in {"byAI", "fallback"} :
       call' = [call EXCEPT ![r].step = "check", ![r].made = made]
  /\ UNCHANGED <<status, clock, messages, purged, faults>>

--------------------------------------------------------------------------------
(* storeMessage and the broadcast after it *)

\* The session is looked up; the message gets its timestamp in the same turn.
CheckSession(r) ==
  /\ At(r, "check")
  /\ call' = IF status = "active"
             THEN [call EXCEPT ![r].step = "save", ![r].timestamp = clock]
             ELSE [call EXCEPT ![r].step = "failed"]
  /\ UNCHANGED <<status, clock, messages, purged, faults>>

SaveMessage(r) ==
  /\ Go(r, "save", "announce")
  /\ messages' = messages \cup
       {[id |-> MessageOf(r), timestamp |-> call[r].timestamp, from |-> call[r].agent,
         made |-> call[r].made, basis |-> call[r].basis, cause |-> call[r].cause]}
  /\ UNCHANGED <<status, clock, purged, faults>>

\* 'new-message' or 'ai-response-generated', after the counter has been updated
Announce(r) ==
  /\ Go(r, "announce", IF call[r].trigger THEN "timer" ELSE "done")
  /\ UNCHANGED <<status, clock, messages, purged, faults>>

--------------------------------------------------------------------------------
Tick ==
  /\ clock < MaxTime
  /\ clock' = clock + 1
  /\ UNCHANGED <<status, messages, purged, call, faults>>

EndSession ==
  /\ status = "active"
  /\ status' = "ended"
  /\ UNCHANGED <<clock, messages, purged, call, faults>>

\* cleanupSessionMessages, once: a second transcript of the session is not inserted.
\* The session may still be active.
Cleanup ==
  /\ purged = {}
  /\ Stored # {}
  /\ purged' = {m.id : m \in Stored}
  /\ UNCHANGED <<status, clock, messages, call, faults>>

\* A database operation fails and with it the event; a timer waits for none.
CallFails(r) ==
  /\ faults < MaxFaults
  /\ faults' = faults + 1
  /\ r \in Running /\ ~At(r, "timer")
  /\ call' = [call EXCEPT ![r].step = "failed"]
  /\ UNCHANGED <<status, clock, messages, purged>>

\* The process stops: events in progress and timers are lost.
Crash ==
  /\ faults < MaxFaults
  /\ faults' = faults + 1
  /\ Running # {}
  /\ call' = [r \in Calls |-> IF r \in Running THEN [call[r] EXCEPT !.step = "failed"]
                              ELSE call[r]]
  /\ UNCHANGED <<status, clock, messages, purged>>

Step(r) ==
  \/ TimerFires(r) \/ ReadConversation(r) \/ Generate(r)
  \/ CheckSession(r) \/ SaveMessage(r) \/ Announce(r)

Next ==
  \/ \E r \in Calls, a \in Agents, t \in BOOLEAN : SendOnBehalf(r, a, t)
  \/ \E r \in Calls, a \in Agents : TriggerAI(r, a)
  \/ \E r \in Calls : Step(r) \/ CallFails(r)
  \/ Tick
  \/ EndSession
  \/ Cleanup
  \/ Crash

Spec == Init /\ [][Next]_vars

\* Handlers go on, timers fire, and the model answers or its client times out.
FairSpec == Spec /\ \A r \in Calls : WF_vars(Step(r))

--------------------------------------------------------------------------------
(* Properties. *)

\* Messages and handlers keep their shapes; an event stores one message for its user
\* and one reply at most, which asks for no other.
TypeOK ==
  /\ status \in {"active", "ended"}
  /\ clock \in 0..MaxTime
  /\ messages \subseteq Messages
  /\ \A m, n \in messages : m.id = n.id => m = n
  /\ purged \subseteq {m.id : m \in messages}
  /\ call \in [Calls -> CallData \cup {NoCall}]
  /\ faults \in 0..MaxFaults

\* What the model wrote was written for a conversation in which the other agent had
\* the last word, however the messages of both interleave and even if several are of
\* one millisecond.  (A fallback text may answer the agent's own message.)
RepliesAnswerTheOther ==
  \A m \in messages :
    m.made = "byAI" => m.basis = NoMessage \/ SentBy(m.basis, Other(m.from))

\* A reply that a message asked for is the other agent's, and was made from a
\* conversation that had come to that message, unless it has been deleted since.
NotOlder(id, than) ==
  \E m, n \in messages : m.id = id /\ n.id = than /\ n.timestamp <= m.timestamp

TriggeredReplyHasReadItsCause ==
  \A m \in messages :
    m.cause # NoMessage => /\ SentBy(m.cause, Other(m.from))
                           /\ NotOlder(m.basis, m.cause) \/ m.cause \in purged

\* Every reply that was asked for is stored and shown, be it a fallback, unless the
\* session ends or a fault comes in between.
AskedReplyArrives ==
  \A r \in Calls :
    call[r].step \in {"timer", "read"} ~>
      \/ At(r, "done") /\ \E m \in messages : m.id = <<r, "reply">>
      \/ status = "ended"
      \/ faults > 0

\* "AI skipped (loop prevention)": an agent whose message is the last one does not
\* answer it.
OwnMessageIsSkipped ==
  \A m \in messages : m.made # "byUser" /\ m.basis # NoMessage => ~SentBy(m.basis, m.from)

================================================================================
