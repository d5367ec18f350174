--------------------------- MODULE AgentReplyProofs ---------------------------
(***************************************************************************)
(* Theorems of AgentReply for two agents and any events, clock and number  *)
(* of faults.                                                              *)
(***************************************************************************)
EXTENDS AgentReply, TLAPS

Told(id) == \E m \in messages : m.id = id

\* Only the event of a user sets a timer, and it answers nothing.
TimerFits(r) ==
  /\ call[r].step = "timer" => call[r].trigger
  /\ call[r].trigger => call[r].made = "byUser"
  /\ call[r].made = "byUser" => call[r].cause = NoMessage

\* What an event is about to store has not been stored yet, nor has its reply while it
\* is still its user's.
Fresh(r) ==
  /\ call[r].step \in {"read", "generate", "check", "save"} => ~Told(MessageOf(r))
  /\ call[r].made = "byUser" => ~Told(<<r, "reply">>)

\* A message that is announced or has a timer set has been stored.
Spoken(r) == call[r].step \in {"announce", "timer"} => SentBy(MessageOf(r), call[r].agent)

\* What the model is asked to write, or has written, answers the other agent.
Answers(r) ==
  /\ call[r].step \in {"read", "generate"} => call[r].made = "fallback"
  /\ call[r].step = "generate" \/ call[r].made = "byAI" =>
       call[r].basis = NoMessage \/ SentBy(call[r].basis, Other(call[r].agent))

\* A reply that was asked for is made from a conversation read after the message.
HasReadCause(r) ==
  call[r].cause # NoMessage =>
    /\ SentBy(call[r].cause, Other(call[r].agent))
    /\ call[r].step \in {"generate", "check", "save", "announce", "done"} =>
         NotOlder(call[r].basis, call[r].cause) \/ call[r].cause \in purged

CallInv(r) == TimerFits(r) /\ Fresh(r) /\ Spoken(r) /\ Answers(r) /\ HasReadCause(r)

ReplyInv ==
  /\ TypeOK
  /\ \A r \in Calls : IF call[r] = NoCall THEN ~Told(<<r, "said">>) /\ ~Told(<<r, "reply">>)
                                          ELSE CallInv(r)
  /\ RepliesAnswerTheOther
  /\ TriggeredReplyHasReadItsCause

--------------------------------------------------------------------------------
(* Facts about the operators of AgentReply. *)

LEMMA NoCallIsNone == NoCall \notin CallData /\ NoCall.step = "none"
<1>1. ASSUME NoCall \in CallData PROVE FALSE
  <2>1. NoCall.step \in Steps
    BY <1>1 DEF CallData
  <2>2. QED
    BY <2>1 DEF NoCall, Steps
<1>2. QED
  BY <1>1 DEF NoCall

LEMMA OtherAgent ==
  ASSUME NEW a \in Agents
  PROVE  /\ Other(a) \in Agents /\ Other(a) # a /\ Other(Other(a)) = a
         /\ \A b \in Agents : b # a => b = Other(a)
<1>1. PICK x, y \in Agents : x # y /\ Agents = {x, y}
  BY TwoAgents
<1>2. \A z \in Agents : Other(z) \in Agents /\ Other(z) # z
  <2>1. SUFFICES ASSUME NEW z \in Agents PROVE Other(z) \in Agents /\ Other(z) # z
    OBVIOUS
  <2>2. \E b \in Agents : b # z
    BY <1>1
  <2>3. QED
    BY <2>2 DEF Other
<1>3. \A z, b \in Agents : b # z => b = Other(z)
  BY <1>1, <1>2
<1>4. QED
  BY <1>2, <1>3

\* A last message is stored and no stored one is newer; none is last in an empty
\* conversation.
LEMMA LastIsNewest ==
  ASSUME NEW last \in LastMessages
  PROVE  IF Stored = {} THEN last = NoMessage
         ELSE \E m \in Stored : m.id = last /\ \A o \in Stored : o.timestamp <= m.timestamp
<1>1. CASE Stored = {}
  BY <1>1 DEF LastMessages
<1>2. CASE Stored # {}
  BY <1>2 DEF LastMessages
<1>3. QED
  BY <1>1, <1>2

\* Messages are never changed: what an agent has said stays said, and as old as it is.
LEMMA SaidStaysSaid ==
  ASSUME messages \subseteq messages'
  PROVE  /\ \A i, a : SentBy(i, a) => SentBy(i, a)'
         /\ \A i, j : NotOlder(i, j) => NotOlder(i, j)'
BY DEF SentBy, NotOlder

LEMMA SameMessages ==
  ASSUME messages' = messages
  PROVE  /\ \A i, a : SentBy(i, a)' = SentBy(i, a)
         /\ \A i, j : NotOlder(i, j)' = NotOlder(i, j)
         /\ \A i : Told(i)' = Told(i)
BY DEF SentBy, NotOlder, Told

LEMMA ReplyInvInit == Init => ReplyInv
<1> SUFFICES ASSUME Init PROVE ReplyInv
  OBVIOUS
<1>1. TypeOK
  BY BoundsAreNat DEF Init, TypeOK
<1>2. \A r \in Calls : call[r] = NoCall /\ \A i : ~Told(i)
  BY DEF Init, Told
<1>3. QED
  BY <1>1, <1>2 DEF Init, ReplyInv, RepliesAnswerTheOther, TriggeredReplyHasReadItsCause

--------------------------------------------------------------------------------
(* The steps, by what they change. *)

\* What holds of an event stays so while its record and its own messages do.
LEMMA OthersKeep ==
  ASSUME ReplyInv, NEW q \in Calls, call'[q] = call[q],
         messages \subseteq messages', purged \subseteq purged',
         \A k \in {"said", "reply"} : Told(<<q, k>>)' => Told(<<q, k>>)
  PROVE  IF call'[q] = NoCall THEN ~Told(<<q, "said">>)' /\ ~Told(<<q, "reply">>)'
                              ELSE CallInv(q)'
<1>1. CASE call[q] = NoCall
  BY <1>1 DEF ReplyInv
<1>2. CASE call[q] # NoCall
  <2>1. CallInv(q)
    BY <1>2 DEF ReplyInv
  <2>2. TimerFits(q)'
    BY <2>1 DEF CallInv, TimerFits
  <2>3. Fresh(q)'
    <3>1. MessageOf(q)' = MessageOf(q) /\ MessageOf(q) \in {<<q, "said">>, <<q, "reply">>}
      BY DEF MessageOf
    <3>2. Told(MessageOf(q))' => Told(MessageOf(q))
      BY <3>1
    <3>3. QED
      BY <2>1, <3>2 DEF CallInv, Fresh
  <2>4. Spoken(q)' /\ Answers(q)'
    BY <2>1, SaidStaysSaid DEF CallInv, Spoken, Answers, MessageOf
  <2>5. HasReadCause(q)'
    BY <2>1, SaidStaysSaid DEF CallInv, HasReadCause
  <2>6. QED
    BY <1>2, <2>2, <2>3, <2>4, <2>5 DEF CallInv
<1>3. QED
  BY <1>1, <1>2

\* An event starts or goes on, and stores nothing.
LEMMA MoveKeeps ==
  ASSUME ReplyInv, NEW r \in Calls, NEW d \in CallData,
         call' = [call EXCEPT ![r] = d],
         UNCHANGED <<status, clock, messages, purged>>, faults' \in 0..MaxFaults,
         CallInv(r)'
  PROVE  ReplyInv'
<1>1. TypeOK'
  BY DEF ReplyInv, TypeOK
<1>2. \A q \in Calls : call'[q] = IF q = r THEN d ELSE call[q]
  BY DEF ReplyInv, TypeOK
<1>3. \A i : Told(i)' = Told(i)
  BY SameMessages
<1>4. ASSUME NEW q \in Calls
      PROVE  IF call'[q] = NoCall THEN ~Told(<<q, "said">>)' /\ ~Told(<<q, "reply">>)'
                                  ELSE CallInv(q)'
  <2>1. CASE q = r
    BY <1>2, <2>1, NoCallIsNone
  <2>2. CASE q # r
    BY <1>2, <1>3, <2>2, OthersKeep
  <2>3. QED
    BY <2>1, <2>2
<1>5. RepliesAnswerTheOther' /\ TriggeredReplyHasReadItsCause'
  BY SaidStaysSaid DEF ReplyInv, RepliesAnswerTheOther, TriggeredReplyHasReadItsCause
<1>6. QED
  BY <1>1, <1>4, <1>5 DEF ReplyInv

LEMMA StartKeepsInv ==
  ASSUME ReplyInv, NEW r \in Calls, NEW a \in Agents,
         (\E t \in BOOLEAN : SendOnBehalf(r, a, t)) \/ TriggerAI(r, a)
  PROVE  ReplyInv'
<1>1. PICK step \in {"check", "read"}, made \in {"byUser", "fallback"}, t \in BOOLEAN :
        /\ step = "read" => made = "fallback"
        /\ t => made = "byUser"
        /\ call' = [call EXCEPT ![r] =
             [step |-> step, agent |-> a, made |-> made, trigger |-> t,
              timestamp |-> 0, basis |-> NoMessage, cause |-> NoMessage]]
  BY DEF SendOnBehalf, TriggerAI
<1> DEFINE d == [step |-> step, agent |-> a, made |-> made, trigger |-> t,
                 timestamp |-> 0, basis |-> NoMessage, cause |-> NoMessage]
<1>2. d \in CallData
  BY BoundsAreNat DEF CallData, Steps, Made
<1>3. call'[r] = d /\ call' = [call EXCEPT ![r] = d]
  BY <1>1 DEF ReplyInv, TypeOK
<1>4. call[r] = NoCall /\ UNCHANGED <<status, clock, messages, purged, faults>>
  BY DEF SendOnBehalf, TriggerAI
<1>5. /\ d.step = step /\ d.agent = a /\ d.made = made /\ d.trigger = t
      /\ d.basis = NoMessage /\ d.cause = NoMessage /\ faults' \in 0..MaxFaults
  BY <1>4 DEF ReplyInv, TypeOK
<1> HIDE DEF d
<1>6. ~Told(<<r, "said">>)' /\ ~Told(<<r, "reply">>)'
  BY <1>4, SameMessages DEF ReplyInv
<1>7. Fresh(r)'
  BY <1>6 DEF Fresh, MessageOf
<1>8. TimerFits(r)' /\ Spoken(r)' /\ Answers(r)' /\ HasReadCause(r)'
  BY <1>1, <1>3, <1>5 DEF TimerFits, Spoken, Answers, HasReadCause
<1>9. QED
  BY <1>2, <1>3, <1>4, <1>5, <1>7, <1>8, MoveKeeps DEF CallInv

\* The timer hands the event to the other agent, whose message is to answer this one.
LEMMA TimerKeepsInv ==
  ASSUME ReplyInv, NEW r \in Calls, TimerFires(r)
  PROVE  ReplyInv'
<1>1. call[r] \in CallData /\ call[r] # NoCall /\ call[r].step = "timer"
  BY NoCallIsNone DEF TimerFires, At, ReplyInv, TypeOK
<1> DEFINE said == <<r, "said">>
           d == [call[r] EXCEPT !.step = IF status = "active" THEN "read" ELSE "failed",
                   !.agent = Other(@), !.made = "fallback", !.trigger = FALSE,
                   !.cause = MessageOf(r)]
<1>2. CallInv(r)
  BY <1>1 DEF ReplyInv
<1>3. call[r].made = "byUser" /\ MessageOf(r) = said
  BY <1>1, <1>2 DEF CallInv, TimerFits, MessageOf
<1>4. /\ call[r].agent \in Agents /\ Other(call[r].agent) \in Agents
      /\ Other(Other(call[r].agent)) = call[r].agent
  BY <1>1, OtherAgent DEF CallData
<1>5. /\ d \in CallData /\ d.step \in {"read", "failed"} /\ d.made = "fallback" /\ ~d.trigger
      /\ d.agent = Other(call[r].agent) /\ d.cause = said
  <2>1. said \in Ids
    BY DEF Ids
  <2>2. QED
    BY <1>1, <1>3, <1>4, <2>1 DEF CallData, Steps, Made
<1>6. call' = [call EXCEPT ![r] = d]
  BY DEF TimerFires
<1> HIDE DEF d
<1>7. call'[r] = d
  BY <1>6 DEF ReplyInv, TypeOK
<1>8. UNCHANGED <<status, clock, messages, purged, faults>>
  BY DEF TimerFires
<1>9. \A a : a = call[r].agent => SentBy(said, a)'
  BY <1>1, <1>2, <1>3, <1>8, SameMessages DEF CallInv, Spoken
<1>10. ~Told(<<r, "reply">>)'
  BY <1>2, <1>3, <1>8, SameMessages DEF CallInv, Fresh
<1>11. TimerFits(r)' /\ Spoken(r)' /\ Answers(r)'
  BY <1>5, <1>7 DEF TimerFits, Spoken, Answers
<1>12. Fresh(r)'
  BY <1>5, <1>7, <1>10 DEF Fresh, MessageOf
<1>13. HasReadCause(r)'
  <2>1. call'[r].step \in {"read", "failed"} /\ call'[r].cause = said
    BY <1>5, <1>7
  <2>2. Other(call'[r].agent) = call[r].agent
    BY <1>4, <1>5, <1>7
  <2>3. SentBy(said, Other(call[r].agent))'
    BY <1>9, <2>2
  <2>4. QED
    BY <2>1, <2>3 DEF HasReadCause
<1>14. faults' \in 0..MaxFaults
  BY <1>8 DEF ReplyInv, TypeOK
<1>15. QED
  BY <1>5, <1>6, <1>8, <1>11, <1>12, <1>13, <1>14, MoveKeeps DEF CallInv

\* The conversation is read once: what it came to decides whether the agent may answer.
LEMMA ReadKeepsInv ==
  ASSUME ReplyInv, NEW r \in Calls, ReadConversation(r)
  PROVE  ReplyInv'
<1>1. call[r] \in CallData /\ call[r] # NoCall /\ call[r].step = "read"
  BY NoCallIsNone DEF ReadConversation, At, ReplyInv, TypeOK
<1>2. PICK last \in LastMessages :
        call' = [call EXCEPT ![r].step = IF SentBy(last, call[r].agent)
                                         THEN "check" ELSE "generate",
                             ![r].basis = last]
  BY DEF ReadConversation
<1> DEFINE own == SentBy(last, call[r].agent)
           d == [call[r] EXCEPT !.step = IF own THEN "check" ELSE "generate",
                                !.basis = last]
<1>3. \/ Stored = {} /\ last = NoMessage
      \/ \E m \in Stored : m.id = last /\ \A o \in Stored : o.timestamp <= m.timestamp
  BY LastIsNewest
<1>4. \A m \in Stored : m \in messages /\ m \in Messages /\ m.id \in Ids /\ m.from \in Agents
  BY DEF Stored, ReplyInv, TypeOK, Messages
<1>5. last \in Ids \cup {NoMessage}
  BY <1>3, <1>4
<1>6. /\ d \in CallData
      /\ d.step = IF own THEN "check" ELSE "generate"
      /\ d.basis = last /\ d.made = call[r].made /\ d.trigger = call[r].trigger
      /\ d.agent = call[r].agent /\ d.cause = call[r].cause
  BY <1>1, <1>5 DEF CallData, Steps
<1>7. call' = [call EXCEPT ![r] = d]
  BY <1>2
<1> HIDE DEF d
<1>8. call'[r] = d
  BY <1>7 DEF ReplyInv, TypeOK
<1>9. UNCHANGED <<status, clock, messages, purged, faults>>
  BY DEF ReadConversation
<1>10. CallInv(r)
  BY <1>1 DEF ReplyInv
<1>11. TimerFits(r)' /\ Spoken(r)'
  BY <1>1, <1>6, <1>8, <1>10 DEF CallInv, TimerFits, Spoken
<1>12. Fresh(r)'
  <2>1. MessageOf(r)' = MessageOf(r)
    BY <1>6, <1>8 DEF MessageOf
  <2>2. \A i : Told(i)' = Told(i)
    BY <1>9, SameMessages
  <2>3. QED
    BY <1>1, <1>6, <1>8, <1>10, <2>1, <2>2 DEF CallInv, Fresh
<1>13. Answers(r)'
  <2>1. call[r].made = "fallback" /\ call[r].agent \in Agents
    BY <1>1, <1>10 DEF CallInv, Answers, CallData
  <2>2. ~own => last = NoMessage \/ SentBy(last, Other(call[r].agent))
    <3>1. SUFFICES ASSUME ~own, last # NoMessage
                   PROVE  SentBy(last, Other(call[r].agent))
      OBVIOUS
    <3>2. PICK m \in Stored : m.id = last
      BY <1>3, <3>1
    <3>3. m \in messages /\ m.from \in Agents /\ m.from # call[r].agent
      BY <1>4, <3>1, <3>2 DEF SentBy
    <3>4. m.from = Other(call[r].agent)
      BY <2>1, <3>3, OtherAgent
    <3>5. QED
      BY <3>2, <3>3, <3>4 DEF SentBy
  <2>3. \A i, a : SentBy(i, a)' = SentBy(i, a)
    BY <1>9, SameMessages
  <2>4. QED
    BY <1>6, <1>8, <2>1, <2>2, <2>3 DEF Answers
<1>14. HasReadCause(r)'
  <2>1. SUFFICES ASSUME call[r].cause # NoMessage
                 PROVE  /\ SentBy(call[r].cause, Other(call[r].agent))
                        /\ NotOlder(last, call[r].cause) \/ call[r].cause \in purged
    BY <1>6, <1>8, <1>9, SameMessages DEF HasReadCause
  <2>2. SentBy(call[r].cause, Other(call[r].agent))
    BY <1>10, <2>1 DEF CallInv, HasReadCause
  <2>3. SUFFICES ASSUME call[r].cause \notin purged PROVE NotOlder(last, call[r].cause)
    BY <2>2
  <2>4. PICK n \in messages : n.id = call[r].cause
    BY <2>2 DEF SentBy
  <2>5. n \in Stored
    BY <2>3, <2>4 DEF Stored
  <2>6. PICK m \in Stored : m.id = last /\ n.timestamp <= m.timestamp
    BY <1>3, <2>5
  <2>7. QED
    BY <1>4, <2>4, <2>6 DEF NotOlder
<1>15. faults' \in 0..MaxFaults
  BY <1>9 DEF ReplyInv, TypeOK
<1>16. QED
  BY <1>6, <1>7, <1>9, <1>11, <1>12, <1>13, <1>14, <1>15, MoveKeeps DEF CallInv

\* The model, or the catch around it, writes what the conversation allows.
LEMMA GenerateKeepsInv ==
  ASSUME ReplyInv, NEW r \in Calls, Generate(r)
  PROVE  ReplyInv'
<1>1. call[r] \in CallData /\ call[r] # NoCall /\ call[r].step = "generate"
  BY NoCallIsNone DEF Generate, At, ReplyInv, TypeOK
<1>2. PICK made \in {"byAI", "fallback"} :
        call' = [call EXCEPT ![r].step = "check", ![r].made = made]
  BY DEF Generate
<1> DEFINE d == [call[r] EXCEPT !.step = "check", !.made = made]
<1>3. /\ d \in CallData /\ d.step = "check" /\ d.made = made
      /\ d.basis = call[r].basis /\ d.trigger = call[r].trigger
      /\ d.agent = call[r].agent /\ d.cause = call[r].cause
  BY <1>1 DEF CallData, Steps, Made
<1>4. call' = [call EXCEPT ![r] = d]
  BY <1>2
<1> HIDE DEF d
<1>5. call'[r] = d
  BY <1>4 DEF ReplyInv, TypeOK
<1>6. UNCHANGED <<status, clock, messages, purged, faults>>
  BY DEF Generate
<1>7. CallInv(r)
  BY <1>1 DEF ReplyInv
<1>8. call[r].made = "fallback" /\ ~call[r].trigger /\ ~Told(MessageOf(r))
  <2>1. call[r].made = "fallback" /\ ~Told(MessageOf(r))
    BY <1>1, <1>7 DEF CallInv, Answers, Fresh
  <2>2. call[r].trigger => call[r].made = "byUser"
    BY <1>7 DEF CallInv, TimerFits
  <2>3. QED
    BY <2>1, <2>2
<1>9. TimerFits(r)' /\ Spoken(r)'
  BY <1>2, <1>3, <1>5, <1>8 DEF TimerFits, Spoken
<1>10. Fresh(r)'
  <2>1. MessageOf(r)' = <<r, "reply">> /\ MessageOf(r) = <<r, "reply">>
    BY <1>2, <1>3, <1>5, <1>8 DEF MessageOf
  <2>2. ~Told(<<r, "reply">>)'
    BY <1>6, <1>8, <2>1, SameMessages
  <2>3. QED
    BY <2>1, <2>2 DEF Fresh
<1>11. Answers(r)' /\ HasReadCause(r)'
  BY <1>1, <1>2, <1>3, <1>5, <1>6, <1>7, SameMessages DEF CallInv, Answers, HasReadCause
<1>12. faults' \in 0..MaxFaults
  BY <1>6 DEF ReplyInv, TypeOK
<1>13. QED
  BY <1>3, <1>4, <1>6, <1>9, <1>10, <1>11, <1>12, MoveKeeps DEF CallInv

\* A step that changes no more of an event than where it is and when its message was
\* made: it goes on to the save, sets a timer or is over.
LEMMA StepKeeps ==
  ASSUME ReplyInv, NEW r \in Calls, call[r] # NoCall,
         NEW to \in {"save", "timer", "done", "failed"}, NEW time \in 0..MaxTime,
         to = "save" => call[r].step = "check",
         to = "timer" => call[r].step = "announce" /\ call[r].trigger,
         to = "done" => call[r].step = "announce",
         call' = [call EXCEPT ![r].step = to, ![r].timestamp = time],
         UNCHANGED <<status, clock, messages, purged>>, faults' \in 0..MaxFaults
  PROVE  ReplyInv'
<1>1. call[r] \in CallData
  BY DEF ReplyInv, TypeOK
<1> DEFINE d == [call[r] EXCEPT !.step = to, !.timestamp = time]
<1>2. /\ d \in CallData /\ d.step = to /\ d.made = call[r].made
      /\ d.basis = call[r].basis /\ d.trigger = call[r].trigger
      /\ d.agent = call[r].agent /\ d.cause = call[r].cause
  BY <1>1 DEF CallData, Steps
<1>3. call' = [call EXCEPT ![r] = d]
  OBVIOUS
<1> HIDE DEF d
<1>4. call'[r] = d
  BY <1>3 DEF ReplyInv, TypeOK
<1>5. CallInv(r)
  BY DEF ReplyInv
<1>6. MessageOf(r)' = MessageOf(r)
  BY <1>2, <1>4 DEF MessageOf
<1>7. TimerFits(r)'
  BY <1>2, <1>4, <1>5 DEF CallInv, TimerFits
<1>8. Fresh(r)'
  BY <1>2, <1>4, <1>5, <1>6, SameMessages DEF CallInv, Fresh
<1>9. Spoken(r)' /\ Answers(r)'
  BY <1>2, <1>4, <1>5, <1>6, SameMessages DEF CallInv, Spoken, Answers
<1>10. HasReadCause(r)'
  BY <1>2, <1>4, <1>5, SameMessages DEF CallInv, HasReadCause
<1>11. QED
  BY <1>2, <1>3, <1>7, <1>8, <1>9, <1>10, MoveKeeps DEF CallInv

\* The message takes what its event has read and found: it is the first with its id, its
\* basis is the other agent's, its cause has been read.
LEMMA SaveKeepsInv ==
  ASSUME ReplyInv, NEW r \in Calls, SaveMessage(r)
  PROVE  ReplyInv'
<1>1. call[r] \in CallData /\ call[r] # NoCall /\ call[r].step = "save"
  BY NoCallIsNone DEF SaveMessage, Go, At, ReplyInv, TypeOK
<1>2. CallInv(r)
  BY <1>1 DEF ReplyInv
<1> DEFINE d == [call[r] EXCEPT !.step = "announce"]
           new == [id |-> MessageOf(r), timestamp |-> call[r].timestamp,
                   from |-> call[r].agent, made |-> call[r].made,
                   basis |-> call[r].basis, cause |-> call[r].cause]
<1>3. /\ d \in CallData /\ d.step = "announce" /\ d.made = call[r].made
      /\ d.basis = call[r].basis /\ d.trigger = call[r].trigger
      /\ d.agent = call[r].agent /\ d.cause = call[r].cause
  BY <1>1 DEF CallData, Steps
<1>4. /\ new.id = MessageOf(r) /\ new.from = call[r].agent /\ new.made = call[r].made
      /\ new.basis = call[r].basis /\ new.cause = call[r].cause
  OBVIOUS
<1>5. new \in Messages
  <2>1. MessageOf(r) \in Ids
    BY DEF MessageOf, Ids
  <2>2. QED
    BY <1>1, <2>1 DEF CallData, Messages
<1>6. call' = [call EXCEPT ![r] = d] /\ messages' = messages \cup {new}
  BY DEF SaveMessage, Go
<1> HIDE DEF d, new
<1>7. \A q \in Calls : call'[q] = IF q = r THEN d ELSE call[q]
  BY <1>6 DEF ReplyInv, TypeOK
<1>8. UNCHANGED <<status, clock, purged, faults>> /\ messages \subseteq messages'
  BY <1>6 DEF SaveMessage
<1>9. \A m \in messages : m.id # new.id
  BY <1>1, <1>2, <1>4 DEF CallInv, Fresh, Told
<1>10. TypeOK'
  <2>1. call' \in [Calls -> CallData \cup {NoCall}]
    BY <1>3, <1>6 DEF ReplyInv, TypeOK
  <2>2. messages' \subseteq Messages /\ \A m, n \in messages' : m.id = n.id => m = n
    BY <1>5, <1>6, <1>9 DEF ReplyInv, TypeOK
  <2>3. purged' \subseteq {m.id : m \in messages'}
    BY <1>8 DEF ReplyInv, TypeOK
  <2>4. QED
    BY <1>8, <2>1, <2>2, <2>3 DEF ReplyInv, TypeOK
<1>11. \A i : Told(i)' => Told(i) \/ i = MessageOf(r)
  BY <1>4, <1>6 DEF Told
<1>12. ASSUME NEW q \in Calls
       PROVE  IF call'[q] = NoCall THEN ~Told(<<q, "said">>)' /\ ~Told(<<q, "reply">>)'
                                   ELSE CallInv(q)'
  <2>1. CASE q = r
    <3>1. call'[r] = d /\ call'[r] # NoCall
      BY <1>3, <1>7, NoCallIsNone
    <3>2. TimerFits(r)'
      BY <1>2, <1>3, <3>1 DEF CallInv, TimerFits
    <3>3. Fresh(r)'
      <4>1. call[r].made = "byUser" => ~Told(<<r, "reply">>) /\ MessageOf(r) = <<r, "said">>
        BY <1>2 DEF CallInv, Fresh, MessageOf
      <4>2. call[r].made = "byUser" => ~Told(<<r, "reply">>)'
        BY <1>11, <4>1
      <4>3. QED
        BY <1>3, <3>1, <4>2 DEF Fresh
    <3>4. Spoken(r)'
      <4>1. MessageOf(r)' = new.id
        BY <1>3, <1>4, <3>1 DEF MessageOf
      <4>2. new \in messages'
        BY <1>6
      <4>3. QED
        BY <1>3, <1>4, <3>1, <4>1, <4>2 DEF Spoken, SentBy
    <3>5. Answers(r)'
      BY <1>1, <1>2, <1>3, <1>8, <3>1, SaidStaysSaid DEF CallInv, Answers
    <3>6. HasReadCause(r)'
      BY <1>1, <1>2, <1>3, <1>8, <3>1, SaidStaysSaid DEF CallInv, HasReadCause
    <3>7. QED
      BY <2>1, <3>1, <3>2, <3>3, <3>4, <3>5, <3>6 DEF CallInv
  <2>2. CASE q # r
    <3>1. call'[q] = call[q] /\ purged \subseteq purged'
      BY <1>7, <1>8, <2>2
    <3>2. \A k \in {"said", "reply"} : Told(<<q, k>>)' => Told(<<q, k>>)
      BY <1>11, <2>2 DEF MessageOf
    <3>3. QED
      BY <1>8, <3>1, <3>2, OthersKeep
  <2>3. QED
    BY <2>1, <2>2
<1>13. RepliesAnswerTheOther'
  <2>1. new.made = "byAI" => new.basis = NoMessage \/ SentBy(new.basis, Other(new.from))
    BY <1>2, <1>4 DEF CallInv, Answers
  <2>2. QED
    BY <1>6, <1>8, <2>1, SaidStaysSaid DEF ReplyInv, RepliesAnswerTheOther
<1>14. TriggeredReplyHasReadItsCause'
  <2>1. new.cause # NoMessage =>
          /\ SentBy(new.cause, Other(new.from))
          /\ NotOlder(new.basis, new.cause) \/ new.cause \in purged
    BY <1>1, <1>2, <1>4 DEF CallInv, HasReadCause
  <2>2. QED
    BY <1>6, <1>8, <2>1, SaidStaysSaid DEF ReplyInv, TriggeredReplyHasReadItsCause
<1>15. QED
  BY <1>10, <1>12, <1>13, <1>14 DEF ReplyInv

\* The clock ticks, the session ends or its messages are deleted: no event is touched.
LEMMA SessionKeepsInv ==
  ASSUME ReplyInv, Tick \/ EndSession \/ Cleanup \/ UNCHANGED vars
  PROVE  ReplyInv'
<1>1. UNCHANGED <<messages, call, faults>> /\ purged \subseteq purged'
  BY DEF Tick, EndSession, Cleanup, vars
<1>2. TypeOK'
  <2>1. clock' \in 0..MaxTime
    BY BoundsAreNat DEF Tick, EndSession, Cleanup, vars, ReplyInv, TypeOK
  <2>2. status' \in {"active", "ended"} /\ purged' \subseteq {m.id : m \in messages'}
    BY DEF Tick, EndSession, Cleanup, vars, Stored, ReplyInv, TypeOK
  <2>3. QED
    BY <1>1, <2>1, <2>2 DEF ReplyInv, TypeOK
<1>3. \A q \in Calls : IF call'[q] = NoCall THEN ~Told(<<q, "said">>)' /\ ~Told(<<q, "reply">>)'
                                            ELSE CallInv(q)'
  BY <1>1, OthersKeep, SameMessages
<1>4. RepliesAnswerTheOther' /\ TriggeredReplyHasReadItsCause'
  BY <1>1, SaidStaysSaid DEF ReplyInv, RepliesAnswerTheOther, TriggeredReplyHasReadItsCause
<1>5. QED
  BY <1>2, <1>3, <1>4 DEF ReplyInv

\* A crash ends every running event where it is.
LEMMA CrashKeepsInv ==
  ASSUME ReplyInv, Crash
  PROVE  ReplyInv'
<1>1. /\ UNCHANGED <<status, clock, messages, purged>> /\ faults' \in 0..MaxFaults
      /\ call' = [r \in Calls |-> IF r \in Running THEN [call[r] EXCEPT !.step = "failed"]
                                  ELSE call[r]]
  BY BoundsAreNat DEF Crash, ReplyInv, TypeOK
<1>2. ASSUME NEW q \in Calls
      PROVE  \/ call'[q] = call[q]
             \/ /\ call[q] \in CallData /\ call'[q] \in CallData
                /\ call'[q].step = "failed"
                /\ call'[q].made = call[q].made /\ call'[q].basis = call[q].basis
                /\ call'[q].trigger = call[q].trigger /\ call'[q].agent = call[q].agent
                /\ call'[q].cause = call[q].cause
  <2>1. CASE q \in Running
    <3>1. call[q] \in CallData
      BY <2>1, NoCallIsNone DEF Running, ReplyInv, TypeOK
    <3>2. call'[q] = [call[q] EXCEPT !.step = "failed"]
      BY <1>1, <2>1
    <3>3. QED
      BY <3>1, <3>2 DEF CallData, Steps
  <2>2. CASE q \notin Running
    BY <1>1, <2>2
  <2>3. QED
    BY <2>1, <2>2
<1>3. TypeOK'
  <2>1. \A q \in Calls : call'[q] \in CallData \cup {NoCall}
    BY <1>2 DEF ReplyInv, TypeOK
  <2>2. call' \in [Calls -> CallData \cup {NoCall}]
    BY <1>1, <2>1
  <2>3. QED
    BY <1>1, <2>2 DEF ReplyInv, TypeOK
<1>4. ASSUME NEW q \in Calls
      PROVE  IF call'[q] = NoCall THEN ~Told(<<q, "said">>)' /\ ~Told(<<q, "reply">>)'
                                  ELSE CallInv(q)'
  <2>1. CASE call'[q] = call[q]
    <3>1. messages \subseteq messages' /\ purged \subseteq purged' /\ \A i : Told(i)' = Told(i)
      BY <1>1, SameMessages
    <3>2. QED
      BY <2>1, <3>1, OthersKeep
  <2>2. CASE call'[q] # call[q]
    <3>1. call'[q].step = "failed" /\ call[q] # NoCall /\ call'[q] # NoCall
      BY <1>2, <2>2, NoCallIsNone
    <3>2. CallInv(q)
      BY <3>1 DEF ReplyInv
    <3>3. TimerFits(q)' /\ Spoken(q)'
      BY <1>2, <2>2, <3>1, <3>2 DEF CallInv, TimerFits, Spoken
    <3>4. Fresh(q)'
      BY <1>1, <1>2, <2>2, <3>1, <3>2, SameMessages DEF CallInv, Fresh
    <3>5. Answers(q)'
      BY <1>1, <1>2, <2>2, <3>1, <3>2, SameMessages DEF CallInv, Answers
    <3>6. HasReadCause(q)'
      BY <1>1, <1>2, <2>2, <3>1, <3>2, SameMessages DEF CallInv, HasReadCause
    <3>7. QED
      BY <3>1, <3>3, <3>4, <3>5, <3>6 DEF CallInv
  <2>3. QED
    BY <2>1, <2>2
<1>5. RepliesAnswerTheOther' /\ TriggeredReplyHasReadItsCause'
  BY <1>1, SaidStaysSaid DEF ReplyInv, RepliesAnswerTheOther, TriggeredReplyHasReadItsCause
<1>6. QED
  BY <1>3, <1>4, <1>5 DEF ReplyInv

LEMMA ReplyInvStep == ReplyInv /\ [Next]_vars => ReplyInv'
<1> SUFFICES ASSUME ReplyInv, [Next]_vars PROVE ReplyInv'
  OBVIOUS
<1>1. ASSUME NEW r \in Calls, CheckSession(r) PROVE ReplyInv'
  <2>1. call[r] \in CallData /\ call[r] # NoCall /\ call[r].step = "check"
    BY <1>1, NoCallIsNone DEF CheckSession, At, ReplyInv, TypeOK
  <2>2. UNCHANGED <<status, clock, messages, purged>> /\ faults' \in 0..MaxFaults
    BY <1>1 DEF CheckSession, ReplyInv, TypeOK
  <2>3. CASE status = "active"
    <3>1. call' = [call EXCEPT ![r].step = "save", ![r].timestamp = clock]
      BY <1>1, <2>3 DEF CheckSession
    <3>2. clock \in 0..MaxTime
      BY DEF ReplyInv, TypeOK
    <3>3. QED
      BY <2>1, <2>2, <3>1, <3>2, StepKeeps
  <2>4. CASE status # "active"
    <3>1. call' = [call EXCEPT ![r].step = "failed"]
      BY <1>1, <2>4 DEF CheckSession
    <3>2. call' = [call EXCEPT ![r].step = "failed", ![r].timestamp = call[r].timestamp]
          /\ call[r].timestamp \in 0..MaxTime
      BY <2>1, <3>1 DEF CallData
    <3>3. QED
      BY <2>1, <2>2, <3>2, StepKeeps
  <2>5. QED
    BY <2>3, <2>4
<1>2. ASSUME NEW r \in Calls, Announce(r) PROVE ReplyInv'
  <2>1. call[r] \in CallData /\ call[r] # NoCall /\ call[r].step = "announce"
    BY <1>2, NoCallIsNone DEF Announce, Go, At, ReplyInv, TypeOK
  <2>2. UNCHANGED <<status, clock, messages, purged>> /\ faults' \in 0..MaxFaults
    BY <1>2 DEF Announce, ReplyInv, TypeOK
  <2>3. PICK to \in {"timer", "done"} :
          /\ to = "timer" => call[r].trigger
          /\ call' = [call EXCEPT ![r].step = to]
    BY <1>2 DEF Announce, Go
  <2>4. call' = [call EXCEPT ![r].step = to, ![r].timestamp = call[r].timestamp]
        /\ call[r].timestamp \in 0..MaxTime
    BY <2>1, <2>3 DEF CallData
  <2>5. QED
    BY <2>1, <2>2, <2>3, <2>4, StepKeeps
<1>3. ASSUME NEW r \in Calls, CallFails(r) PROVE ReplyInv'
  <2>1. call[r] \in CallData /\ call[r] # NoCall /\ call' = [call EXCEPT ![r].step = "failed"]
    BY <1>3, NoCallIsNone DEF CallFails, Running, ReplyInv, TypeOK
  <2>2. UNCHANGED <<status, clock, messages, purged>> /\ faults' \in 0..MaxFaults
    BY <1>3, BoundsAreNat DEF CallFails, ReplyInv, TypeOK
  <2>3. call' = [call EXCEPT ![r].step = "failed", ![r].timestamp = call[r].timestamp]
        /\ call[r].timestamp \in 0..MaxTime
    BY <2>1 DEF CallData
  <2>4. QED
    BY <2>1, <2>2, <2>3, StepKeeps
<1>4. ASSUME NEW r \in Calls, Step(r) PROVE ReplyInv'
  BY <1>1, <1>2, <1>4, TimerKeepsInv, ReadKeepsInv, GenerateKeepsInv, SaveKeepsInv DEF Step
<1>5. QED
  BY <1>3, <1>4, StartKeepsInv, SessionKeepsInv, CrashKeepsInv DEF Next

--------------------------------------------------------------------------------
\* The strengthened invariant holds in every state.
THEOREM ReplyAlways == Spec => []ReplyInv
BY ReplyInvInit, ReplyInvStep, PTL DEF Spec

\* Messages and handlers keep their shapes, and an event stores no more than one
\* message of its user and one reply: a reply asks for no other.
THEOREM TypeCorrect == Spec => []TypeOK
<1>1. ReplyInv => TypeOK
  BY DEF ReplyInv
<1>2. QED
  BY <1>1, ReplyAlways, PTL

\* However many events interleave, and however many messages share a millisecond, what
\* the model wrote answers the other agent: generateResponse decides on the
\* conversation that the reply is made from.
THEOREM NoAgentAnswersItself == Spec => []RepliesAnswerTheOther
<1>1. ReplyInv => RepliesAnswerTheOther
  BY DEF ReplyInv
<1>2. QED
  BY <1>1, ReplyAlways, PTL

\* A reply that a message asked for was made from a conversation that had come to that
\* message, unless it was deleted: the timer is set after the message is stored.
THEOREM TriggeredReplyComesAfter == Spec => []TriggeredReplyHasReadItsCause
<1>1. ReplyInv => TriggeredReplyHasReadItsCause
  BY DEF ReplyInv
<1>2. QED
  BY <1>1, ReplyAlways, PTL
================================================================================
