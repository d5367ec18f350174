------------------------- MODULE HistoryDeliveryProofs -------------------------
(***************************************************************************)
(* Theorems of HistoryDelivery for any clients, any number of requests and *)
(* messages, and any window.                                               *)
(***************************************************************************)
EXTENDS HistoryDelivery, TLAPS

\* Every message that a check has let through still fits.
RoomForChecked == checked + stored <= MaxMessages

\* A join that found no history sent has put its client into the room first.
InRoom(r) ==
  /\ call[r].kind = "join"
  /\ call[r].step \in {"read", "deliver", "sent"}
  /\ call[r].client \in connected
  => call[r].client \in room

\* What the history that a join has read leaves out, the client has seen live.
SeenAfterHistory(r) ==
  /\ call[r].kind = "join"
  /\ call[r].step = "deliver"
  /\ call[r].client \in connected
  => \A m \in announced : m > call[r].last => m \in seen[call[r].client]

\* JoinLeavesNoGap for one request.
NoGap(r) ==
  /\ call[r].kind = "join"
  /\ call[r].step = "sent"
  /\ call[r].client \in connected
  => \A m \in announced : m >= call[r].first => m \in seen[call[r].client]

\* A client that has the history is in sessionHistorySent.
Recorded(r) ==
  call[r].step = "sent" /\ call[r].client \in connected => call[r].client \in sentTo

RequestInv(r) == InRoom(r) /\ SeenAfterHistory(r) /\ NoGap(r) /\ Recorded(r)

DeliveryInv ==
  /\ TypeOK
  /\ RoomForChecked
  /\ \A r \in Requests : call[r] # NoCall => RequestInv(r)

--------------------------------------------------------------------------------
LEMMA NoCallIsNone == NoCall \notin Calls
<1>1. ASSUME NoCall \in Calls PROVE FALSE
  <2>1. NoCall.kind \in AllKinds
    BY <1>1 DEF Calls
  <2>2. QED
    BY <2>1 DEF NoCall, AllKinds
<1>2. QED
  BY <1>1

LEMMA DeliveryInvInit == Init => DeliveryInv
BY MaxMessagesIsNat DEF Init, DeliveryInv, TypeOK, RoomForChecked, Messages, NoCall

\* The history is a range of the numbers of messages.
LEMMA HistoryRange ==
  ASSUME TypeOK
  PROVE  FirstOfHistory \in 1..MaxMessages + 1 /\ stored \in 0..MaxMessages
BY MaxMessagesIsNat, WindowPositive DEF TypeOK, FirstOfHistory

\* emit changes nothing but by adding what was sent.
LEMMA ReceiveAdds ==
  ASSUME TypeOK, NEW clients, NEW messages \in SUBSET Messages, Receive(clients, messages)
  PROVE  /\ seen' \in [Clients -> SUBSET Messages]
         /\ \A c \in Clients : seen[c] \subseteq seen'[c]
         /\ \A c \in Clients \cap clients : messages \subseteq seen'[c]
BY DEF TypeOK, Receive

\* A step that starts or moves one request, the messages and the end of the session
\* being left alone.
LEMMA MoveKeeps ==
  ASSUME DeliveryInv, NEW r \in Requests, NEW d \in Calls,
         call' = [call EXCEPT ![r] = d],
         UNCHANGED <<messageVars, connected, endVars>>,
         room \subseteq room', room' \subseteq connected,
         sentTo \subseteq sentTo', sentTo' \subseteq Clients,
         seen' \in [Clients -> SUBSET Messages],
         \A c \in Clients : seen[c] \subseteq seen'[c],
         RequestInv(r)'
  PROVE  DeliveryInv'
<1>1. TypeOK'
  BY DEF DeliveryInv, TypeOK, messageVars, endVars
<1>2. RoomForChecked'
  BY DEF DeliveryInv, RoomForChecked, messageVars
<1>3. ASSUME NEW q \in Requests, call'[q] # NoCall PROVE RequestInv(q)'
  <2>1. CASE q = r
    BY <2>1
  <2>2. CASE q # r
    <3>1. call'[q] = call[q] /\ call[q] # NoCall /\ call[q] \in Calls
      BY <1>3, <2>2 DEF DeliveryInv, TypeOK
    <3>2. call[q].client \in Clients
      BY <3>1 DEF Calls
    <3>3. RequestInv(q)
      BY <3>1 DEF DeliveryInv
    <3>4. QED
      BY <3>1, <3>2, <3>3 DEF RequestInv, InRoom, SeenAfterHistory, NoGap, Recorded,
        messageVars
  <2>3. QED
    BY <2>1, <2>2
<1>4. QED
  BY <1>1, <1>2, <1>3 DEF DeliveryInv

\* A step of the messages or of the connections, the requests being left alone.
LEMMA RequestsKeep ==
  ASSUME DeliveryInv, TypeOK', RoomForChecked', UNCHANGED call,
         connected' \subseteq connected,
         room \cap connected' \subseteq room',
         sentTo \cap connected' \subseteq sentTo',
         \A c \in Clients : seen[c] \subseteq seen'[c],
         \A m \in announced' \ announced : \A c \in room \cap connected' : m \in seen'[c]
  PROVE  DeliveryInv'
<1>1. ASSUME NEW q \in Requests, call'[q] # NoCall PROVE RequestInv(q)'
  <2>1. call'[q] = call[q] /\ call[q] # NoCall /\ call[q] \in Calls
    BY <1>1 DEF DeliveryInv, TypeOK
  <2>2. call[q].client \in Clients
    BY <2>1 DEF Calls
  <2>3. RequestInv(q)
    BY <2>1 DEF DeliveryInv
  <2>4. QED
    BY <2>1, <2>2, <2>3 DEF RequestInv, InRoom, SeenAfterHistory, NoGap, Recorded
<1>2. QED
  BY <1>1 DEF DeliveryInv

--------------------------------------------------------------------------------
LEMMA MessagesKeepInv ==
  ASSUME DeliveryInv,
         FindActiveSession \/ SaveMessage \/ RejectMessage \/ (\E m \in Messages : Announce(m)) \/ Cleanup
  PROVE  DeliveryInv'
<1>1. CASE FindActiveSession
  <2>1. TypeOK' /\ RoomForChecked'
    BY <1>1, MaxMessagesIsNat DEF DeliveryInv, TypeOK, RoomForChecked, FindActiveSession, endVars
  <2>2. QED
    BY <1>1, <2>1, RequestsKeep DEF FindActiveSession
<1>2. CASE SaveMessage
  <2>1. TypeOK' /\ RoomForChecked'
    BY <1>2, MaxMessagesIsNat DEF DeliveryInv, TypeOK, RoomForChecked, SaveMessage, endVars
  <2>2. QED
    BY <1>2, <2>1, RequestsKeep DEF SaveMessage
<1>3. ASSUME NEW m \in Messages, Announce(m) PROVE DeliveryInv'
  <2>1. /\ seen' \in [Clients -> SUBSET Messages]
        /\ \A c \in Clients : seen[c] \subseteq seen'[c]
        /\ \A c \in Clients \cap room : m \in seen'[c]
    <3>1. Receive(room, {m})
      BY <1>3 DEF Announce
    <3>2. QED
      BY <3>1, ReceiveAdds DEF DeliveryInv
  <2>2. TypeOK' /\ RoomForChecked'
    BY <1>3, <2>1 DEF DeliveryInv, TypeOK, RoomForChecked, Announce, endVars
  <2>3. room \subseteq Clients
    BY DEF DeliveryInv, TypeOK
  <2>4. QED
    BY <1>3, <2>1, <2>2, <2>3, RequestsKeep DEF Announce
<1>4. CASE Cleanup
  <2>1. TypeOK' /\ RoomForChecked'
    BY <1>4, MaxMessagesIsNat DEF DeliveryInv, TypeOK, RoomForChecked, Cleanup, endVars
  <2>2. QED
    BY <1>4, <2>1, RequestsKeep DEF Cleanup
<1>5. CASE RejectMessage
  <2>1. TypeOK' /\ RoomForChecked'
    <3>1. CASE checked > 0 /\ checked' = checked - 1 /\ UNCHANGED dropped
      BY <1>5, <3>1, MaxMessagesIsNat
         DEF DeliveryInv, TypeOK, RoomForChecked, RejectMessage, endVars
    <3>2. CASE UNCHANGED checked
      <4>1. dropped' \subseteq (1..stored) \ announced
        BY <1>5, <3>2 DEF DeliveryInv, TypeOK, RejectMessage
      <4>2. UNCHANGED <<status, checked, stored, purged, announced, connected, room, sentTo,
                        call, seen, ender>>
        BY <1>5, <3>2 DEF RejectMessage, endVars
      <4>3. QED
        BY <4>1, <4>2 DEF DeliveryInv, TypeOK, RoomForChecked
    <3>3. QED
      BY <1>5, <3>1, <3>2 DEF RejectMessage
  <2>2. QED
    BY <1>5, <2>1, RequestsKeep DEF RejectMessage
<1>6. QED
  BY <1>1, <1>2, <1>3, <1>4, <1>5

LEMMA SessionKeepsInv ==
  ASSUME DeliveryInv, (\E c \in Clients : Disconnect(c)) \/ EndSession \/ EvictRoom
  PROVE  DeliveryInv'
<1>1. ASSUME NEW c \in Clients, Disconnect(c) PROVE DeliveryInv'
  <2>1. TypeOK' /\ RoomForChecked'
    BY <1>1 DEF DeliveryInv, TypeOK, RoomForChecked, Disconnect, messageVars, endVars
  <2>2. QED
    BY <1>1, <2>1, RequestsKeep DEF Disconnect, messageVars
<1>2. CASE EndSession \/ EvictRoom
  <2>1. TypeOK' /\ RoomForChecked'
    BY <1>2 DEF DeliveryInv, TypeOK, RoomForChecked, EndSession, EvictRoom, messageVars
  <2>2. QED
    BY <1>2, <2>1, RequestsKeep DEF EndSession, EvictRoom, messageVars
<1>3. QED
  BY <1>1, <1>2

LEMMA StartKeepsInv ==
  ASSUME DeliveryInv, NEW r \in Requests, NEW c \in Clients, StartJoin(r, c) \/ StartFetch(r, c)
  PROVE  DeliveryInv'
<1>1. PICK kind \in AllKinds, step \in {"enter", "skipped", "read", "failed"} :
        /\ StartCall(r, kind, c, step)
        /\ kind = "join" => step \in {"enter", "failed"}
  BY DEF StartJoin, StartFetch, AllKinds
<1> DEFINE d == [kind |-> kind, client |-> c, step |-> step, first |-> 1, last |-> 0]
<1>2. d \in Calls
  BY MaxMessagesIsNat DEF Calls, CallSteps
<1>3. call' = [call EXCEPT ![r] = d]
  BY <1>1 DEF StartCall
<1>4. call'[r] = d
  BY <1>3 DEF DeliveryInv, TypeOK
<1>5. RequestInv(r)'
  BY <1>1, <1>4 DEF RequestInv, InRoom, SeenAfterHistory, NoGap, Recorded
<1>6. UNCHANGED <<messageVars, connected, room, sentTo, seen, endVars>>
  BY DEF StartJoin, StartFetch
<1> HIDE DEF d
<1>7. room \subseteq connected /\ sentTo \subseteq Clients /\ seen \in [Clients -> SUBSET Messages]
  BY DEF DeliveryInv, TypeOK
<1>8. QED
  BY <1>2, <1>3, <1>5, <1>6, <1>7, MoveKeeps

LEMMA EnterKeepsInv ==
  ASSUME DeliveryInv, NEW r \in Requests, EnterRoom(r)
  PROVE  DeliveryInv'
<1>1. call[r] \in Calls /\ call[r].step = "enter"
  BY DEF EnterRoom, At, DeliveryInv, TypeOK
<1> DEFINE step == IF call[r].client \in sentTo THEN "skipped" ELSE "read"
           d == [call[r] EXCEPT !.step = step]
<1>2. /\ d \in Calls
      /\ d.step \in {"skipped", "read"} /\ d.client = call[r].client /\ d.client \in Clients
  BY <1>1 DEF Calls, CallSteps
<1>3. call' = [call EXCEPT ![r] = d]
  BY DEF EnterRoom
<1> HIDE DEF d
<1>4. call'[r] = d
  BY <1>3 DEF DeliveryInv, TypeOK
<1>5. room' = room \cup ({d.client} \cap connected)
  BY <1>2 DEF EnterRoom
<1>6. UNCHANGED <<messageVars, connected, sentTo, seen, endVars>>
  BY DEF EnterRoom
<1>7. RequestInv(r)'
  BY <1>2, <1>4, <1>5, <1>6 DEF RequestInv, InRoom, SeenAfterHistory, NoGap, Recorded
<1>8. /\ room \subseteq connected /\ sentTo \subseteq Clients
      /\ seen \in [Clients -> SUBSET Messages]
  BY DEF DeliveryInv, TypeOK
<1>9. QED
  BY <1>2, <1>3, <1>5, <1>6, <1>7, <1>8, MoveKeeps

LEMMA ReadKeepsInv ==
  ASSUME DeliveryInv, NEW r \in Requests, ReadConversation(r)
  PROVE  DeliveryInv'
<1>1. call[r] \in Calls /\ call[r] # NoCall /\ call[r].step = "read"
  BY DEF ReadConversation, At, DeliveryInv, TypeOK
<1> DEFINE d == [call[r] EXCEPT !.step = "deliver", !.first = FirstOfHistory, !.last = stored]
<1>2. /\ d \in Calls
      /\ d.step = "deliver" /\ d.kind = call[r].kind /\ d.client = call[r].client
      /\ d.last = stored
  BY <1>1, HistoryRange DEF DeliveryInv, Calls, CallSteps
<1>3. call' = [call EXCEPT ![r] = d]
  BY DEF ReadConversation
<1> HIDE DEF d
<1>4. call'[r] = d
  BY <1>3 DEF DeliveryInv, TypeOK
<1>5. UNCHANGED <<messageVars, connected, room, sentTo, seen, endVars>>
  BY DEF ReadConversation
<1>6. \A m \in announced : ~(m > d.last)
  BY <1>2 DEF DeliveryInv, TypeOK
<1>7. RequestInv(r)
  BY <1>1 DEF DeliveryInv
<1>8. RequestInv(r)'
  BY <1>1, <1>2, <1>4, <1>5, <1>6, <1>7
     DEF RequestInv, InRoom, SeenAfterHistory, NoGap, Recorded, messageVars
<1>9. /\ room \subseteq connected /\ sentTo \subseteq Clients
      /\ seen \in [Clients -> SUBSET Messages]
  BY DEF DeliveryInv, TypeOK
<1>10. QED
  BY <1>2, <1>3, <1>5, <1>8, <1>9, MoveKeeps

LEMMA DeliverKeepsInv ==
  ASSUME DeliveryInv, NEW r \in Requests, DeliverHistory(r)
  PROVE  DeliveryInv'
<1>1. call[r] \in Calls /\ call[r] # NoCall /\ call[r].step = "deliver"
  BY DEF DeliverHistory, GoOn, At, DeliveryInv, TypeOK
<1> DEFINE d == [call[r] EXCEPT !.step = "sent"]
<1>2. /\ d \in Calls /\ d.step = "sent" /\ d.kind = call[r].kind
      /\ d.client = call[r].client /\ d.client \in Clients
      /\ d.first = call[r].first /\ d.last = call[r].last
      /\ d.first \in 1..MaxMessages + 1 /\ d.last \in 0..MaxMessages
  BY <1>1 DEF Calls, CallSteps
<1>3. call' = [call EXCEPT ![r] = d]
  BY DEF DeliverHistory, GoOn
<1> HIDE DEF d
<1>4. call'[r] = d
  BY <1>3 DEF DeliveryInv, TypeOK
<1>5. /\ sentTo' = sentTo \cup {d.client}
      /\ Receive({d.client} \cap connected, d.first..d.last)
      /\ UNCHANGED <<messageVars, connected, room, endVars>>
  BY <1>2 DEF DeliverHistory
<1>6. d.first..d.last \in SUBSET Messages
  BY <1>2, MaxMessagesIsNat DEF Messages
<1>7. /\ seen' \in [Clients -> SUBSET Messages]
      /\ \A c \in Clients : seen[c] \subseteq seen'[c]
      /\ d.client \in connected => d.first..d.last \subseteq seen'[d.client]
  BY <1>2, <1>5, <1>6, ReceiveAdds DEF DeliveryInv
<1>8. RequestInv(r)
  BY <1>1 DEF DeliveryInv
<1>9. NoGap(r)'
  <2>1. SUFFICES ASSUME d.kind = "join", d.client \in connected,
                        NEW m \in announced, m >= d.first
                 PROVE  m \in seen'[d.client]
    BY <1>4, <1>5 DEF NoGap, messageVars
  <2>2. m \in Nat
    BY DEF DeliveryInv, TypeOK
  <2>3. CASE m > d.last
    BY <1>1, <1>2, <1>7, <1>8, <2>1, <2>3 DEF RequestInv, SeenAfterHistory
  <2>4. CASE m <= d.last
    <3>1. m \in d.first..d.last
      BY <1>2, <2>1, <2>2, <2>4
    <3>2. QED
      BY <1>7, <2>1, <3>1
  <2>5. QED
    BY <1>2, <2>2, <2>3, <2>4
<1>10. RequestInv(r)'
  BY <1>1, <1>2, <1>4, <1>5, <1>8, <1>9
     DEF RequestInv, InRoom, SeenAfterHistory, Recorded
<1>11. room \subseteq connected /\ sentTo' \subseteq Clients
  BY <1>2, <1>5 DEF DeliveryInv, TypeOK
<1>12. QED
  BY <1>2, <1>3, <1>5, <1>7, <1>10, <1>11, MoveKeeps

LEMMA DeliveryInvStep == DeliveryInv /\ [Next]_vars => DeliveryInv'
<1> SUFFICES ASSUME DeliveryInv, [Next]_vars PROVE DeliveryInv'
  OBVIOUS
<1>1. CASE Next
  BY <1>1, MessagesKeepInv, SessionKeepsInv, StartKeepsInv, EnterKeepsInv, ReadKeepsInv,
     DeliverKeepsInv DEF Next, RequestStep
<1>2. CASE UNCHANGED vars
  BY <1>2 DEF vars, DeliveryInv, TypeOK, RoomForChecked, RequestInv, InRoom, SeenAfterHistory,
     NoGap, Recorded
<1>3. QED
  BY <1>1, <1>2

--------------------------------------------------------------------------------
\* The strengthened invariant holds in every state.
THEOREM DeliveryAlways == Spec => []DeliveryInv
BY DeliveryInvInit, DeliveryInvStep, PTL DEF Spec

\* Counters, sets and calls stay in their ranges, however many messages are stored.
THEOREM TypeCorrect == Spec => []TypeOK
<1>1. DeliveryInv => TypeOK
  BY DEF DeliveryInv
<1>2. QED
  BY <1>1, DeliveryAlways, PTL

\* The history a join sends and the live broadcast leave no gap between them: the
\* client enters the room before the history is read.
THEOREM NoGapAfterJoin == Spec => []JoinLeavesNoGap
<1>1. ASSUME DeliveryInv PROVE JoinLeavesNoGap
  <2>1. ASSUME NEW r \in Requests, At(r, "sent") PROVE NoGap(r)
    BY <1>1, <2>1 DEF DeliveryInv, At, RequestInv
  <2>2. QED
    BY <2>1 DEF JoinLeavesNoGap, NoGap, At
<1>2. QED
  BY <1>1, DeliveryAlways, PTL

\* What makes a call read the history: it is new or enters the room, and its client is
\* not recorded, unless it is a new call that forces the history.
LEMMA ReadsUnrecorded ==
  ASSUME DeliveryInv, [Next]_vars, NEW r \in Requests, ~At(r, "read"), At(r, "read")'
  PROVE  call'[r].kind = "force" \/ call'[r].client \notin sentTo
<1>1. CASE \E c \in Clients : StartJoin(r, c) \/ StartFetch(r, c)
  <2>1. PICK c \in Clients : StartJoin(r, c) \/ StartFetch(r, c)
    BY <1>1
  <2>2. PICK kind \in AllKinds, step \in {"enter", "skipped", "read", "failed"} :
          /\ StartCall(r, kind, c, step)
          /\ step = "read" => kind = "force" \/ c \notin sentTo
    BY <2>1 DEF StartJoin, StartFetch, AllKinds
  <2>3. call'[r] = [kind |-> kind, client |-> c, step |-> step, first |-> 1, last |-> 0]
    BY <2>2 DEF StartCall, DeliveryInv, TypeOK
  <2>4. QED
    BY <2>2, <2>3 DEF At
<1>2. CASE EnterRoom(r)
  <2>1. call[r] \in Calls
    BY <1>2 DEF EnterRoom, At, DeliveryInv, TypeOK
  <2>2. call'[r] = [call[r] EXCEPT !.step = IF call[r].client \in sentTo THEN "skipped" ELSE "read"]
    BY <1>2 DEF EnterRoom, DeliveryInv, TypeOK
  <2>3. QED
    BY <2>1, <2>2 DEF At, Calls
<1>3. CASE ReadConversation(r) \/ DeliverHistory(r)
  <2>1. call[r] \in Calls
    BY <1>3 DEF ReadConversation, DeliverHistory, GoOn, At, DeliveryInv, TypeOK
  <2>2. call'[r].step \in {"deliver", "sent"}
    BY <1>3, <2>1 DEF ReadConversation, DeliverHistory, GoOn, DeliveryInv, TypeOK, Calls
  <2>3. QED
    BY <2>2 DEF At
<1>4. ASSUME NEW q \in Requests, q # r,
             RequestStep(q) \/ \E c \in Clients : StartJoin(q, c) \/ StartFetch(q, c)
      PROVE  FALSE
  <2>1. call'[r] = call[r]
    BY <1>4 DEF RequestStep, EnterRoom, ReadConversation, DeliverHistory, GoOn, StartJoin, StartFetch,
      StartCall, DeliveryInv, TypeOK
  <2>2. QED
    BY <2>1 DEF At
<1>5. CASE UNCHANGED call
  BY <1>5 DEF At
<1>6. QED
  BY <1>1, <1>2, <1>3, <1>4, <1>5
     DEF Next, vars, RequestStep, FindActiveSession, SaveMessage, RejectMessage, Announce, Cleanup,
         Disconnect,
         EndSession, EvictRoom

\* A connected client that has been sent the history gets it again only by force:
\* sessionHistorySent holds such a client until its socket closes.
THEOREM HistoryIsSentOnce == Spec => RepeatIsCached
<1>1. ASSUME DeliveryInv, [Next]_vars
      PROVE  \A r, q \in Requests :
               /\ At(q, "sent")
               /\ call[q].client \in connected
               /\ ~At(r, "read") /\ At(r, "read")'
               /\ call'[r].client = call[q].client
               => call'[r].kind = "force"
  <2>1. ASSUME NEW q \in Requests, At(q, "sent"), call[q].client \in connected
        PROVE  call[q].client \in sentTo
    BY <1>1, <2>1 DEF DeliveryInv, RequestInv, Recorded, At
  <2>2. QED
    BY <1>1, <2>1, ReadsUnrecorded
<1>2. QED
  BY <1>1, DeliveryAlways, PTL DEF Spec, RepeatIsCached
================================================================================
