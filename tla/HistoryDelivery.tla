--------------------------- MODULE HistoryDelivery ---------------------------
(***************************************************************************)
(* What the clients of one agent-chat session see: the room of sockets,    *)
(* the history sent to a client that joins or asks, and the messages       *)
(* broadcast meanwhile.                                                     *)
(*                                                                         *)
(* Source: conversations/agent-chat.gateway.ts.  Messages are numbered in  *)
(* the order in which they are saved; how a submission saves and deletes   *)
(* them is the subject of ChatSession and only sketched here.              *)
(***************************************************************************)
EXTENDS Naturals, FiniteSets

CONSTANTS
  Clients,     \* sockets; a reconnecting browser is another client
  Requests,    \* calls of the two handlers that send history
  Kinds,       \* which events the clients use
  MaxMessages, \* bound on the messages stored
  Window       \* messages in a history: slice(-50)

AllKinds == {"join", "fetch", "force"}

ASSUME KindsKnown == Kinds \subseteq AllKinds
ASSUME WindowPositive == Window \in Nat \ {0}
ASSUME MaxMessagesIsNat == MaxMessages \in Nat

VARIABLES
  status,    \* of the session document
  checked,   \* storeMessage calls that have found the session active
  stored,    \* messages 1..stored have been saved ...
  purged,    \* ... and 1..purged deleted again
  announced, \* messages broadcast to the room
  dropped,   \* messages saved by a call that failed before the broadcast
  connected, \* clients whose socket is open
  room,      \* members of the socket.io room
  sentTo,    \* sessionHistorySent.get(sessionId)
  call,      \* what a request is: its kind, client, step and history
  seen,      \* messages a client has received
  ender      \* where the end-session handler is

vars == <<status, checked, stored, purged, announced, dropped, connected, room,
          sentTo, call, seen, ender>>
messageVars == <<checked, stored, purged, announced, dropped>>
endVars == <<status, ender>>

Messages == 1..MaxMessages
NoCall == [kind |-> "none"]
\* "sent" and "skipped" are the two ways to succeed.
CallSteps == {"enter", "read", "deliver", "sent", "skipped", "failed"}
Calls == [kind: AllKinds, client: Clients, step: CallSteps,
          first: 1..MaxMessages + 1, last: 0..MaxMessages]

Init ==
  /\ status = "active"
  /\ checked = 0
  /\ stored = 0
  /\ purged = 0
  /\ announced = {}
  /\ dropped = {}
  /\ connected = Clients
  /\ room = {}
  /\ sentTo = {}
  /\ call = [r \in Requests |-> NoCall]
  /\ seen = [c \in Clients |-> {}]
  /\ ender = "idle"

At(r, step) == call[r] # NoCall /\ call[r].step = step
StartCall(r, kind, c, step) ==
  /\ call[r] = NoCall
  /\ kind \in Kinds
  /\ c \in connected
  /\ call' = [call EXCEPT ![r] = [kind |-> kind, client |-> c, step |-> step,
                                  first |-> 1, last |-> 0]]
GoOn(r, from, to) == At(r, from) /\ call' = [call EXCEPT ![r].step = to]

\* conversation.slice(-50): the newest messages, the oldest of them numbered
FirstOfHistory == IF stored - purged > Window THEN stored - Window + 1 ELSE purged + 1

\* emit to a set of sockets; a closed one receives nothing
Receive(clients, messages) ==
  seen' = [c \in Clients |-> IF c \in clients THEN seen[c] \cup messages ELSE seen[c]]

--------------------------------------------------------------------------------
(* Mutants: what the actions below would be with a plausible bug. *)

\* DeliverHistory: an empty history is not recorded as sent.
DeliverMarksNonEmpty(r) ==
  /\ GoOn(r, "deliver", "sent")
  /\ LET c == call[r].client IN
       /\ Receive({c} \cap connected, call[r].first..call[r].last)
       /\ sentTo' = IF call[r].first <= call[r].last THEN sentTo \cup {c} ELSE sentTo
  /\ UNCHANGED <<messageVars, connected, room, endVars>>

\* Announce: the event is suppressed once the session has ended.
AnnounceWhileActive(m) ==
  /\ m \in 1..stored \ (announced \cup dropped)
  /\ announced' = announced \cup {m}
  /\ Receive(IF status = "active" THEN room ELSE {}, {m})
  /\ UNCHANGED <<checked, stored, purged, dropped, connected, room, sentTo, call, endVars>>

\* Disconnect: only the tracking data is cleaned up.
DisconnectKeepsRoom(c) ==
  /\ c \in connected
  /\ connected' = connected \ {c}
  /\ sentTo' = sentTo \ {c}
  /\ UNCHANGED <<messageVars, room, call, seen, endVars>>

\* ReadConversation: the history is cut at the window from the wrong end.
ReadOldest(r) ==
  /\ At(r, "read")
  /\ call' = [call EXCEPT ![r].step = "deliver", ![r].first = purged + 1,
                ![r].last = IF stored - purged > Window THEN purged + Window ELSE stored]
  /\ UNCHANGED <<messageVars, connected, room, sentTo, seen, endVars>>

--------------------------------------------------------------------------------
(* storeMessage and the broadcast that follows it. *)

FindActiveSession ==
  /\ status = "active"
  /\ stored + checked < MaxMessages
  /\ checked' = checked + 1
  /\ UNCHANGED <<stored, purged, announced, dropped, connected, room, sentTo, call, seen,
                 endVars>>

SaveMessage ==
  /\ checked > 0
  /\ checked' = checked - 1
  /\ stored' = stored + 1
  /\ UNCHANGED <<purged, announced, dropped, connected, room, sentTo, call, seen, endVars>>

\* A database operation of the call rejects: save() itself, so that nothing is
\* stored, or the $inc or the getSession after it, and the message stays stored.  The
\* catch block answers the sender alone; the room is shown nothing.  (A server that
\* dies here closes every socket: Disconnect of every client.)
RejectMessage ==
  /\ \/ checked > 0 /\ checked' = checked - 1 /\ UNCHANGED dropped
     \/ \E m \in 1..stored \ (announced \cup dropped) :
          dropped' = dropped \cup {m} /\ UNCHANGED checked
  /\ UNCHANGED <<stored, purged, announced, connected, room, sentTo, call, seen, endVars>>

\* server.to(sessionId).emit('new-message', ...)
Announce(m) ==
  /\ m \in 1..stored \ (announced \cup dropped)
  /\ announced' = announced \cup {m}
  /\ Receive(room, {m})
  /\ UNCHANGED <<checked, stored, purged, dropped, connected, room, sentTo, call, endVars>>

\* cleanupSessionMessages: one submission reaches it, on an active session too.
Cleanup ==
  /\ purged = 0
  /\ stored > 0
  /\ purged' = stored
  /\ UNCHANGED <<checked, stored, announced, dropped, connected, room, sentTo, call, seen,
                 endVars>>

--------------------------------------------------------------------------------
(* The handlers that send history, and the end of a connection. *)

\* 'agent-join-session': the session must be active when it is read.
StartJoin(r, c) ==
  /\ StartCall(r, "join", c, IF status = "active" THEN "enter" ELSE "failed")
  /\ UNCHANGED <<messageVars, connected, room, sentTo, seen, endVars>>

\* client.join: does nothing once the socket is closed.  In the same turn the
\* handler looks whether it has sent the history to this client before.
EnterRoom(r) ==
  /\ At(r, "enter")
  /\ LET c == call[r].client IN
       /\ room' = room \cup ({c} \cap connected)
       /\ call' = [call EXCEPT ![r].step = IF c \in sentTo THEN "skipped" ELSE "read"]
  /\ UNCHANGED <<messageVars, connected, sentTo, seen, endVars>>

\* 'get-conversation-history': neither status nor room matter, and force asks
\* for the history again.
StartFetch(r, c) ==
  /\ \/ StartCall(r, "fetch", c, IF c \in sentTo THEN "skipped" ELSE "read")
     \/ StartCall(r, "force", c, "read")
  /\ UNCHANGED <<messageVars, connected, room, sentTo, seen, endVars>>

\* getConversation, read by the database while other handlers go on.
ReadConversation(r) ==
  /\ At(r, "read")
  /\ call' = [call EXCEPT ![r].step = "deliver", ![r].first = FirstOfHistory,
                          ![r].last = stored]
  /\ UNCHANGED <<messageVars, connected, room, sentTo, seen, endVars>>

\* The client is recorded whether or not it is still there.
DeliverHistory(r) ==
  /\ GoOn(r, "deliver", "sent")
  /\ LET c == call[r].client IN
       /\ Receive({c} \cap connected, call[r].first..call[r].last)
       /\ sentTo' = sentTo \cup {c}
  /\ UNCHANGED <<messageVars, connected, room, endVars>>

Disconnect(c) ==
  /\ c \in connected
  /\ connected' = connected \ {c}
  /\ room' = room \ {c}
  /\ sentTo' = sentTo \ {c}
  /\ UNCHANGED <<messageVars, call, seen, endVars>>

--------------------------------------------------------------------------------
(* 'end-session'. *)

EndSession ==
  /\ status = "active"
  /\ status' = "ended"
  /\ ender' = "ending"
  /\ UNCHANGED <<messageVars, connected, room, sentTo, call, seen>>

\* After the submission, whatever became of it, 'session-ended' is broadcast and the
\* room is to be emptied in the same turn.  But server is the Namespace
\* '/agent-chat', whose sockets are a Map without an adapter: the expression throws,
\* and the caller receives END_SESSION_ERROR.
EvictRoom ==
  /\ ender = "ending"
  /\ ender' = "error"
  /\ UNCHANGED <<status, messageVars, connected, room, sentTo, call, seen>>

--------------------------------------------------------------------------------
RequestStep(r) == EnterRoom(r) \/ ReadConversation(r) \/ DeliverHistory(r)

Next ==
  \/ FindActiveSession
  \/ SaveMessage
  \/ RejectMessage
  \/ \E m \in Messages : Announce(m)
  \/ Cleanup
  \/ \E r \in Requests : RequestStep(r)
  \/ \E r \in Requests, c \in Clients : StartJoin(r, c) \/ StartFetch(r, c)
  \/ \E c \in Clients : Disconnect(c)
  \/ EndSession
  \/ EvictRoom

Spec == Init /\ [][Next]_vars

\* A handler that has started goes on or fails: its awaits are on the database.
FairSpec ==
  /\ Spec
  /\ \A m \in Messages : WF_vars(Announce(m))
  /\ \A r \in Requests : WF_vars(RequestStep(r))

--------------------------------------------------------------------------------
(* Properties. *)

\* Counters stay in their bounds, calls at their awaits, sets in their ranges.
TypeOK ==
  /\ status \in {"active", "ended"}
  /\ checked \in 0..MaxMessages /\ stored \in 0..MaxMessages /\ purged \in 0..stored
  /\ announced \subseteq 1..stored /\ dropped \subseteq (1..stored) \ announced
  /\ room \subseteq connected /\ connected \subseteq Clients
  /\ sentTo \subseteq Clients
  /\ call \in [Requests -> Calls \cup {NoCall}]
  /\ seen \in [Clients -> SUBSET Messages]
  /\ ender \in {"idle", "ending", "error"}

\* Nothing falls between the history and the live broadcast: a client whose join
\* sent it the history has received every message shown to the room so far,
\* but for those that were older than the history when it was read.
JoinLeavesNoGap ==
  \A r \in Requests :
    At(r, "sent") /\ call[r].kind = "join" /\ call[r].client \in connected =>
      \A m \in announced : m >= call[r].first => m \in seen[call[r].client]

\* A connected client that has been sent the history does not get it again from a
\* request that starts later and does not force it, even if it was empty.
RepeatIsCached ==
  [][\A r, q \in Requests :
       /\ At(q, "sent")
       /\ call[q].client \in connected
       /\ ~At(r, "read") /\ At(r, "read")'
       /\ call'[r].client = call[q].client
       => call'[r].kind = "force"]_vars

\* A message saved while a client is in the room reaches that client, unless it
\* disconnects or the call that saved the message fails before its broadcast.  The
\* end of the session and a purge in between do not keep it back.
RoomSeesMessages ==
  \A c \in Clients, m \in Messages :
    c \in room /\ m <= stored /\ m \notin announced ~>
      m \in seen[c] \/ m \in dropped \/ c \notin connected

================================================================================
