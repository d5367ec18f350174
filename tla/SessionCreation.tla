---------------------------- MODULE SessionCreation ----------------------------
(***************************************************************************)
(* How chat sessions come to be: a request for two agents is answered with *)
(* the active session of the two, or with a new one.                        *)
(*                                                                         *)
(* Source: createChatSession of conversations/agent-chat.service.ts and    *)
(* POST sessions of agent-chat.controller.ts.  ChatSession begins where a  *)
(* session has been saved.                                                  *)
(***************************************************************************)
EXTENDS Naturals

CONSTANTS
  Agents,   \* account ids of agents
  Calls,    \* requests; a session's uuid is the request that made it up
  MaxFaults \* bound: database errors plus crashes

ASSUME MaxFaultsIsNat == MaxFaults \in Nat

VARIABLES
  profiled, \* agents with a profile, which has a DID and a communication topic
  sessions, \* the AgentChatSession documents
  call,     \* what a request asks for, where it is and what it is answered
  faults    \* faults so far

vars == <<profiled, sessions, call, faults>>

\* The enumeration of the document; a request may name anything.
Preferences == {"agent1", "agent2"}
Wishes == Preferences \cup {"agent3"}

Sessions == [id: Calls, agent1: Agents, agent2: Agents, preferred: Preferences,
             status: {"active", "ended"}]
Steps == {"verify", "find", "profiles", "save", "created", "found", "failed"}
NoCall == [step |-> "none"]
CallData == [step: Steps, agent1: Agents, agent2: Agents, preferred: Wishes,
             answer: Calls, known: SUBSET Calls]

Init ==
  /\ profiled = {}
  /\ sessions = {}
  /\ call = [r \in Calls |-> NoCall]
  /\ faults = 0

At(r, step) == call[r].step = step
Go(r, from, to) == At(r, from) /\ call' = [call EXCEPT ![r].step = to]
Running == {r \in Calls : call[r].step \in {"verify", "find", "profiles", "save"}}

SameAgents(x, y) == {x.agent1, x.agent2} = {y.agent1, y.agent2}

\* The active sessions of two agents, whichever of them comes first.
ActiveOf(pair) == {s \in sessions : s.status = "active" /\ SameAgents(s, pair)}

\* Any preference but 'agent2' is taken for 'agent1'.
PreferredAgent(x) == IF x.preferred = "agent2" THEN x.agent2 ELSE x.agent1

NewSession(r) == [id |-> r, agent1 |-> call[r].agent1, agent2 |-> call[r].agent2,
                  preferred |-> call[r].preferred, status |-> "active"]

--------------------------------------------------------------------------------
(* Mutants: what the actions below would be with a plausible bug. *)

\* FindSession: among the sessions in which the agents have the same order.
FindInOrder(r) ==
  LET found == {s \in ActiveOf(call[r]) : s.agent1 = call[r].agent1} IN
  /\ At(r, "find")
  /\ \/ found = {} /\ call' = [call EXCEPT ![r].step = "profiles"]
     \/ \E s \in found : call' = [call EXCEPT ![r].step = "found", ![r].answer = s.id]
  /\ UNCHANGED <<profiled, sessions, faults>>

\* FindSession: a session that exists is an error.
FindNone(r) ==
  /\ Go(r, "find", IF ActiveOf(call[r]) = {} THEN "profiles" ELSE "failed")
  /\ UNCHANGED <<profiled, sessions, faults>>

\* SaveSession: the preference has no enumeration.
SaveAnyPreference(r) ==
  /\ Go(r, "save", "created")
  /\ sessions' = sessions \cup {NewSession(r)}
  /\ UNCHANGED <<profiled, faults>>

--------------------------------------------------------------------------------
\* POST sessions.  "known" is history: the sessions that the request should find.
Request(r, a, b, wish) ==
  /\ call[r] = NoCall
  /\ LET asked == [agent1 |-> a, agent2 |-> b] IN
       call' = [call EXCEPT ![r] =
         [step |-> "verify", agent1 |-> a, agent2 |-> b, preferred |-> wish,
          answer |-> r, known |-> {s.id : s \in ActiveOf(asked)}]]
  /\ UNCHANGED <<profiled, sessions, faults>>

\* verifyAgentOwnership of both agents.  Profiles are never deleted, so that it makes
\* no difference whether they are read at once.
VerifyAgents(r) ==
  LET agents == {call[r].agent1, call[r].agent2} IN
  /\ Go(r, "verify",
        IF agents \subseteq profiled /\ call[r].agent1 # call[r].agent2
        THEN "find" ELSE "failed")
  /\ UNCHANGED <<profiled, sessions, faults>>

\* findOne returns any active session of the two.
FindSession(r) ==
  /\ At(r, "find")
  /\ \/ ActiveOf(call[r]) = {} /\ call' = [call EXCEPT ![r].step = "profiles"]
     \/ \E s \in ActiveOf(call[r]) :
          call' = [call EXCEPT ![r].step = "found", ![r].answer = s.id]
  /\ UNCHANGED <<profiled, sessions, faults>>

\* The profiles are read again; that of the preferred agent is to have a topic, which
\* every profile that could be saved has.
CheckTopic(r) ==
  /\ Go(r, "profiles", IF PreferredAgent(call[r]) \in profiled THEN "save" ELSE "failed")
  /\ UNCHANGED <<profiled, sessions, faults>>

\* save() refuses a preference that is not in the enumeration; nothing makes the pair
\* unique.
SaveSession(r) ==
  LET valid == call[r].preferred \in Preferences IN
  /\ Go(r, "save", IF valid THEN "created" ELSE "failed")
  /\ sessions' = IF valid THEN sessions \cup {NewSession(r)} ELSE sessions
  /\ UNCHANGED <<profiled, faults>>

--------------------------------------------------------------------------------
\* endSession
EndSession(s) ==
  /\ s.status = "active"
  /\ sessions' = (sessions \ {s}) \cup {[s EXCEPT !.status = "ended"]}
  /\ UNCHANGED <<profiled, call, faults>>

\* AgentProfileService.create: AccountProvisioning has its steps.
CreateProfile(a) ==
  /\ a \notin profiled
  /\ profiled' = profiled \cup {a}
  /\ UNCHANGED <<sessions, call, faults>>

--------------------------------------------------------------------------------
\* A database operation fails, or its answer is lost when it has had its effect.
CallFails(r) ==
  /\ faults < MaxFaults
  /\ faults' = faults + 1
  /\ r \in Running
  /\ call' = [call EXCEPT ![r].step = "failed"]
  /\ UNCHANGED profiled
  /\ IF At(r, "save") /\ call[r].preferred \in Preferences
     THEN sessions' \in {sessions, sessions \cup {NewSession(r)}}
     ELSE UNCHANGED sessions

Crash ==
  /\ faults < MaxFaults
  /\ faults' = faults + 1
  /\ Running # {}
  /\ call' = [r \in Calls |-> IF r \in Running THEN [call[r] EXCEPT !.step = "failed"]
                              ELSE call[r]]
  /\ UNCHANGED <<profiled, sessions>>

Step(r) == VerifyAgents(r) \/ FindSession(r) \/ CheckTopic(r) \/ SaveSession(r)

Next ==
  \/ \E r \in Calls, a, b \in Agents, wish \in Wishes : Request(r, a, b, wish)
  \/ \E r \in Calls : Step(r) \/ CallFails(r)
  \/ \E s \in sessions : EndSession(s)
  \/ \E a \in Agents : CreateProfile(a)
  \/ Crash

Spec == Init /\ [][Next]_vars

\* A request that has started goes on: its awaits are on the database.
FairSpec == Spec /\ \A r \in Calls : WF_vars(Step(r))

--------------------------------------------------------------------------------
(* Properties. *)

\* Documents keep their schema, requests their steps; an id names one session.
TypeOK ==
  /\ profiled \subseteq Agents
  /\ sessions \subseteq Sessions
  /\ \A s, t \in sessions : s.id = t.id => s = t
  /\ call \in [Calls -> CallData \cup {NoCall}]
  /\ faults \in 0..MaxFaults

\* "Check if active session already exists between these agents": two agents have two
\* active sessions only if their requests ran at once.
DuplicatesOverlap ==
  \A s, t \in sessions :
    s # t /\ SameAgents(s, t) /\ s.status = "active" => s.id \notin call[t.id].known

\* A request for two agents with profiles is answered with a session, an existing one
\* or a new one, unless a fault comes in between.
GoodRequestSucceeds ==
  \A r \in Calls :
    /\ At(r, "verify")
    /\ call[r].agent1 # call[r].agent2
    /\ {call[r].agent1, call[r].agent2} \subseteq profiled
    /\ call[r].preferred \in Preferences
    ~> \/ call[r].step \in {"created", "found"}
       \/ call[r].step = "failed" /\ faults > 0

================================================================================
