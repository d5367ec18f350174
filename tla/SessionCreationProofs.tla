------------------------- MODULE SessionCreationProofs -------------------------
(***************************************************************************)
(* Theorems of SessionCreation for any agents, any number of requests and  *)
(* any number of faults.                                                   *)
(***************************************************************************)
EXTENDS SessionCreation, TLAPS

Ids == {s.id : s \in sessions}

\* A session is saved by the last step of the request that made it up.
SavedInv == \A s \in sessions : call[s.id].step \in {"created", "failed"}

\* What a request should find was there when it came, and stays there.
KnownInv(r) == call[r] # NoCall => call[r].known \subseteq Ids

\* A request that has found no session has not overlooked one that it should find.
FoundInv(r) ==
  call[r].step \in {"profiles", "save"} =>
    \A s \in sessions : s.status = "active" /\ SameAgents(s, call[r]) => s.id \notin call[r].known

CreationInv ==
  /\ TypeOK
  /\ SavedInv
  /\ \A r \in Calls : KnownInv(r) /\ FoundInv(r)
  /\ DuplicatesOverlap

--------------------------------------------------------------------------------
LEMMA NoCallIsNone == NoCall \notin CallData
<1>1. ASSUME NoCall \in CallData PROVE FALSE
  <2>1. NoCall.step \in Steps
    BY <1>1 DEF CallData
  <2>2. QED
    BY <2>1 DEF NoCall, Steps
<1>2. QED
  BY <1>1

LEMMA CreationInvInit == Init => CreationInv
BY MaxFaultsIsNat DEF Init, CreationInv, TypeOK, SavedInv, KnownInv, FoundInv, DuplicatesOverlap, NoCall

\* A step of a request that leaves the sessions alone and keeps what it asked for.
LEMMA MoveKeeps ==
  ASSUME CreationInv, NEW r \in Calls, call[r] \in CallData, NEW d \in CallData,
         call' = [call EXCEPT ![r] = d], UNCHANGED sessions,
         d.agent1 = call[r].agent1, d.agent2 = call[r].agent2, d.known = call[r].known,
         call[r].step \notin {"created", "failed"},
         d.step \in {"profiles", "save"} => FoundInv(r)',
         profiled' \subseteq Agents, faults' \in 0..MaxFaults
  PROVE  CreationInv'
<1>1. TypeOK'
  BY DEF CreationInv, TypeOK
<1>2. \A q \in Calls : call'[q] = IF q = r THEN d ELSE call[q]
  BY DEF CreationInv, TypeOK
<1>3. \A s \in sessions : s.id \in Calls /\ s.id # r
  BY DEF CreationInv, SavedInv, TypeOK, Sessions
<1>4. SavedInv'
  BY <1>2, <1>3 DEF CreationInv, SavedInv
<1>5. ASSUME NEW q \in Calls PROVE KnownInv(q)'
  BY <1>2, NoCallIsNone DEF CreationInv, KnownInv, Ids
<1>6. ASSUME NEW q \in Calls PROVE FoundInv(q)'
  <2>1. CASE q = r
    BY <1>2, <2>1 DEF FoundInv
  <2>2. CASE q # r
    BY <1>2, <2>2 DEF CreationInv, FoundInv, SameAgents
  <2>3. QED
    BY <2>1, <2>2
<1>7. DuplicatesOverlap'
  BY <1>2, <1>3 DEF CreationInv, DuplicatesOverlap
<1>8. QED
  BY <1>1, <1>4, <1>5, <1>6, <1>7 DEF CreationInv

\* The insert of a new session, by a request that is answered or fails.
LEMMA InsertKeeps ==
  ASSUME CreationInv, NEW r \in Calls, call[r] \in CallData, call[r].step = "save",
         call[r].preferred \in Preferences, NEW end \in {"created", "failed"},
         call' = [call EXCEPT ![r].step = end],
         sessions' = sessions \cup {NewSession(r)},
         UNCHANGED profiled, faults' \in 0..MaxFaults
  PROVE  CreationInv'
<1>1. \A q \in Calls : call'[q] = IF q = r THEN [call[r] EXCEPT !.step = end] ELSE call[q]
  BY DEF CreationInv, TypeOK
<1>2. /\ call'[r] \in CallData /\ call'[r].step = end /\ call'[r].known = call[r].known
      /\ [call[r] EXCEPT !.step = end] \in CallData
  BY <1>1 DEF CallData, Steps
<1>3. \A s \in sessions : s.id \in Calls /\ s.id # r /\ s \in Sessions
  BY DEF CreationInv, SavedInv, TypeOK, Sessions
<1>4. NewSession(r) \in Sessions /\ NewSession(r).id = r
  BY DEF NewSession, Sessions, CallData
<1>5. TypeOK'
  BY <1>2, <1>3, <1>4 DEF CreationInv, TypeOK
<1>6. SavedInv'
  BY <1>1, <1>2, <1>3, <1>4 DEF CreationInv, SavedInv
<1>7. r \notin Ids
  BY <1>3 DEF Ids
<1>8. ASSUME NEW q \in Calls PROVE call[q] # NoCall => r \notin call[q].known
  BY <1>7 DEF CreationInv, KnownInv
<1>9. ASSUME NEW q \in Calls PROVE KnownInv(q)'
  BY <1>1, <1>2, NoCallIsNone DEF CreationInv, KnownInv, Ids
<1>10. ASSUME NEW q \in Calls PROVE FoundInv(q)'
  <2>1. CASE q = r
    BY <1>2, <2>1 DEF FoundInv
  <2>2. CASE q # r
    <3>1. call'[q] = call[q] /\ (call[q].step \in {"profiles", "save"} => call[q] # NoCall)
      BY <1>1, <2>2 DEF NoCall
    <3>2. QED
      BY <1>4, <1>8, <3>1 DEF CreationInv, FoundInv, SameAgents
  <2>3. QED
    BY <2>1, <2>2
<1>11. DuplicatesOverlap'
  <2>1. ASSUME NEW s \in sessions', NEW t \in sessions', s # t, SameAgents(s, t),
               s.status = "active"
        PROVE  s.id \notin call[t.id].known
    <3>1. CASE s \in sessions /\ t \in sessions
      BY <2>1, <3>1 DEF CreationInv, DuplicatesOverlap
    <3>2. CASE s = NewSession(r) /\ t \in sessions
      <4>1. call[t.id] # NoCall
        BY <3>2 DEF CreationInv, SavedInv, NoCall
      <4>2. QED
        BY <1>3, <1>4, <1>8, <3>2, <4>1
    <3>3. CASE s \in sessions /\ t = NewSession(r)
      <4>1. SameAgents(s, call[r])
        BY <2>1, <3>3 DEF SameAgents, NewSession
      <4>2. QED
        BY <1>4, <2>1, <3>3, <4>1 DEF CreationInv, FoundInv
    <3>4. QED
      BY <2>1, <3>1, <3>2, <3>3
  <2>2. \A t \in sessions' : t.id \in Calls /\ call'[t.id].known = call[t.id].known
    BY <1>1, <1>2, <1>3, <1>4
  <2>3. QED
    BY <2>1, <2>2 DEF DuplicatesOverlap, SameAgents
<1>12. QED
  BY <1>5, <1>6, <1>9, <1>10, <1>11 DEF CreationInv

LEMMA RequestKeeps ==
  ASSUME CreationInv, NEW r \in Calls, NEW a \in Agents, NEW b \in Agents,
         NEW wish \in Wishes, Request(r, a, b, wish)
  PROVE  CreationInv'
<1> DEFINE known == {s.id : s \in ActiveOf([agent1 |-> a, agent2 |-> b])}
           d == [step |-> "verify", agent1 |-> a, agent2 |-> b, preferred |-> wish,
                 answer |-> r, known |-> known]
<1>1. call[r] = NoCall /\ call' = [call EXCEPT ![r] = d] /\ UNCHANGED <<profiled, sessions, faults>>
  BY DEF Request
<1>2. known \subseteq Ids /\ Ids \subseteq Calls
  BY DEF ActiveOf, Ids, CreationInv, TypeOK, Sessions
<1>3. d \in CallData /\ d.step = "verify" /\ d.known = known
  BY <1>2 DEF CallData, Steps
<1> HIDE DEF d, known
<1>4. \A q \in Calls : call'[q] = IF q = r THEN d ELSE call[q]
  BY <1>1 DEF CreationInv, TypeOK
<1>5. \A s \in sessions : s.id \in Calls /\ s.id # r
  BY <1>1 DEF CreationInv, SavedInv, TypeOK, Sessions, NoCall
<1>6. TypeOK'
  BY <1>1, <1>3 DEF CreationInv, TypeOK
<1>7. SavedInv' /\ DuplicatesOverlap'
  BY <1>1, <1>4, <1>5 DEF CreationInv, SavedInv, DuplicatesOverlap
<1>8. ASSUME NEW q \in Calls PROVE KnownInv(q)'
  BY <1>1, <1>2, <1>3, <1>4 DEF CreationInv, KnownInv, Ids
<1>9. ASSUME NEW q \in Calls PROVE FoundInv(q)'
  BY <1>1, <1>3, <1>4 DEF CreationInv, FoundInv, SameAgents
<1>10. QED
  BY <1>6, <1>7, <1>8, <1>9 DEF CreationInv

\* A session that ends keeps its id and its agents and is no duplicate any more.
LEMMA EndKeeps ==
  ASSUME CreationInv, NEW s \in sessions, EndSession(s)
  PROVE  CreationInv'
<1> DEFINE e == [s EXCEPT !.status = "ended"]
<1>1. s \in Sessions
  BY DEF CreationInv, TypeOK
<1>2. e \in Sessions /\ e.id = s.id /\ e.status = "ended"
  BY <1>1 DEF Sessions
<1>3. sessions' = (sessions \ {s}) \cup {e} /\ UNCHANGED <<profiled, call, faults>>
  BY DEF EndSession
<1> HIDE DEF e
<1>4. Ids' = Ids
  BY <1>2, <1>3 DEF Ids
<1>5. \A t \in sessions' : t.status = "active" => t \in sessions
  BY <1>2, <1>3
<1>6. \A t \in sessions' : \E u \in sessions : t.id = u.id /\ (t # e => t = u)
  BY <1>2, <1>3
<1>7. TypeOK'
  BY <1>2, <1>3, <1>6 DEF CreationInv, TypeOK
<1>8. SavedInv'
  BY <1>3, <1>6 DEF CreationInv, SavedInv
<1>9. \A q \in Calls : KnownInv(q)' /\ FoundInv(q)'
  BY <1>3, <1>4, <1>5 DEF CreationInv, KnownInv, FoundInv, SameAgents
<1>10. DuplicatesOverlap'
  <2>1. ASSUME NEW x \in sessions', NEW y \in sessions', x # y, SameAgents(x, y),
               x.status = "active"
        PROVE  x.id \notin call[y.id].known
    <3>1. x \in sessions
      BY <1>5, <2>1
    <3>2. CASE y \in sessions
      BY <2>1, <3>1, <3>2 DEF CreationInv, DuplicatesOverlap
    <3>3. CASE y = e
      <4>1. x # s
        BY <1>2, <1>3, <2>1
      <4>2. SameAgents(x, s)
        BY <1>1, <2>1, <3>3 DEF SameAgents, Sessions, e
      <4>3. QED
        BY <1>2, <2>1, <3>1, <3>3, <4>1, <4>2 DEF CreationInv, DuplicatesOverlap
    <3>4. QED
      BY <1>3, <3>2, <3>3
  <2>2. QED
    BY <1>3, <2>1 DEF DuplicatesOverlap, SameAgents
<1>11. QED
  BY <1>7, <1>8, <1>9, <1>10 DEF CreationInv

LEMMA StepKeeps ==
  ASSUME CreationInv, NEW r \in Calls, Step(r) \/ CallFails(r)
  PROVE  CreationInv'
<1>1. call[r] \in CallData /\ call[r] # NoCall
      /\ call[r].step \in {"verify", "find", "profiles", "save"}
  <2>1. call[r].step \in {"verify", "find", "profiles", "save"}
    BY DEF Step, VerifyAgents, FindSession, CheckTopic, SaveSession, CallFails, Running, Go, At
  <2>2. QED
    BY <2>1 DEF CreationInv, TypeOK, NoCall
<1>2. ASSUME NEW to \in Steps
      PROVE  LET d == [call[r] EXCEPT !.step = to] IN
             /\ d \in CallData /\ d.step = to /\ d.known = call[r].known
             /\ d.agent1 = call[r].agent1 /\ d.agent2 = call[r].agent2
  BY <1>1 DEF CallData
<1>3. faults \in 0..MaxFaults /\ profiled \subseteq Agents
  BY DEF CreationInv, TypeOK
<1>4. CASE VerifyAgents(r)
  <2>1. PICK to \in {"find", "failed"} : call' = [call EXCEPT ![r] = [call[r] EXCEPT !.step = to]]
    BY <1>4 DEF VerifyAgents, Go
  <2>2. UNCHANGED <<profiled, sessions, faults>>
    BY <1>4 DEF VerifyAgents
  <2>3. QED
    BY <1>1, <1>2, <1>3, <2>1, <2>2, MoveKeeps DEF Steps
<1>5. CASE FindSession(r)
  <2>1. UNCHANGED <<profiled, sessions, faults>>
    BY <1>5 DEF FindSession
  <2>2. CASE ActiveOf(call[r]) = {} /\ call' = [call EXCEPT ![r].step = "profiles"]
    <3>1. call'[r] = [call[r] EXCEPT !.step = "profiles"]
      BY <2>2 DEF CreationInv, TypeOK
    <3>2. call'[r].agent1 = call[r].agent1 /\ call'[r].agent2 = call[r].agent2
      BY <1>2, <3>1 DEF Steps
    <3>3. FoundInv(r)'
      BY <2>1, <2>2, <3>2 DEF FoundInv, ActiveOf, SameAgents
    <3>4. QED
      BY <1>1, <1>2, <1>3, <2>1, <2>2, <3>3, MoveKeeps DEF Steps
  <2>3. ASSUME NEW s \in ActiveOf(call[r]),
               call' = [call EXCEPT ![r].step = "found", ![r].answer = s.id]
        PROVE  CreationInv'
    <3> DEFINE d == [call[r] EXCEPT !.step = "found", !.answer = s.id]
    <3>1. s.id \in Calls
      BY DEF ActiveOf, CreationInv, TypeOK, Sessions
    <3>2. /\ d \in CallData /\ d.step = "found" /\ d.known = call[r].known
          /\ d.agent1 = call[r].agent1 /\ d.agent2 = call[r].agent2
      BY <1>1, <3>1 DEF CallData, Steps
    <3>3. call' = [call EXCEPT ![r] = d]
      BY <2>3
    <3> HIDE DEF d
    <3>4. QED
      BY <1>1, <1>3, <2>1, <3>2, <3>3, MoveKeeps
  <2>4. QED
    BY <1>5, <2>2, <2>3 DEF FindSession
<1>6. CASE CheckTopic(r)
  <2>1. PICK to \in {"save", "failed"} : call' = [call EXCEPT ![r] = [call[r] EXCEPT !.step = to]]
    BY <1>6 DEF CheckTopic, Go
  <2>2. UNCHANGED <<profiled, sessions, faults>> /\ call[r].step = "profiles"
    BY <1>6 DEF CheckTopic, Go, At
  <2>3. call'[r] = [call[r] EXCEPT !.step = to]
    BY <2>1 DEF CreationInv, TypeOK
  <2>4. /\ call'[r].agent1 = call[r].agent1 /\ call'[r].agent2 = call[r].agent2
        /\ call'[r].known = call[r].known
    BY <1>2, <2>3 DEF Steps
  <2>5. FoundInv(r)'
    BY <2>2, <2>4 DEF CreationInv, FoundInv, SameAgents
  <2>6. QED
    BY <1>1, <1>2, <1>3, <2>1, <2>2, <2>5, MoveKeeps DEF Steps
<1>7. CASE SaveSession(r)
  <2>1. UNCHANGED <<profiled, faults>> /\ call[r].step = "save"
    BY <1>7 DEF SaveSession, Go, At
  <2>2. CASE call[r].preferred \in Preferences
    <3>1. call' = [call EXCEPT ![r].step = "created"] /\ sessions' = sessions \cup {NewSession(r)}
      BY <1>7, <2>2 DEF SaveSession, Go
    <3>2. QED
      BY <1>1, <1>3, <2>1, <2>2, <3>1, InsertKeeps
  <2>3. CASE call[r].preferred \notin Preferences
    <3>1. call' = [call EXCEPT ![r] = [call[r] EXCEPT !.step = "failed"]] /\ UNCHANGED sessions
      BY <1>7, <2>3 DEF SaveSession, Go
    <3>2. QED
      BY <1>1, <1>2, <1>3, <2>1, <3>1, MoveKeeps DEF Steps
  <2>4. QED
    BY <2>2, <2>3
<1>8. CASE CallFails(r)
  <2>1. call' = [call EXCEPT ![r] = [call[r] EXCEPT !.step = "failed"]] /\ UNCHANGED profiled
    BY <1>8 DEF CallFails
  <2>2. faults' \in 0..MaxFaults
    BY <1>3, <1>8, MaxFaultsIsNat DEF CallFails
  <2>3. CASE UNCHANGED sessions
    BY <1>1, <1>2, <1>3, <2>1, <2>2, <2>3, MoveKeeps DEF Steps
  <2>4. CASE sessions' # sessions
    <3>1. /\ call[r].step = "save" /\ call[r].preferred \in Preferences
          /\ sessions' = sessions \cup {NewSession(r)}
      BY <1>8, <2>4 DEF CallFails, At
    <3>2. QED
      BY <1>1, <2>1, <2>2, <3>1, InsertKeeps
  <2>5. QED
    BY <2>3, <2>4
<1>9. QED
  BY <1>4, <1>5, <1>6, <1>7, <1>8 DEF Step

LEMMA CrashKeeps ==
  ASSUME CreationInv, Crash
  PROVE  CreationInv'
<1>1. ASSUME NEW q \in Calls
      PROVE  \/ call'[q] = call[q]
             \/ /\ call[q] \in CallData /\ call'[q] \in CallData
                /\ call'[q].step = "failed" /\ call'[q].known = call[q].known
  <2>1. CASE q \in Running
    <3>1. call[q] \in CallData
      BY <2>1 DEF Running, CreationInv, TypeOK, NoCall
    <3>2. call'[q] = [call[q] EXCEPT !.step = "failed"]
      BY <2>1 DEF Crash
    <3>3. QED
      BY <3>1, <3>2 DEF CallData, Steps
  <2>2. CASE q \notin Running
    BY <2>2 DEF Crash
  <2>3. QED
    BY <2>1, <2>2
<1>2. UNCHANGED <<profiled, sessions>> /\ faults' \in 0..MaxFaults
  BY MaxFaultsIsNat DEF Crash, CreationInv, TypeOK
<1>3. call' \in [Calls -> CallData \cup {NoCall}]
  BY <1>1 DEF Crash, CreationInv, TypeOK
<1>4. TypeOK'
  BY <1>2, <1>3 DEF CreationInv, TypeOK
<1>5. \A s \in sessions : s.id \in Calls
  BY DEF CreationInv, TypeOK, Sessions
<1>6. SavedInv' /\ DuplicatesOverlap'
  BY <1>1, <1>2, <1>5 DEF CreationInv, SavedInv, DuplicatesOverlap
<1>7. ASSUME NEW q \in Calls PROVE KnownInv(q)' /\ FoundInv(q)'
  BY <1>1, <1>2, NoCallIsNone DEF CreationInv, KnownInv, FoundInv, Ids, SameAgents
<1>8. QED
  BY <1>4, <1>6, <1>7 DEF CreationInv

LEMMA CreationInvStep == CreationInv /\ [Next]_vars => CreationInv'
<1>1. SUFFICES ASSUME CreationInv, [Next]_vars PROVE CreationInv'
  OBVIOUS
<1>2. ASSUME NEW a \in Agents, CreateProfile(a) PROVE CreationInv'
  BY <1>1, <1>2 DEF CreateProfile, CreationInv, TypeOK, SavedInv, KnownInv, FoundInv,
                    DuplicatesOverlap, SameAgents, Ids
<1>3. CASE UNCHANGED vars
  BY <1>1, <1>3 DEF vars, CreationInv, TypeOK, SavedInv, KnownInv, FoundInv,
                    DuplicatesOverlap, SameAgents, Ids
<1>4. QED
  BY <1>1, <1>2, <1>3, RequestKeeps, StepKeeps, EndKeeps, CrashKeeps DEF Next

--------------------------------------------------------------------------------
LEMMA CreationInvariant == Spec => []CreationInv
BY CreationInvInit, CreationInvStep, PTL DEF Spec

\* Documents keep their schema and an id names one session, for any number of requests.
THEOREM TypesKeep == Spec => []TypeOK
<1>1. CreationInv => TypeOK
  BY DEF CreationInv
<1>2. QED
  BY CreationInvariant, <1>1, PTL

\* However many requests for one pair of agents there are, and whatever fails: a
\* request that comes when a session of the pair is active, and stays so, never
\* leads to a second one.
THEOREM NoDuplicateInSequence == Spec => []DuplicatesOverlap
<1>1. CreationInv => DuplicatesOverlap
  BY DEF CreationInv
<1>2. QED
  BY CreationInvariant, <1>1, PTL
===============================================================================
