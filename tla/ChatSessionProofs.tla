--------------------------- MODULE ChatSessionProofs ---------------------------
(***************************************************************************)
(* Proofs about ChatSession: for any sets of calls and any number of       *)
(* faults, the types, the archive invariant and what follows from it.      *)
(***************************************************************************)
EXTENDS ChatSession, FiniteSetTheorems, TLAPS

\* TypeOK alone is not inductive: an update of the transcript keeps its type only
\* because a call that gets that far has a transcript to update.
HeldTranscript ==
  \A p \in Submitters : spc[p] \in Owning \cup Retrying => transcript # NoTranscript

TypeInv == TypeOK /\ HeldTranscript

LEMMA TypeInvariant == Spec => []TypeInv
<1>1. Init => TypeInv
  BY MaxFaultsIsNat DEF Init, TypeInv, HeldTranscript, TypeOK, Sessions, Posts, WriterSteps, SubmitterSteps, Owning,
        Retrying
<1>2. TypeInv /\ [Next]_vars => TypeInv'
  <2> SUFFICES ASSUME TypeInv, [Next]_vars
               PROVE  TypeInv'
    OBVIOUS
  <2> USE NoTranscriptIsNone DEF TypeInv, HeldTranscript, TypeOK, Sessions, Posts, WriterSteps, SubmitterSteps, Owning, Retrying, Ended, ghosts
  <2>1. ASSUME NEW w \in Writers, FindActiveSession(w)
        PROVE  TypeInv'
    BY <2>1 DEF FindActiveSession, WriterGo
  <2>2. ASSUME NEW w \in Writers, SaveMessage(w)
        PROVE  TypeInv'
    BY <2>2 DEF SaveMessage, WriterGo
  <2>3. ASSUME NEW w \in Writers, IncMessageCount(w)
        PROVE  TypeInv'
    BY <2>3 DEF IncMessageCount, WriterGo
  <2>4. ASSUME NEW w \in Writers, Announce(w)
        PROVE  TypeInv'
    BY <2>4 DEF Announce, WriterGo
  <2>5. ASSUME NEW w \in Writers, WriterDbError(w)
        PROVE  TypeInv'
    BY <2>5, MaxFaultsIsNat DEF WriterDbError
  <2>6. ASSUME NEW p \in Submitters, Begin(p)
        PROVE  TypeInv'
    BY <2>6 DEF Begin, BeginEndEvent, BeginDelete, BeginGenerate, SubmitterGo
  <2>7. ASSUME NEW p \in Submitters, EndSession(p)
        PROVE  TypeInv'
    BY <2>7 DEF EndSession, SubmitterGo
  <2>8. ASSUME NEW p \in Submitters, LookupTranscript(p)
        PROVE  TypeInv'
    BY <2>8 DEF LookupTranscript, SubmitterGo, Transcripts
  <2>9. ASSUME NEW p \in Submitters, Repost(p)
        PROVE  TypeInv'
    BY <2>9 DEF Repost, PostToTopic, SubmitterGo
  <2>10. ASSUME NEW p \in Submitters, Reflag(p)
         PROVE  TypeInv'
    BY <2>10 DEF Reflag, SubmitterGo, Transcripts
  <2>11. ASSUME NEW p \in Submitters, FetchMessages(p)
         PROVE  TypeInv'
    BY <2>11 DEF FetchMessages, SubmitterGo
  <2>12. ASSUME NEW p \in Submitters, StoreTranscript(p)
         PROVE  TypeInv'
    <3>1. [msgs |-> snapshot[p], submittedToHcs |-> FALSE] \in Transcripts
      BY DEF Transcripts
    <3>2. QED
      BY <2>12, <3>1 DEF StoreTranscript, SubmitterGo
  <2>13. ASSUME NEW p \in Submitters, PostTranscript(p)
         PROVE  TypeInv'
    BY <2>13 DEF PostTranscript, PostToTopic, SubmitterGo
  <2>14. ASSUME NEW p \in Submitters, FlagSubmitted(p)
         PROVE  TypeInv'
    BY <2>14 DEF FlagSubmitted, SubmitterGo, Transcripts
  <2>15. ASSUME NEW p \in Submitters, FlagNotSubmitted(p)
         PROVE  TypeInv'
    BY <2>15 DEF FlagNotSubmitted, SubmitterGo, Transcripts
  <2>16. ASSUME NEW p \in Submitters, MarkSubmitted(p)
         PROVE  TypeInv'
    BY <2>16 DEF MarkSubmitted, SubmitterGo
  <2>17. ASSUME NEW p \in Submitters, Cleanup(p)
         PROVE  TypeInv'
    BY <2>17 DEF Cleanup, SubmitterGo
  <2>18. ASSUME NEW p \in Submitters, SubmitterDbError(p)
         PROVE  TypeInv'
    BY <2>18, MaxFaultsIsNat DEF SubmitterDbError, SubmitterGo
  <2>19. CASE Crash
    BY <2>19, MaxFaultsIsNat DEF Crash
  <2>20. CASE UNCHANGED vars
    BY <2>20 DEF vars
  <2>21. QED
    BY <2>1, <2>2, <2>3, <2>4, <2>5, <2>6, <2>7, <2>8, <2>9, <2>10, <2>11, <2>12,
       <2>13, <2>14, <2>15, <2>16, <2>17, <2>18, <2>19, <2>20
       DEF Next, WriterStep, SubmitterStep
<1>3. QED
  BY <1>1, <1>2, PTL DEF Spec

\* The documents keep the fields their schemas declare and the calls the data
\* their awaits leave them, whatever the interleaving.
THEOREM TypeCorrect == Spec => []TypeOK
BY TypeInvariant, PTL DEF TypeInv

--------------------------------------------------------------------------------
LEMMA ArchiveInvInit == Init => ArchiveInv
BY NoTranscriptIsNone
   DEF Init, ArchiveInv, UnmarkedKeepsAll, SubmitterKnows, OnlyLateMessagesLost,
       SingleArchiver, FlagImpliesPosted, TopicFromArchive, Owning, Retrying,
       Archived


LEMMA ArchiveInvStep == TypeInv /\ ArchiveInv /\ [Next]_vars => ArchiveInv'
<1> SUFFICES ASSUME TypeInv, ArchiveInv, [Next]_vars
             PROVE  ArchiveInv'
  OBVIOUS
<1> USE NoTranscriptIsNone
    DEF TypeInv, TypeOK, Sessions, Posts, HeldTranscript, ArchiveInv, UnmarkedKeepsAll,
        SubmitterKnows, OnlyLateMessagesLost, SingleArchiver, FlagImpliesPosted,
        TopicFromArchive, Archived, Transcripts, WriterSteps, SubmitterSteps,
        Owning, Retrying, Ended, ghosts
<1>1. ASSUME NEW w \in Writers, FindActiveSession(w)
      PROVE  ArchiveInv'
  BY <1>1 DEF FindActiveSession, WriterGo
<1>2. ASSUME NEW w \in Writers, SaveMessage(w)
      PROVE  ArchiveInv'
  BY <1>2 DEF SaveMessage, WriterGo
<1>3. ASSUME NEW w \in Writers, IncMessageCount(w)
      PROVE  ArchiveInv'
  BY <1>3 DEF IncMessageCount, WriterGo
<1>4. ASSUME NEW w \in Writers, Announce(w)
      PROVE  ArchiveInv'
  BY <1>4 DEF Announce, WriterGo
<1>5. ASSUME NEW w \in Writers, WriterDbError(w)
      PROVE  ArchiveInv'
  BY <1>5 DEF WriterDbError
<1>6. ASSUME NEW p \in Submitters, Begin(p)
      PROVE  ArchiveInv'
  BY <1>6 DEF Begin, BeginEndEvent, BeginDelete, BeginGenerate, SubmitterGo
<1>7. ASSUME NEW p \in Submitters, EndSession(p)
      PROVE  ArchiveInv'
  BY <1>7 DEF EndSession, SubmitterGo
<1>8. ASSUME NEW p \in Submitters, LookupTranscript(p)
      PROVE  ArchiveInv'
  BY <1>8 DEF LookupTranscript, SubmitterGo
<1>9. ASSUME NEW p \in Submitters, Repost(p)
      PROVE  ArchiveInv'
  <2>1. UnmarkedKeepsAll'
    BY <1>9 DEF Repost, PostToTopic, SubmitterGo
  <2>2. \A q \in Submitters : SubmitterKnows(q)'
    <3>1. topic \subseteq topic'
      BY <1>9 DEF Repost, PostToTopic, SubmitterGo
    <3>2. spc'[p] = "reflag" => [by |-> p, of |-> snapshot[p], wording |-> "stored"] \in topic'
      BY <1>9 DEF Repost, PostToTopic, SubmitterGo
    <3>3. spc'[p] = "reflag" => \E r \in topic' : r.of = snapshot'[p]
      BY <1>9, <3>2 DEF Repost
    <3>4. QED
      BY <1>9, <3>1, <3>3 DEF Repost, PostToTopic, SubmitterGo
  <2>3. OnlyLateMessagesLost'
    BY <1>9 DEF Repost, PostToTopic, SubmitterGo
  <2>4. SingleArchiver'
    BY <1>9 DEF Repost, PostToTopic, SubmitterGo
  <2>5. FlagImpliesPosted'
    BY <1>9 DEF Repost, PostToTopic, SubmitterGo
  <2>6. TopicFromArchive'
    BY <1>9 DEF Repost, PostToTopic, SubmitterGo
  <2>7. QED
    BY <2>1, <2>2, <2>3, <2>4, <2>5, <2>6
<1>10. ASSUME NEW p \in Submitters, Reflag(p)
      PROVE  ArchiveInv'
  <2>1. transcript \in Transcripts /\ snapshot[p] = transcript.msgs
    BY <1>10 DEF Reflag, SubmitterGo
  <2>2. transcript' = [transcript EXCEPT !.submittedToHcs = TRUE]
    BY <1>10 DEF Reflag
  <2>3. /\ transcript' \in Transcripts
        /\ transcript'.msgs = transcript.msgs
        /\ transcript'.submittedToHcs = TRUE
    BY ONLY <2>1, <2>2 DEF Transcripts
  <2>4. transcript' # NoTranscript
    BY <2>3
  <2>5. spc[p] = "reflag" /\ spc' = [spc EXCEPT ![p] = "done"]
    BY <1>10 DEF Reflag, SubmitterGo
  <2>6. UNCHANGED <<session, messages, topic, wpc, snapshot, saved, late>>
    BY <1>10 DEF Reflag
  <2>7. UnmarkedKeepsAll' /\ OnlyLateMessagesLost' /\ SingleArchiver'
    BY <2>1, <2>3, <2>4, <2>5, <2>6
  <2>8. \A q \in Submitters : SubmitterKnows(q)'
    BY <2>1, <2>3, <2>4, <2>5, <2>6
  <2>9. FlagImpliesPosted' /\ TopicFromArchive'
    BY <2>1, <2>3, <2>4, <2>5, <2>6
  <2>10. QED
    BY <2>7, <2>8, <2>9
<1>11. ASSUME NEW p \in Submitters, FetchMessages(p)
      PROVE  ArchiveInv'
  BY <1>11 DEF FetchMessages, SubmitterGo
<1>12. ASSUME NEW p \in Submitters, StoreTranscript(p)
      PROVE  ArchiveInv'
  <2>1. CASE transcript # NoTranscript
    BY <1>12, <2>1 DEF StoreTranscript, SubmitterGo
  <2>2. CASE transcript = NoTranscript /\ spc' = [spc EXCEPT ![p] = "post"]
    <3>1. /\ transcript' \in Transcripts
          /\ transcript'.msgs = snapshot[p]
          /\ transcript'.submittedToHcs = FALSE
      <4>1. transcript' = [msgs |-> snapshot[p], submittedToHcs |-> FALSE]
        BY <1>12, <2>2 DEF StoreTranscript
      <4>2. snapshot[p] \in SUBSET Writers
        OBVIOUS
      <4>3. QED
        BY <4>1, <4>2
    <3>2. transcript' # NoTranscript
      BY <3>1
    <3>3. topic = {}
      BY <2>2
    <3>4. saved \ late \subseteq snapshot[p] /\ spc[p] = "store"
      BY <1>12, <2>2 DEF StoreTranscript, SubmitterGo
    <3>5. \A q \in Submitters : spc[q] \notin Owning \cup Retrying /\ spc[q] # "done"
      BY <2>2
    <3>6. UnmarkedKeepsAll' /\ OnlyLateMessagesLost'
      BY <1>12, <2>2, <3>1, <3>2 DEF StoreTranscript
    <3>7. \A q \in Submitters : SubmitterKnows(q)'
      BY <1>12, <2>2, <3>1, <3>2, <3>4, <3>5 DEF StoreTranscript
    <3>8. SingleArchiver'
      BY <1>12, <2>2, <3>5 DEF StoreTranscript
    <3>9. FlagImpliesPosted' /\ TopicFromArchive'
      BY <1>12, <2>2, <3>1, <3>2, <3>3 DEF StoreTranscript
    <3>10. QED
      BY <3>6, <3>7, <3>8, <3>9
  <2>3. QED
    BY <1>12, <2>1, <2>2 DEF StoreTranscript, SubmitterGo
<1>13. ASSUME NEW p \in Submitters, PostTranscript(p)
      PROVE  ArchiveInv'
  <2>1. UnmarkedKeepsAll'
    BY <1>13 DEF PostTranscript, PostToTopic, SubmitterGo
  <2>2. \A q \in Submitters : SubmitterKnows(q)'
    <3>1. topic \subseteq topic'
      BY <1>13 DEF PostTranscript, PostToTopic, SubmitterGo
    <3>2. spc'[p] = "flag" => \E text \in {"stored", "reworded"} :
            [by |-> p, of |-> snapshot[p], wording |-> text] \in topic'
      BY <1>13 DEF PostTranscript, PostToTopic, SubmitterGo
    <3>3. spc'[p] = "flag" => \E r \in topic' : r.of = snapshot'[p]
      BY <1>13, <3>2 DEF PostTranscript
    <3>4. QED
      BY <1>13, <3>1, <3>3 DEF PostTranscript, PostToTopic, SubmitterGo
  <2>3. OnlyLateMessagesLost'
    BY <1>13 DEF PostTranscript, PostToTopic, SubmitterGo
  <2>4. SingleArchiver'
    BY <1>13 DEF PostTranscript, PostToTopic, SubmitterGo
  <2>5. FlagImpliesPosted'
    BY <1>13 DEF PostTranscript, PostToTopic, SubmitterGo
  <2>6. TopicFromArchive'
    BY <1>13 DEF PostTranscript, PostToTopic, SubmitterGo
  <2>7. QED
    BY <2>1, <2>2, <2>3, <2>4, <2>5, <2>6
<1>14. ASSUME NEW p \in Submitters, FlagSubmitted(p)
      PROVE  ArchiveInv'
  <2>1. transcript \in Transcripts /\ snapshot[p] = transcript.msgs
    BY <1>14 DEF FlagSubmitted, SubmitterGo
  <2>2. /\ transcript' # NoTranscript
        /\ transcript'.msgs = transcript.msgs
        /\ transcript'.submittedToHcs = TRUE
    <3>1. transcript' = [transcript EXCEPT !.submittedToHcs = TRUE]
      BY <1>14 DEF FlagSubmitted
    <3>2. transcript' \in Transcripts
      BY ONLY <2>1, <3>1 DEF Transcripts
    <3>3. transcript'.msgs = transcript.msgs /\ transcript'.submittedToHcs = TRUE
      BY ONLY <2>1, <3>1 DEF Transcripts
    <3>4. QED
      BY <3>2, <3>3
  <2>3. spc' = [spc EXCEPT ![p] = "mark"] /\ spc[p] \in {"flag", "unflag"}
    BY <1>14 DEF FlagSubmitted, SubmitterGo
  <2>4. UnmarkedKeepsAll'
    BY <1>14, <2>1, <2>2, <2>3 DEF FlagSubmitted, SubmitterGo
  <2>5. \A q \in Submitters : SubmitterKnows(q)'
    BY <1>14, <2>1, <2>2, <2>3 DEF FlagSubmitted, SubmitterGo
  <2>6. OnlyLateMessagesLost'
    BY <1>14, <2>1, <2>2, <2>3 DEF FlagSubmitted, SubmitterGo
  <2>7. SingleArchiver'
    BY <1>14, <2>1, <2>2, <2>3 DEF FlagSubmitted, SubmitterGo
  <2>8. FlagImpliesPosted'
    BY <1>14, <2>1, <2>2, <2>3 DEF FlagSubmitted, SubmitterGo
  <2>9. TopicFromArchive'
    BY <1>14, <2>1, <2>2, <2>3 DEF FlagSubmitted, SubmitterGo
  <2>10. QED
    BY <2>4, <2>5, <2>6, <2>7, <2>8, <2>9
<1>15. ASSUME NEW p \in Submitters, FlagNotSubmitted(p)
      PROVE  ArchiveInv'
  <2>1. transcript \in Transcripts /\ snapshot[p] = transcript.msgs
    BY <1>15 DEF FlagNotSubmitted, SubmitterGo
  <2>2. /\ transcript' # NoTranscript
        /\ transcript'.msgs = transcript.msgs
        /\ transcript'.submittedToHcs = FALSE
    <3>1. transcript' = [transcript EXCEPT !.submittedToHcs = FALSE]
      BY <1>15 DEF FlagNotSubmitted
    <3>2. transcript' \in Transcripts
      BY ONLY <2>1, <3>1 DEF Transcripts
    <3>3. transcript'.msgs = transcript.msgs /\ transcript'.submittedToHcs = FALSE
      BY ONLY <2>1, <3>1 DEF Transcripts
    <3>4. QED
      BY <3>2, <3>3
  <2>3. spc' = [spc EXCEPT ![p] = "mark"] /\ spc[p] \in {"flag", "unflag"}
    BY <1>15 DEF FlagNotSubmitted, SubmitterGo
  <2>4. UnmarkedKeepsAll'
    BY <1>15, <2>1, <2>2, <2>3 DEF FlagNotSubmitted, SubmitterGo
  <2>5. \A q \in Submitters : SubmitterKnows(q)'
    BY <1>15, <2>1, <2>2, <2>3 DEF FlagNotSubmitted, SubmitterGo
  <2>6. OnlyLateMessagesLost'
    BY <1>15, <2>1, <2>2, <2>3 DEF FlagNotSubmitted, SubmitterGo
  <2>7. SingleArchiver'
    BY <1>15, <2>1, <2>2, <2>3 DEF FlagNotSubmitted, SubmitterGo
  <2>8. FlagImpliesPosted'
    BY <1>15, <2>1, <2>2, <2>3 DEF FlagNotSubmitted, SubmitterGo
  <2>9. TopicFromArchive'
    BY <1>15, <2>1, <2>2, <2>3 DEF FlagNotSubmitted, SubmitterGo
  <2>10. QED
    BY <2>4, <2>5, <2>6, <2>7, <2>8, <2>9
<1>16. ASSUME NEW p \in Submitters, MarkSubmitted(p)
      PROVE  ArchiveInv'
  BY <1>16 DEF MarkSubmitted, SubmitterGo
<1>17. ASSUME NEW p \in Submitters, Cleanup(p)
      PROVE  ArchiveInv'
  BY <1>17 DEF Cleanup, SubmitterGo
<1>18. ASSUME NEW p \in Submitters, SubmitterDbError(p)
      PROVE  ArchiveInv'
  BY <1>18 DEF SubmitterDbError, SubmitterGo
<1>19. CASE Crash
  BY <1>19 DEF Crash
<1>20. CASE UNCHANGED vars
  BY <1>20 DEF vars
<1>21. QED
  BY <1>1, <1>2, <1>3, <1>4, <1>5, <1>6, <1>7, <1>8, <1>9, <1>10, <1>11, <1>12, <1>13, <1>14, <1>15, <1>16, <1>17, <1>18, <1>19, <1>20
     DEF Next, WriterStep, SubmitterStep

--------------------------------------------------------------------------------
LEMMA ArchiveInvariant == Spec => [](TypeInv /\ ArchiveInv)
BY TypeInvariant, ArchiveInvInit, ArchiveInvStep, PTL DEF Spec

\* A step that posts nothing and takes nobody into the pipeline, and nobody out of
\* it but to an end, says nothing new of the reworded texts.
LEMMA RewordUndisturbed ==
  ASSUME TypeInv, OneRewording, ReworderIsArchiver,
         \A r \in topic' : r.wording = "reworded" => r \in topic,
         \A q \in Submitters : spc'[q] \in Owning => spc[q] \in Owning,
         \A q \in Submitters : spc[q] \in (Owning \ {"post"}) \cup Ended =>
                                spc'[q] \in (Owning \ {"post"}) \cup Ended
  PROVE  OneRewording' /\ ReworderIsArchiver'
<1>1. OneRewording'
  BY DEF OneRewording
<1>2. ReworderIsArchiver'
  <2> SUFFICES ASSUME NEW r \in topic', r.wording = "reworded"
               PROVE  /\ spc'[r.by] \in (Owning \ {"post"}) \cup Ended
                      /\ \A q \in Submitters : spc'[q] \in Owning => q = r.by
    BY DEF ReworderIsArchiver
  <2>1. r \in topic /\ r.by \in Submitters
    BY DEF TypeInv, TypeOK, Posts
  <2>2. QED
    BY <2>1 DEF ReworderIsArchiver
<1>3. QED
  BY <1>1, <1>2

LEMMA RewordStep ==
  ASSUME TypeInv, ArchiveInv, OneRewording, ReworderIsArchiver, [Next]_vars
  PROVE  OneRewording' /\ ReworderIsArchiver'
<1> USE DEF Owning, Ended, ghosts
<1>1. spc \in [Submitters -> SubmitterSteps] /\ topic \in SUBSET Posts
  BY DEF TypeInv, TypeOK
<1>2. ASSUME NEW w \in Writers, FindActiveSession(w) \/ WriterStep(w) \/ WriterDbError(w)
      PROVE  OneRewording' /\ ReworderIsArchiver'
  <2>1. topic' = topic /\ spc' = spc
    BY <1>2 DEF FindActiveSession, WriterStep, SaveMessage, IncMessageCount, Announce,
                WriterDbError
  <2>2. QED
    BY <2>1, RewordUndisturbed
<1>3. ASSUME NEW p \in Submitters, Begin(p) \/ SubmitterDbError(p)
      PROVE  OneRewording' /\ ReworderIsArchiver'
  <2>1. topic' = topic
    BY <1>3 DEF Begin, BeginEndEvent, BeginDelete, BeginGenerate, SubmitterDbError
  <2>2. /\ \A q \in Submitters : spc'[q] \in Owning => spc[q] \in Owning
        /\ \A q \in Submitters : spc[q] \in (Owning \ {"post"}) \cup Ended =>
                                 spc'[q] \in (Owning \ {"post"}) \cup Ended
    BY <1>1, <1>3 DEF Begin, BeginEndEvent, BeginDelete, BeginGenerate, SubmitterDbError,
                      SubmitterGo
  <2>3. QED
    BY <2>1, <2>2, RewordUndisturbed
<1>4. ASSUME NEW p \in Submitters, EndSession(p) \/ LookupTranscript(p) \/ FetchMessages(p)
      PROVE  OneRewording' /\ ReworderIsArchiver'
  <2>1. topic' = topic
    BY <1>4 DEF EndSession, LookupTranscript, FetchMessages
  <2>2. /\ \A q \in Submitters : spc'[q] \in Owning => spc[q] \in Owning
        /\ \A q \in Submitters : spc[q] \in (Owning \ {"post"}) \cup Ended =>
                                 spc'[q] \in (Owning \ {"post"}) \cup Ended
    BY <1>1, <1>4 DEF EndSession, LookupTranscript, FetchMessages, SubmitterGo
  <2>3. QED
    BY <2>1, <2>2, RewordUndisturbed
<1>5. ASSUME NEW p \in Submitters,
             Reflag(p) \/ FlagSubmitted(p) \/ FlagNotSubmitted(p)
               \/ MarkSubmitted(p) \/ Cleanup(p)
      PROVE  OneRewording' /\ ReworderIsArchiver'
  <2>1. topic' = topic
    BY <1>5 DEF Reflag, FlagSubmitted, FlagNotSubmitted, MarkSubmitted, Cleanup
  <2>2. /\ \A q \in Submitters : spc'[q] \in Owning => spc[q] \in Owning
        /\ \A q \in Submitters : spc[q] \in (Owning \ {"post"}) \cup Ended =>
                                 spc'[q] \in (Owning \ {"post"}) \cup Ended
    BY <1>1, <1>5 DEF Reflag, FlagSubmitted, FlagNotSubmitted, MarkSubmitted, Cleanup,
                      SubmitterGo
  <2>3. QED
    BY <2>1, <2>2, RewordUndisturbed
<1>6. ASSUME NEW p \in Submitters, Repost(p)
      PROVE  OneRewording' /\ ReworderIsArchiver'
  <2>1. \A r \in topic' : r.wording = "reworded" => r \in topic
    BY <1>6 DEF Repost, PostToTopic
  <2>2. /\ \A q \in Submitters : spc'[q] \in Owning => spc[q] \in Owning
        /\ \A q \in Submitters : spc[q] \in (Owning \ {"post"}) \cup Ended =>
                                 spc'[q] \in (Owning \ {"post"}) \cup Ended
    BY <1>1, <1>6 DEF Repost, PostToTopic, SubmitterGo
  <2>3. QED
    BY <2>1, <2>2, RewordUndisturbed
<1>7. ASSUME NEW p \in Submitters, StoreTranscript(p)
      PROVE  OneRewording' /\ ReworderIsArchiver'
  <2>1. CASE transcript = NoTranscript
    <3>1. topic = {} /\ topic' = topic
      BY <1>7, <2>1 DEF StoreTranscript, ArchiveInv, TopicFromArchive
    <3>2. QED
      BY <3>1 DEF OneRewording, ReworderIsArchiver
  <2>2. CASE transcript # NoTranscript
    <3>1. topic' = topic
      BY <1>7 DEF StoreTranscript
    <3>2. /\ \A q \in Submitters : spc'[q] \in Owning => spc[q] \in Owning
          /\ \A q \in Submitters : spc[q] \in (Owning \ {"post"}) \cup Ended =>
                                   spc'[q] \in (Owning \ {"post"}) \cup Ended
      BY <1>1, <1>7, <2>2 DEF StoreTranscript, SubmitterGo
    <3>3. QED
      BY <3>1, <3>2, RewordUndisturbed
  <2>3. QED
    BY <2>1, <2>2
<1>8. ASSUME NEW p \in Submitters, PostTranscript(p)
      PROVE  OneRewording' /\ ReworderIsArchiver'
  <2>1. spc[p] = "post"
    BY <1>8 DEF PostTranscript, PostToTopic, SubmitterGo
  <2>2. \A r \in topic : r.wording # "reworded"
    BY <2>1, <1>1 DEF ReworderIsArchiver
  <2>3. \A q \in Submitters : spc[q] \in Owning => q = p
    BY <2>1 DEF ArchiveInv, SingleArchiver
  <2>4. PICK text \in {"stored", "reworded"} :
          topic' \in {topic, topic \cup {[by |-> p, of |-> snapshot[p], wording |-> text]}}
    BY <1>8 DEF PostTranscript, PostToTopic
  <2>5. \A r \in topic' :
          r.wording = "reworded" => r = [by |-> p, of |-> snapshot[p], wording |-> text]
    BY <2>2, <2>4
  <2>6. /\ spc'[p] \in {"flag", "unflag"}
        /\ \A q \in Submitters : spc'[q] \in Owning => q = p
    BY <1>1, <1>8, <2>3 DEF PostTranscript, PostToTopic, SubmitterGo
  <2>7. OneRewording'
    BY <2>5 DEF OneRewording
  <2>8. ReworderIsArchiver'
    BY <2>5, <2>6 DEF ReworderIsArchiver
  <2>9. QED
    BY <2>7, <2>8
<1>9. CASE Crash
  <2>1. topic' = topic
    BY <1>9 DEF Crash
  <2>2. /\ \A q \in Submitters : spc'[q] \in Owning => spc[q] \in Owning
        /\ \A q \in Submitters : spc[q] \in (Owning \ {"post"}) \cup Ended =>
                                 spc'[q] \in (Owning \ {"post"}) \cup Ended
    BY <1>1, <1>9 DEF Crash
  <2>3. QED
    BY <2>1, <2>2, RewordUndisturbed
<1>10. CASE UNCHANGED vars
  BY <1>10, RewordUndisturbed DEF vars
<1>11. QED
  BY <1>2, <1>3, <1>4, <1>5, <1>6, <1>7, <1>8, <1>9, <1>10
     DEF Next, SubmitterStep

\* The insert lets one call through, and that call posts once.
LEMMA RewordInvariant == Spec => [](OneRewording /\ ReworderIsArchiver)
<1>1. Init => OneRewording /\ ReworderIsArchiver
  BY DEF Init, OneRewording, ReworderIsArchiver
<1>2. /\ TypeInv /\ ArchiveInv /\ OneRewording /\ ReworderIsArchiver
      /\ [Next]_vars
      => OneRewording' /\ ReworderIsArchiver'
  BY RewordStep
<1>3. QED
  BY <1>1, <1>2, ArchiveInvariant, PTL DEF Spec

\* cleanupSessionMessages never deletes a message of a session whose transcript is
\* not stored and marked, for any number of calls, crashes and database errors.
THEOREM PurgeIsSafe == Spec => []PurgedOnlyAfterArchive
<1>1. ArchiveInv => PurgedOnlyAfterArchive
  BY DEF ArchiveInv, UnmarkedKeepsAll, PurgedOnlyAfterArchive
<1>2. QED
  BY ArchiveInvariant, <1>1, PTL

\* The messages the design can lose are the ones stored while a submission runs
\* that has already read the conversation: no other is ever lost.
THEOREM LossIsBounded == Spec => []OnlyLateMessagesLost
<1>1. ArchiveInv => OnlyLateMessagesLost
  BY DEF ArchiveInv
<1>2. QED
  BY ArchiveInvariant, <1>1, PTL

\* The unique key leaves the pipeline after the insert to one call for ever.
THEOREM OneArchiver == Spec => []SingleArchiver
<1>1. ArchiveInv => SingleArchiver
  BY DEF ArchiveInv
<1>2. QED
  BY ArchiveInvariant, <1>1, PTL

\* Every text on the topic was made of the stored conversation, what is flagged as
\* submitted has a text on the topic, what is reported is stored.  At most one of the
\* texts is in the language model's words, which nothing compares with anything.
THEOREM TopicFollowsArchive == Spec => []ArchiveAgrees
<1>1. ArchiveInv /\ OneRewording => ArchiveAgrees
  BY DEF ArchiveInv, SubmitterKnows, SuccessImpliesArchived, ArchiveAgrees
<1>2. QED
  BY ArchiveInvariant, RewordInvariant, <1>1, PTL

\* A step either leaves the transcript alone, or sets its flag, or inserts it.
LEMMA TranscriptWrites ==
  ASSUME TypeInv, [Next]_vars
  PROVE  \/ transcript' = transcript
         \/ transcript = NoTranscript
         \/ \E b \in BOOLEAN : transcript' = [transcript EXCEPT !.submittedToHcs = b]
<1> USE DEF ghosts
<1>1. CASE \E w \in Writers : FindActiveSession(w) \/ WriterStep(w) \/ WriterDbError(w)
  BY <1>1 DEF FindActiveSession, WriterStep, SaveMessage, IncMessageCount, Announce,
              WriterDbError
<1>2. CASE \E p \in Submitters : Begin(p) \/ SubmitterDbError(p)
  BY <1>2 DEF Begin, BeginEndEvent, BeginDelete, BeginGenerate, SubmitterDbError
<1>3. CASE \E p \in Submitters : SubmitterStep(p)
  BY <1>3 DEF SubmitterStep, EndSession, LookupTranscript, Repost, Reflag, FetchMessages,
              StoreTranscript, PostTranscript, FlagSubmitted, FlagNotSubmitted,
              MarkSubmitted, Cleanup
<1>4. CASE Crash \/ UNCHANGED vars
  BY <1>4 DEF Crash, vars
<1>5. QED
  BY <1>1, <1>2, <1>3, <1>4 DEF Next

\* Neither a second submission nor a retry replaces the stored conversation.
THEOREM ArchiveNeverReplaced == Spec => ArchiveIsFinal
<1>1. TypeInv /\ [Next]_vars =>
        [transcript # NoTranscript =>
           transcript' # NoTranscript /\ transcript'.msgs = transcript.msgs]_transcript
  <2> SUFFICES ASSUME TypeInv, [Next]_vars, transcript # NoTranscript,
                      transcript' # transcript
               PROVE  transcript' # NoTranscript /\ transcript'.msgs = transcript.msgs
    OBVIOUS
  <2>1. PICK b \in BOOLEAN : transcript' = [transcript EXCEPT !.submittedToHcs = b]
    BY TranscriptWrites
  <2>2. transcript \in Transcripts
    BY DEF TypeInv, TypeOK
  <2>3. transcript' \in Transcripts /\ transcript'.msgs = transcript.msgs
    BY <2>1, <2>2 DEF Transcripts
  <2>4. QED
    BY <2>3, NoTranscriptIsNone
<1>2. QED
  BY <1>1, TypeInvariant, PTL DEF Spec, ArchiveIsFinal

--------------------------------------------------------------------------------
(* messageCount and the messages. *)

\* CountMatchesSaved speaks of two sets of writers; no step changes both their
\* sizes and the number of messages in a way that opens the gap, because a
\* writer that is about to save has not saved (UnmarkedKeepsAll) and a writer
\* that leaves "count" without incrementing has failed or is lost.
Counting == {w \in Writers : wpc[w] = "count"}
Broken == {w \in Writers : wpc[w] \in {"failed", "lost"}}

LEMMA CountsNamed ==
  CountMatchesSaved <=>
    /\ session.messageCount + Cardinality(Counting) <= Cardinality(saved)
    /\ Cardinality(saved) <=
         session.messageCount + Cardinality(Counting) + Cardinality(Broken)
BY DEF CountMatchesSaved, Counting, Broken

\* The sets of writers are finite, so their sizes are numbers.
LEMMA WritersAreCounted ==
  ASSUME NEW S \in SUBSET Writers
  PROVE  IsFiniteSet(S) /\ Cardinality(S) \in Nat
<1>1. IsFiniteSet(S)
  BY WritersFinite, FS_Subset
<1>2. QED
  BY <1>1, FS_CardinalityType

LEMMA OneMore ==
  ASSUME NEW S \in SUBSET Writers, NEW w \in Writers, w \notin S
  PROVE  Cardinality(S \cup {w}) = Cardinality(S) + 1
BY WritersAreCounted, FS_AddElement

LEMMA OneLess ==
  ASSUME NEW S \in SUBSET Writers, NEW w \in S
  PROVE  Cardinality(S \ {w}) = Cardinality(S) - 1
BY WritersAreCounted, FS_RemoveElement

LEMMA NoFewer ==
  ASSUME NEW T \in SUBSET Writers, NEW S \in SUBSET T
  PROVE  Cardinality(S) <= Cardinality(T)
BY WritersAreCounted, FS_Subset

LEMMA DisjointUnion ==
  ASSUME NEW S \in SUBSET Writers, NEW T \in SUBSET Writers, S \cap T = {}
  PROVE  Cardinality(S \cup T) = Cardinality(S) + Cardinality(T)
<1>1. IsFiniteSet(S) /\ IsFiniteSet(T)
  BY WritersAreCounted
<1>2. Cardinality(S \cup T) = Cardinality(S) + Cardinality(T) - Cardinality({})
  BY <1>1, FS_Union
<1>3. QED
  BY <1>2, <1>1, FS_EmptySet, WritersAreCounted

\* A step that leaves the sizes of the count and of the messages alone and
\* breaks no fewer writers than before.
LEMMA CountUndisturbed ==
  ASSUME TypeInv, CountMatchesSaved, session'.messageCount = session.messageCount,
         Counting' = Counting, saved' = saved,
         Broken' \in SUBSET Writers, Broken \subseteq Broken'
  PROVE  CountMatchesSaved'
<1>1. /\ Counting \in SUBSET Writers
      /\ saved \in SUBSET Writers
      /\ session.messageCount \in Nat
  BY DEF TypeInv, TypeOK, Sessions, Counting
<1>2. Cardinality(Broken) <= Cardinality(Broken')
  BY NoFewer
<1>3. /\ Cardinality(Counting) \in Nat
      /\ Cardinality(saved) \in Nat
      /\ Cardinality(Broken) \in Nat
      /\ Cardinality(Broken') \in Nat
  BY <1>1, WritersAreCounted
<1>4. /\ session'.messageCount + Cardinality(Counting') <= Cardinality(saved')
      /\ Cardinality(saved') <=
           session'.messageCount + Cardinality(Counting') + Cardinality(Broken')
  <2>1. /\ session.messageCount + Cardinality(Counting) <= Cardinality(saved)
        /\ Cardinality(saved) <=
             session.messageCount + Cardinality(Counting) + Cardinality(Broken)
    BY CountsNamed
  <2>2. Cardinality(saved) <=
          session.messageCount + Cardinality(Counting) + Cardinality(Broken')
    BY <2>1, <1>1, <1>2, <1>3
  <2>3. QED
    BY <2>1, <2>2
<1>5. QED
  BY <1>4 DEF CountMatchesSaved, Counting, Broken

\* Only a writer's steps and a crash move a writer, only they change the count,
\* and no submitter stores a message.
LEMMA SubmittersDoNotCount ==
  ASSUME NEW p \in Submitters, TypeInv,
         Begin(p) \/ SubmitterStep(p) \/ SubmitterDbError(p)
  PROVE  wpc' = wpc /\ saved' = saved /\ session'.messageCount = session.messageCount
<1> USE DEF ghosts
<1>1. CASE Begin(p) \/ SubmitterDbError(p)
  BY <1>1 DEF Begin, BeginEndEvent, BeginDelete, BeginGenerate, SubmitterDbError
<1>2. CASE EndSession(p) \/ MarkSubmitted(p)
  BY <1>2 DEF EndSession, MarkSubmitted, TypeInv, TypeOK, Sessions
<1>3. CASE SubmitterStep(p) /\ ~EndSession(p) /\ ~MarkSubmitted(p)
  BY <1>3 DEF SubmitterStep, LookupTranscript, Repost, Reflag, FetchMessages,
              StoreTranscript, PostTranscript, FlagSubmitted, FlagNotSubmitted, Cleanup
<1>4. QED
  BY <1>1, <1>2, <1>3

LEMMA CountStep ==
  ASSUME TypeInv, UnmarkedKeepsAll, CountMatchesSaved, [Next]_vars
  PROVE  CountMatchesSaved'
<1> DEFINE n == session.messageCount
<1>1. /\ Counting \in SUBSET Writers /\ Counting' \in SUBSET Writers
      /\ Broken \in SUBSET Writers /\ Broken' \in SUBSET Writers
      /\ saved \in SUBSET Writers
      /\ n \in Nat
      /\ wpc \in [Writers -> WriterSteps]
  BY DEF TypeInv, TypeOK, Sessions, Counting, Broken
<1>2. /\ Cardinality(Counting) \in Nat
      /\ Cardinality(Broken) \in Nat
      /\ Cardinality(Broken') \in Nat
      /\ Cardinality(saved) \in Nat
  BY <1>1, WritersAreCounted
<1>3. /\ n + Cardinality(Counting) <= Cardinality(saved)
      /\ Cardinality(saved) <= n + Cardinality(Counting) + Cardinality(Broken)
  BY CountsNamed
<1>4. ASSUME NEW w \in Writers, FindActiveSession(w) \/ Announce(w)
      PROVE  CountMatchesSaved'
  <2>1. /\ session' = session /\ saved' = saved
        /\ Counting' = Counting /\ Broken \subseteq Broken'
    BY <1>1, <1>4 DEF FindActiveSession, Announce, WriterGo, Counting, Broken, ghosts
  <2>2. QED
    BY <1>1, <2>1, CountUndisturbed
<1>5. ASSUME NEW w \in Writers, SaveMessage(w)
      PROVE  CountMatchesSaved'
  <2>1. w \notin saved /\ w \notin Counting
    BY <1>5 DEF SaveMessage, WriterGo, UnmarkedKeepsAll, Counting
  <2>2. /\ Counting' = Counting \cup {w}
        /\ saved' = saved \cup {w}
        /\ Broken' = Broken
        /\ session'.messageCount = n
    BY <1>1, <1>5 DEF SaveMessage, WriterGo, Counting, Broken
  <2>3. /\ Cardinality(Counting') = Cardinality(Counting) + 1
        /\ Cardinality(saved') = Cardinality(saved) + 1
        /\ Cardinality(Broken') = Cardinality(Broken)
    BY <1>1, <2>1, <2>2, OneMore
  <2>4. /\ session'.messageCount + Cardinality(Counting') <= Cardinality(saved')
        /\ Cardinality(saved') <=
             session'.messageCount + Cardinality(Counting') + Cardinality(Broken')
    BY <1>1, <1>2, <1>3, <2>2, <2>3
  <2>5. QED
    BY <2>4 DEF CountMatchesSaved, Counting, Broken
<1>6. ASSUME NEW w \in Writers, IncMessageCount(w)
      PROVE  CountMatchesSaved'
  <2>1. w \in Counting
    BY <1>6 DEF IncMessageCount, WriterGo, Counting
  <2>2. /\ Counting' = Counting \ {w}
        /\ saved' = saved
        /\ Broken' = Broken
    BY <1>1, <1>6 DEF IncMessageCount, WriterGo, Counting, Broken, ghosts
  <2>3. session'.messageCount = n + 1
    BY <1>6 DEF IncMessageCount, TypeInv, TypeOK, Sessions
  <2>4. Cardinality(Counting') = Cardinality(Counting) - 1
    BY <1>1, <2>1, <2>2, OneLess
  <2>5. /\ session'.messageCount + Cardinality(Counting') <= Cardinality(saved')
        /\ Cardinality(saved') <=
             session'.messageCount + Cardinality(Counting') + Cardinality(Broken')
    BY <1>1, <1>2, <1>3, <2>2, <2>3, <2>4
  <2>6. QED
    BY <2>5 DEF CountMatchesSaved, Counting, Broken
<1>7. ASSUME NEW w \in Writers, WriterDbError(w)
      PROVE  CountMatchesSaved'
  <2>1. /\ Broken' = Broken \cup {w} /\ w \notin Broken
        /\ session' = session /\ saved' = saved
    BY <1>1, <1>7 DEF WriterDbError, Broken
  <2>2. CASE w \in Counting
    <3>1. Counting' = Counting \ {w}
      BY <1>1, <1>7 DEF WriterDbError, Counting
    <3>2. Cardinality(Counting') = Cardinality(Counting) - 1
      BY <1>1, <2>2, <3>1, OneLess
    <3>3. Cardinality(Broken') = Cardinality(Broken) + 1
      BY <1>1, <2>1, OneMore
    <3>4. /\ session'.messageCount + Cardinality(Counting') <= Cardinality(saved')
          /\ Cardinality(saved') <=
               session'.messageCount + Cardinality(Counting') + Cardinality(Broken')
      BY <1>1, <1>2, <1>3, <2>1, <3>2, <3>3
    <3>5. QED
      BY <3>4 DEF CountMatchesSaved, Counting, Broken
  <2>3. CASE w \notin Counting
    <3>1. Counting' = Counting
      BY <1>1, <1>7, <2>3 DEF WriterDbError, Counting
    <3>2. QED
      BY <1>1, <2>1, <3>1, CountUndisturbed
  <2>4. QED
    BY <2>2, <2>3
<1>8. ASSUME NEW p \in Submitters, Begin(p) \/ SubmitterStep(p) \/ SubmitterDbError(p)
      PROVE  CountMatchesSaved'
  <2>1. /\ session'.messageCount = session.messageCount /\ saved' = saved
        /\ Counting' = Counting /\ Broken' = Broken
    BY <1>8, SubmittersDoNotCount DEF Counting, Broken
  <2>2. QED
    BY <1>1, <2>1, CountUndisturbed
<1>9. CASE Crash
  <2>1. /\ Counting' = {} /\ Counting \cup Broken \subseteq Broken'
        /\ Counting \cap Broken = {}
        /\ session' = session /\ saved' = saved
    BY <1>1, <1>9 DEF Crash, Counting, Broken, Ended
  <2>2. Cardinality(Counting') = 0
    BY <2>1, FS_EmptySet
  <2>3. Cardinality(Counting \cup Broken) = Cardinality(Counting) + Cardinality(Broken)
    BY <1>1, <2>1, DisjointUnion
  <2>4. Cardinality(Counting \cup Broken) <= Cardinality(Broken')
    BY <1>1, <2>1, NoFewer
  <2>5. /\ session'.messageCount + Cardinality(Counting') <= Cardinality(saved')
        /\ Cardinality(saved') <=
             session'.messageCount + Cardinality(Counting') + Cardinality(Broken')
    BY <1>1, <1>2, <1>3, <2>1, <2>2, <2>3, <2>4
  <2>6. QED
    BY <2>5 DEF CountMatchesSaved, Counting, Broken
<1>10. CASE UNCHANGED vars
  BY <1>10 DEF vars, CountMatchesSaved
<1>11. QED
  BY <1>4, <1>5, <1>6, <1>7, <1>8, <1>9, <1>10 DEF Next, WriterStep

\* messageCount never runs ahead of the messages stored, and it lags them by no
\* more than the calls that are, or failed, between save() and $inc.
THEOREM CountLagsByBroken == Spec => []CountMatchesSaved
<1>1. Init => CountMatchesSaved
  <2> SUFFICES ASSUME Init PROVE CountMatchesSaved
    OBVIOUS
  <2>1. session.messageCount = 0 /\ saved = {} /\ Counting = {} /\ Broken \in SUBSET Writers
    BY DEF Init, Counting, Broken
  <2>2. Cardinality(saved) = 0 /\ Cardinality(Counting) = 0 /\ Cardinality(Broken) \in Nat
    BY <2>1, FS_EmptySet, WritersAreCounted
  <2>3. QED
    BY <2>1, <2>2, CountsNamed
<1>2. TypeInv /\ ArchiveInv /\ CountMatchesSaved /\ [Next]_vars => CountMatchesSaved'
  BY CountStep DEF ArchiveInv
<1>3. QED
  BY <1>1, <1>2, ArchiveInvariant, PTL DEF Spec

--------------------------------------------------------------------------------
(* The steps of the calls are steps of the archive, or no steps. *)

LEMMA ConversationsOfAdded ==
  ASSUME NEW posts, NEW post
  PROVE  {r.of : r \in posts \cup {post}} = {r.of : r \in posts} \cup {post.of}
OBVIOUS

LEMMA PromiseInit == Init => Promise!Init
BY DEF Init, Promise!Init

LEMMA PromiseStep == TypeInv /\ ArchiveInv /\ [Next]_vars => [Promise!Next]_(Promise!vars)
<1> SUFFICES ASSUME TypeInv, ArchiveInv, [Next]_vars
             PROVE  Promise!Next \/ UNCHANGED Promise!vars
  OBVIOUS
<1> USE NoTranscriptIsNone
    DEF TypeInv, TypeOK, Sessions, Posts, HeldTranscript, ArchiveInv, UnmarkedKeepsAll, SubmitterKnows,
        FlagImpliesPosted, TopicFromArchive, Transcripts, SubmitterSteps,
        Owning, Retrying, Ended, ghosts, Promise!vars
<1>1. ASSUME NEW w \in Writers, FindActiveSession(w)
      PROVE  UNCHANGED Promise!vars
  BY <1>1 DEF FindActiveSession, WriterGo
<1>2. ASSUME NEW w \in Writers, SaveMessage(w)
      PROVE  Promise!Accept(w)
  BY <1>2 DEF SaveMessage, WriterGo, Promise!Accept
<1>3. ASSUME NEW w \in Writers, IncMessageCount(w)
      PROVE  UNCHANGED Promise!vars
  BY <1>3 DEF IncMessageCount, WriterGo
<1>4. ASSUME NEW w \in Writers, Announce(w)
      PROVE  UNCHANGED Promise!vars
  BY <1>4 DEF Announce, WriterGo
<1>5. ASSUME NEW w \in Writers, WriterDbError(w)
      PROVE  UNCHANGED Promise!vars
  BY <1>5 DEF WriterDbError
<1>6. ASSUME NEW p \in Submitters, Begin(p)
      PROVE  UNCHANGED Promise!vars
  <2>1. CASE BeginEndEvent(p)
    BY <2>1 DEF BeginEndEvent, SubmitterGo
  <2>2. CASE BeginDelete(p)
    BY <2>2 DEF BeginDelete, SubmitterGo
  <2>3. CASE BeginGenerate(p)
    BY <2>3 DEF BeginGenerate, SubmitterGo
  <2> QED
    BY <1>6, <2>1, <2>2, <2>3 DEF Begin
<1>7. ASSUME NEW p \in Submitters, EndSession(p)
      PROVE  UNCHANGED Promise!vars
  BY <1>7 DEF EndSession, SubmitterGo
<1>8. ASSUME NEW p \in Submitters, LookupTranscript(p)
      PROVE  Promise!Confirm \/ UNCHANGED Promise!vars
  BY <1>8 DEF LookupTranscript, SubmitterGo, Promise!Confirm
<1>9. ASSUME NEW p \in Submitters, Repost(p)
      PROVE  Promise!Publish \/ Promise!Confirm
  <2>1. /\ transcript # NoTranscript
        /\ snapshot[p] = transcript.msgs
        /\ spc[p] = "repost"
        /\ spc' \in {[spc EXCEPT ![p] = "reflag"], [spc EXCEPT ![p] = "done"]}
        /\ UNCHANGED <<session, messages, transcript, snapshot, saved>>
    BY <1>9 DEF Repost, PostToTopic, SubmitterGo
  <2>2. CASE topic' = topic \cup {[by |-> p, of |-> snapshot[p], wording |-> "stored"]}
    <3>1. {r.of : r \in topic'} = {r.of : r \in topic} \cup {transcript.msgs}
      <4>1. [by |-> p, of |-> snapshot[p], wording |-> "stored"].of = transcript.msgs
        BY <2>1
      <4> DEFINE post == [by |-> p, of |-> snapshot[p], wording |-> "stored"]
      <4>2. {r.of : r \in topic \cup {post}} = {r.of : r \in topic} \cup {post.of}
        BY ONLY ConversationsOfAdded
      <4>3. topic' = topic \cup {post} /\ post.of = transcript.msgs
        BY <2>2, <4>1
      <4> HIDE DEF post
      <4>4. QED
        BY ONLY <4>2, <4>3
    <3>2. (\E q \in Submitters : spc'[q] = "done")
            \in {\E q \in Submitters : spc[q] = "done", TRUE}
      BY <2>1
    <3>3. UNCHANGED <<saved, messages, session.transcriptSubmitted, transcript>>
      BY <2>1
    <3>4. QED
      BY <2>1, <3>1, <3>2, <3>3 DEF Promise!Publish
  <2>3. CASE UNCHANGED topic /\ spc' = [spc EXCEPT ![p] = "done"]
    BY <2>1, <2>3 DEF Promise!Confirm
  <2>4. QED
    BY <1>9, <2>2, <2>3 DEF Repost, PostToTopic, SubmitterGo
<1>10. ASSUME NEW p \in Submitters, Reflag(p)
      PROVE  Promise!Flag(TRUE)
  <2>1. /\ transcript \in Transcripts
        /\ \E r \in topic : r.of = transcript.msgs
        /\ spc[p] = "reflag" /\ spc' = [spc EXCEPT ![p] = "done"]
    BY <1>10 DEF Reflag, SubmitterGo
  <2>2. /\ transcript' # NoTranscript
        /\ transcript'.msgs = transcript.msgs
        /\ transcript'.submittedToHcs
    BY <1>10, <2>1 DEF Reflag
  <2>3. {transcript.msgs} \subseteq {r.of : r \in topic}
    BY <2>1
  <2>4. (\E q \in Submitters : spc'[q] = "done")
          \in {\E q \in Submitters : spc[q] = "done", TRUE}
    BY <2>1
  <2>5. QED
    BY <1>10, <2>1, <2>2, <2>3, <2>4 DEF Reflag, Promise!Flag
<1>11. ASSUME NEW p \in Submitters, FetchMessages(p)
      PROVE  UNCHANGED Promise!vars
  BY <1>11 DEF FetchMessages, SubmitterGo
<1>12. ASSUME NEW p \in Submitters, StoreTranscript(p)
      PROVE  Promise!Archive(snapshot[p]) \/ UNCHANGED Promise!vars
  <2>1. CASE transcript # NoTranscript
    BY <1>12, <2>1 DEF StoreTranscript, SubmitterGo
  <2>2. CASE transcript = NoTranscript
    <3>1. /\ transcript' = [msgs |-> snapshot[p], submittedToHcs |-> FALSE]
          /\ spc[p] = "store" /\ spc' = [spc EXCEPT ![p] = "post"]
          /\ UNCHANGED <<session, messages, topic, saved>>
      BY <1>12, <2>2 DEF StoreTranscript, SubmitterGo
    <3>2. transcript' \in Transcripts /\ transcript' # NoTranscript
      <4>1. snapshot[p] \in SUBSET Writers
        OBVIOUS
      <4>2. [msgs |-> snapshot[p], submittedToHcs |-> FALSE] \in Transcripts
        BY <4>1
      <4>3. QED
        BY <3>1, <4>2
    <3>3. snapshot[p] # {} /\ snapshot[p] \subseteq messages
      BY <2>2, <3>1
    <3>4. QED
      BY <2>2, <3>1, <3>2, <3>3 DEF Promise!Archive
  <2>3. QED
    BY <2>1, <2>2
<1>13. ASSUME NEW p \in Submitters, PostTranscript(p)
      PROVE  Promise!Publish \/ UNCHANGED Promise!vars
  BY <1>13 DEF PostTranscript, PostToTopic, SubmitterGo, Promise!Publish
<1>14. ASSUME NEW p \in Submitters, FlagSubmitted(p)
      PROVE  Promise!Flag(TRUE)
  <2>1. /\ transcript \in Transcripts
        /\ \E r \in topic : r.of = transcript.msgs
        /\ spc[p] = "flag" /\ spc' = [spc EXCEPT ![p] = "mark"]
    BY <1>14 DEF FlagSubmitted, SubmitterGo
  <2>2. /\ transcript' # NoTranscript
        /\ transcript'.msgs = transcript.msgs
        /\ transcript'.submittedToHcs
    BY <1>14, <2>1 DEF FlagSubmitted
  <2>3. {transcript.msgs} \subseteq {r.of : r \in topic}
    BY <2>1
  <2>4. (\E q \in Submitters : spc'[q] = "done")
          \in {\E q \in Submitters : spc[q] = "done", TRUE}
    BY <2>1
  <2>5. QED
    BY <1>14, <2>1, <2>2, <2>3, <2>4 DEF FlagSubmitted, Promise!Flag
<1>15. ASSUME NEW p \in Submitters, FlagNotSubmitted(p)
      PROVE  Promise!Flag(FALSE)
  <2>1. transcript \in Transcripts /\ spc[p] = "unflag" /\ spc' = [spc EXCEPT ![p] = "mark"]
    BY <1>15 DEF FlagNotSubmitted, SubmitterGo
  <2>2. transcript' = [transcript EXCEPT !.submittedToHcs = FALSE]
    BY <1>15 DEF FlagNotSubmitted
  <2>3. /\ transcript' \in Transcripts
        /\ transcript'.msgs = transcript.msgs
        /\ transcript'.submittedToHcs = FALSE
    BY ONLY <2>1, <2>2 DEF Transcripts
  <2>4. transcript' # NoTranscript
    BY <2>3
  <2>5. (\E q \in Submitters : spc'[q] = "done") <=> (\E q \in Submitters : spc[q] = "done")
    BY <2>1
  <2>6. QED
    BY <1>15, <2>1, <2>3, <2>4, <2>5 DEF FlagNotSubmitted, Promise!Flag
<1>16. ASSUME NEW p \in Submitters, MarkSubmitted(p)
      PROVE  Promise!Mark
  BY <1>16 DEF MarkSubmitted, SubmitterGo, Promise!Mark
<1>17. ASSUME NEW p \in Submitters, Cleanup(p)
      PROVE  Promise!Purge
  BY <1>17 DEF Cleanup, SubmitterGo, Promise!Purge
<1>18. ASSUME NEW p \in Submitters, SubmitterDbError(p)
      PROVE  Promise!Confirm \/ UNCHANGED Promise!vars
  BY <1>18 DEF SubmitterDbError, SubmitterGo, Promise!Confirm
<1>19. CASE Crash
  BY <1>19 DEF Crash
<1>20. CASE UNCHANGED vars
  BY <1>20 DEF vars
<1>21. QED
  BY <1>1, <1>2, <1>3, <1>4, <1>5, <1>6, <1>7, <1>8, <1>9, <1>10, <1>11, <1>12, <1>13, <1>14, <1>15, <1>16, <1>17, <1>18, <1>19, <1>20
     DEF Next, WriterStep, SubmitterStep, Promise!Next

\* Every behaviour of the calls is a behaviour of the archive they promise.
THEOREM Implementation == Spec => ImplementsPromise
<1>1. Spec => Promise!Init /\ [][Promise!Next]_(Promise!vars)
  BY PromiseInit, PromiseStep, ArchiveInvariant, PTL DEF Spec
<1>2. QED
  BY <1>1 DEF ImplementsPromise, Promise!Spec

================================================================================
