------------------------------ MODULE ChatSession ------------------------------
(***************************************************************************)
(* The life of one agent-chat session: messages are stored while it is     *)
(* active, then a transcript of them is archived, posted to a Hedera       *)
(* consensus topic, and the working copies are deleted.                    *)
(*                                                                         *)
(* Source: conversations/agent-chat.service.ts (storeMessage, endSession,  *)
(* markTranscriptSubmitted, cleanupSessionMessages),                       *)
(* conversations/transcript.service.ts (submitSessionTranscript) and their *)
(* callers in agent-chat.gateway.ts and agent-chat.controller.ts.          *)
(*                                                                         *)
(* A call is a process.  Each MongoDB operation and each HTTP request is   *)
(* one atomic step, because the Node event loop may run any other call at  *)
(* every await; there is no transaction over two of them.                  *)
(***************************************************************************)
EXTENDS Naturals, FiniteSets

CONSTANTS
  Writers,      \* calls of storeMessage; a writer names its message
  WsEnders,     \* 'end-session' events of the gateway: no bearer token
  RestEnders,   \* DELETE sessions/:id: pass the caller's token on
  Generators,   \* POST sessions/:id/generate-transcript: token, no end
  NoTranscript, \* what findOne returns before a transcript is stored
  MaxFaults     \* bound: failed database calls plus server crashes

Submitters == WsEnders \cup RestEnders \cup Generators

\* The fields of the documents that change or that others read.
Sessions == [status: {"active", "ended"}, messageCount: Nat,
             transcriptSubmitted: BOOLEAN]
Transcripts == [msgs: SUBSET Writers, submittedToHcs: BOOLEAN]
\* A text on the topic: who posted it, the conversation it was made of, and whether
\* it is that conversation as it is stored or what a language model wrote of it.
Posts == [by: Submitters, of: SUBSET Writers, wording: {"stored", "reworded"}]

ASSUME CallsAreDistinct ==
  /\ WsEnders \cap RestEnders = {}
  /\ WsEnders \cap Generators = {}
  /\ RestEnders \cap Generators = {}
ASSUME WritersFinite == IsFiniteSet(Writers)
ASSUME NoTranscriptIsNone == NoTranscript \notin Transcripts
ASSUME MaxFaultsIsNat == MaxFaults \in Nat

VARIABLES
  session,    \* the AgentChatSession document
  messages,   \* the SessionMessage documents of the session
  transcript, \* the SessionTranscript document, or NoTranscript
  topic,      \* the texts the topic holds
  wpc,        \* where each writer is
  spc,        \* where each submitter is
  snapshot,   \* the conversation a submitter holds in memory
  saved,      \* history: messages ever stored
  late,       \* history: messages stored while a submitter that had
              \* already read the conversation was still running
  faults      \* faults so far

vars == <<session, messages, transcript, topic, wpc, spc, snapshot,
          saved, late, faults>>
ghosts == <<saved, late, faults>>

WriterSteps == {"idle", "save", "count", "announce", "done", "failed", "lost"}

\* After "store" has succeeded a submitter owns the archiving pipeline.
Owning == {"post", "flag", "unflag", "mark", "cleanup"}
Retrying == {"repost", "reflag"}
\* "done" is a reply that reports success, "failed" one that does not.
SubmitterSteps == {"idle", "end", "lookup", "fetch", "store", "done",
                   "failed", "lost"} \cup Owning \cup Retrying
Ended == {"done", "failed", "lost"}

Init ==
  /\ session = [status |-> "active", messageCount |-> 0,
                transcriptSubmitted |-> FALSE]
  /\ messages = {}
  /\ transcript = NoTranscript
  /\ topic = {}
  /\ wpc = [w \in Writers |-> "idle"]
  /\ spc = [p \in Submitters |-> "idle"]
  /\ snapshot = [p \in Submitters |-> {}]
  /\ saved = {}
  /\ late = {}
  /\ faults = 0

WriterGo(w, from, to) == wpc[w] = from /\ wpc' = [wpc EXCEPT ![w] = to]
SubmitterGo(p, from, to) == spc[p] = from /\ spc' = [spc EXCEPT ![p] = to]

HasToken(p) == p \in RestEnders \cup Generators

\* axios.post to /hcs/message.  The endpoint wants a bearer token, so a call
\* without one is refused.  With one the post is accepted, or fails, or is
\* accepted although the 15 s timeout fails the call.
PostToTopic(p, text, from, accepted, refused) ==
  \/ /\ HasToken(p)
     /\ topic' = topic \cup {[by |-> p, of |-> snapshot[p], wording |-> text]}
     /\ SubmitterGo(p, from, accepted) \/ SubmitterGo(p, from, refused)
  \/ /\ UNCHANGED topic
     /\ SubmitterGo(p, from, refused)

--------------------------------------------------------------------------------
(* Mutants: what the actions below would be with a plausible bug. *)

\* Repost: the retry has the language model write the text again.
RepostRewords(p) ==
  /\ \E text \in {"stored", "reworded"} :
       PostToTopic(p, text, "repost", "reflag", "done")
  /\ UNCHANGED <<session, messages, transcript, wpc, snapshot, ghosts>>

\* LookupTranscript: the retry posts what the collection holds now.
LookupReadsMessages(p) ==
  /\ IF transcript = NoTranscript
     THEN SubmitterGo(p, "lookup", "fetch") /\ UNCHANGED snapshot
     ELSE /\ SubmitterGo(p, "lookup", "repost")
          /\ snapshot' = [snapshot EXCEPT ![p] = messages]
  /\ UNCHANGED <<session, messages, transcript, topic, wpc, ghosts>>

\* FlagNotSubmitted: a failed post goes straight to the deletion.
UnflagSkipsMark(p) ==
  /\ SubmitterGo(p, "unflag", "cleanup")
  /\ transcript' = [transcript EXCEPT !.submittedToHcs = FALSE]
  /\ UNCHANGED <<session, messages, topic, wpc, snapshot, ghosts>>

\* FlagNotSubmitted: the catch block returns success.
UnflagReturns(p) ==
  /\ SubmitterGo(p, "unflag", "done")
  /\ transcript' = [transcript EXCEPT !.submittedToHcs = FALSE]
  /\ UNCHANGED <<session, messages, topic, wpc, snapshot, ghosts>>

\* MarkSubmitted: the session is marked only if the post succeeded.
MarkOnlyIfFlagged(p) ==
  /\ SubmitterGo(p, "mark", "cleanup")
  /\ session' = [session EXCEPT !.transcriptSubmitted = transcript.submittedToHcs]
  /\ UNCHANGED <<messages, transcript, topic, wpc, snapshot, ghosts>>

\* Reflag: a successful retry deletes the messages too.
ReflagThenCleanup(p) ==
  /\ SubmitterGo(p, "reflag", "cleanup")
  /\ transcript' = [transcript EXCEPT !.submittedToHcs = TRUE]
  /\ UNCHANGED <<session, messages, topic, wpc, snapshot, ghosts>>

\* StoreTranscript: sessionId is not a unique key and the write is an upsert.
StoreWithoutUniqueKey(p) ==
  /\ SubmitterGo(p, "store", "post")
  /\ transcript' = [msgs |-> snapshot[p], submittedToHcs |-> FALSE]
  /\ UNCHANGED <<session, messages, topic, wpc, snapshot, ghosts>>

\* Repost: the error of the post is not noticed.
RepostIgnoresError(p) ==
  /\ PostToTopic(p, "stored", "repost", "reflag", "reflag")
  /\ UNCHANGED <<session, messages, transcript, wpc, snapshot, ghosts>>

\* IncMessageCount: the increment has the wrong sign.
DecMessageCount(w) ==
  /\ WriterGo(w, "count", "announce")
  /\ session' = [session EXCEPT !.messageCount = @ - 1]
  /\ UNCHANGED <<messages, transcript, topic, spc, snapshot, ghosts>>

\* IncMessageCount: the count is read from the collection and written back.
RecountMessages(w) ==
  /\ WriterGo(w, "count", "announce")
  /\ session' = [session EXCEPT !.messageCount = Cardinality(messages)]
  /\ UNCHANGED <<messages, transcript, topic, spc, snapshot, ghosts>>


--------------------------------------------------------------------------------
(* storeMessage and the broadcast that follows it. *)

\* findOne({id, status: 'active'}); no such session: NotFoundException.
FindActiveSession(w) ==
  /\ \/ session.status = "active" /\ WriterGo(w, "idle", "save")
     \/ session.status = "ended" /\ WriterGo(w, "idle", "failed")
  /\ UNCHANGED <<session, messages, transcript, topic, spc, snapshot, ghosts>>

\* sessionMessage.save(): the status read before is not read again.
SaveMessage(w) ==
  /\ WriterGo(w, "save", "count")
  /\ messages' = messages \cup {w}
  /\ saved' = saved \cup {w}
  /\ late' = IF \E p \in Submitters : spc[p] \in {"store"} \cup Owning
             THEN late \cup {w} ELSE late
  /\ UNCHANGED <<session, transcript, topic, spc, snapshot, faults>>

\* updateOne $inc: the increment is applied by the database.
IncMessageCount(w) ==
  /\ WriterGo(w, "count", "announce")
  /\ session' = [session EXCEPT !.messageCount = @ + 1]
  /\ UNCHANGED <<messages, transcript, topic, spc, snapshot, ghosts>>

\* The caller emits 'new-message' or 'ai-response-generated' to the room.
Announce(w) ==
  /\ WriterGo(w, "announce", "done")
  /\ UNCHANGED <<session, messages, transcript, topic, spc, snapshot, ghosts>>

--------------------------------------------------------------------------------
(* Ending the session. *)

\* 'end-session': getSession, then an error if the session has already ended.
BeginEndEvent(p) ==
  /\ p \in WsEnders
  /\ \/ session.status = "active" /\ SubmitterGo(p, "idle", "end")
     \/ session.status = "ended" /\ SubmitterGo(p, "idle", "failed")
  /\ UNCHANGED <<session, messages, transcript, topic, wpc, snapshot, ghosts>>

\* DELETE sessions/:id: only the access is verified, not the status.
BeginDelete(p) ==
  /\ p \in RestEnders
  /\ SubmitterGo(p, "idle", "end")
  /\ UNCHANGED <<session, messages, transcript, topic, wpc, snapshot, ghosts>>

\* Generating a transcript on demand does not end the session at all.
BeginGenerate(p) ==
  /\ p \in Generators
  /\ SubmitterGo(p, "idle", "lookup")
  /\ UNCHANGED <<session, messages, transcript, topic, wpc, snapshot, ghosts>>

Begin(p) == BeginEndEvent(p) \/ BeginDelete(p) \/ BeginGenerate(p)

\* endSession overwrites status and endedAt.  It reports modifiedCount > 0,
\* which the controller alone tests: it is 0 only when the document already
\* holds the same endedAt, to the millisecond.
EndSession(p) ==
  /\ \/ SubmitterGo(p, "end", "lookup")
     \/ p \in RestEnders /\ session.status = "ended" /\ SubmitterGo(p, "end", "failed")
  /\ session' = [session EXCEPT !.status = "ended"]
  /\ UNCHANGED <<messages, transcript, topic, wpc, snapshot, ghosts>>

--------------------------------------------------------------------------------
(* submitSessionTranscript. *)

\* 1. An existing transcript is either submitted already or submitted again;
\* the caller is told success in both cases.
LookupTranscript(p) ==
  /\ \/ /\ transcript = NoTranscript
        /\ SubmitterGo(p, "lookup", "fetch")
        /\ UNCHANGED snapshot
     \/ /\ transcript # NoTranscript
        /\ transcript.submittedToHcs
        /\ SubmitterGo(p, "lookup", "done")
        /\ UNCHANGED snapshot
     \/ /\ transcript # NoTranscript
        /\ ~transcript.submittedToHcs
        /\ SubmitterGo(p, "lookup", "repost")
        /\ snapshot' = [snapshot EXCEPT ![p] = transcript.msgs]
  /\ UNCHANGED <<session, messages, transcript, topic, wpc, ghosts>>

\* The retry posts the transcript as it is stored.  A failed one is logged and
\* forgotten: the reply is success.
Repost(p) ==
  /\ PostToTopic(p, "stored", "repost", "reflag", "done")
  /\ UNCHANGED <<session, messages, transcript, wpc, snapshot, ghosts>>

Reflag(p) ==
  /\ SubmitterGo(p, "reflag", "done")
  /\ transcript' = [transcript EXCEPT !.submittedToHcs = TRUE]
  /\ UNCHANGED <<session, messages, topic, wpc, snapshot, ghosts>>

\* 2-5. The conversation is read once; an empty one is an error.
FetchMessages(p) ==
  /\ \/ messages # {} /\ SubmitterGo(p, "fetch", "store")
     \/ messages = {} /\ SubmitterGo(p, "fetch", "failed")
  /\ snapshot' = [snapshot EXCEPT ![p] = messages]
  /\ UNCHANGED <<session, messages, transcript, topic, wpc, ghosts>>

\* 6. save(): sessionId is a unique key, a second insert throws.
StoreTranscript(p) ==
  /\ \/ /\ transcript = NoTranscript
        /\ SubmitterGo(p, "store", "post")
        /\ transcript' = [msgs |-> snapshot[p], submittedToHcs |-> FALSE]
     \/ /\ transcript # NoTranscript
        /\ SubmitterGo(p, "store", "failed")
        /\ UNCHANGED transcript
  /\ UNCHANGED <<session, messages, topic, wpc, snapshot, ghosts>>

\* 7-8. What the language model makes of the transcript goes to the topic, or the
\* transcript itself when the model fails.  Nothing compares the two.
PostTranscript(p) ==
  /\ \E text \in {"stored", "reworded"} :
       PostToTopic(p, text, "post", "flag", "unflag")
  /\ UNCHANGED <<session, messages, transcript, wpc, snapshot, ghosts>>

FlagSubmitted(p) ==
  /\ SubmitterGo(p, "flag", "mark")
  /\ transcript' = [transcript EXCEPT !.submittedToHcs = TRUE]
  /\ UNCHANGED <<session, messages, topic, wpc, snapshot, ghosts>>

\* The catch block clears the flag whatever it is now.
FlagNotSubmitted(p) ==
  /\ SubmitterGo(p, "unflag", "mark")
  /\ transcript' = [transcript EXCEPT !.submittedToHcs = FALSE]
  /\ UNCHANGED <<session, messages, topic, wpc, snapshot, ghosts>>

\* 9. markTranscriptSubmitted, whether or not the post succeeded.
MarkSubmitted(p) ==
  /\ SubmitterGo(p, "mark", "cleanup")
  /\ session' = [session EXCEPT !.transcriptSubmitted = TRUE]
  /\ UNCHANGED <<messages, transcript, topic, wpc, snapshot, ghosts>>

\* 10. cleanupSessionMessages deletes every message of the session.
Cleanup(p) ==
  /\ SubmitterGo(p, "cleanup", "done")
  /\ messages' = {}
  /\ UNCHANGED <<session, transcript, topic, wpc, snapshot, ghosts>>

--------------------------------------------------------------------------------
(* Faults. *)

\* A database call rejects and the surrounding catch decides what follows.
WriterDbError(w) ==
  /\ faults < MaxFaults
  /\ faults' = faults + 1
  /\ wpc[w] \in {"save", "count", "announce"}
  /\ wpc' = [wpc EXCEPT ![w] = "failed"]
  /\ UNCHANGED <<session, messages, transcript, topic, spc, snapshot, saved, late>>

\* An error while the flag is set falls into the same catch as a failed post;
\* one while a retry sets it is swallowed.
SubmitterDbError(p) ==
  /\ faults < MaxFaults
  /\ faults' = faults + 1
  /\ \/ /\ spc[p] \in {"end", "lookup", "fetch", "store", "unflag", "mark", "cleanup"}
        /\ spc' = [spc EXCEPT ![p] = "failed"]
     \/ SubmitterGo(p, "flag", "unflag")
     \/ SubmitterGo(p, "reflag", "done")
  /\ UNCHANGED <<session, messages, transcript, topic, wpc, snapshot, saved, late>>

\* The server process dies: the calls in progress are gone, the documents and
\* the topic stay.  Nothing resumes a submission when the server is back.
Crash ==
  /\ faults < MaxFaults
  /\ faults' = faults + 1
  /\ wpc' = [w \in Writers |->
               IF wpc[w] \in {"idle"} \cup Ended THEN wpc[w] ELSE "lost"]
  /\ spc' = [p \in Submitters |->
               IF spc[p] \in {"idle"} \cup Ended THEN spc[p] ELSE "lost"]
  /\ UNCHANGED <<session, messages, transcript, topic, snapshot, saved, late>>

--------------------------------------------------------------------------------
WriterStep(w) == SaveMessage(w) \/ IncMessageCount(w) \/ Announce(w)

SubmitterStep(p) ==
  \/ EndSession(p)
  \/ LookupTranscript(p)
  \/ Repost(p)
  \/ Reflag(p)
  \/ FetchMessages(p)
  \/ StoreTranscript(p)
  \/ PostTranscript(p)
  \/ FlagSubmitted(p)
  \/ FlagNotSubmitted(p)
  \/ MarkSubmitted(p)
  \/ Cleanup(p)

Next ==
  \/ \E w \in Writers : FindActiveSession(w) \/ WriterStep(w) \/ WriterDbError(w)
  \/ \E p \in Submitters : Begin(p) \/ SubmitterStep(p) \/ SubmitterDbError(p)
  \/ Crash

Spec == Init /\ [][Next]_vars

\* A call that has started goes on: every await is on a database operation or
\* an HTTP request with a timeout.  Nobody is obliged to start a call.
FairSpec ==
  /\ Spec
  /\ \A w \in Writers : WF_vars(WriterStep(w))
  /\ \A p \in Submitters : WF_vars(SubmitterStep(p))

--------------------------------------------------------------------------------
(* Properties. *)

Archived == IF transcript = NoTranscript THEN {} ELSE transcript.msgs

\* Every document has the fields its schema declares, every call is at one of
\* its awaits and holds a set of messages.
TypeOK ==
  /\ session \in Sessions
  /\ messages \in SUBSET Writers
  /\ transcript \in Transcripts \cup {NoTranscript}
  /\ topic \in SUBSET Posts
  /\ wpc \in [Writers -> WriterSteps]
  /\ spc \in [Submitters -> SubmitterSteps]
  /\ snapshot \in [Submitters -> SUBSET Writers]
  /\ saved \in SUBSET Writers
  /\ late \in SUBSET Writers
  /\ faults \in 0..MaxFaults

\* cleanupSessionMessages never runs ahead of the archive: if a stored message
\* is no longer in the collection, the transcript is in the database and the
\* session document says so, whichever calls crashed or failed in between.
PurgedOnlyAfterArchive ==
  saved \ messages # {} => transcript # NoTranscript /\ session.transcriptSubmitted

\* The archive loses no message that was stored while no submission was past
\* its read of the conversation: it is still in the collection or it is in the
\* transcript.
OnlyLateMessagesLost == saved \ late \subseteq messages \cup Archived

\* Of all the calls that may run submitSessionTranscript at once, one at most
\* gets past the insert: the post, the flags and the deletion have one author.
SingleArchiver ==
  \A p, q \in Submitters : spc[p] \in Owning /\ spc[q] \in Owning => p = q

\* submittedToHcs is never set unless a text made of the transcript is on the
\* topic: the transcript itself, or what the language model made of it.
FlagImpliesPosted ==
  transcript # NoTranscript =>
    (transcript.submittedToHcs => \E r \in topic : r.of = transcript.msgs)

\* Whatever the races and the retries, every text on the topic was made of the
\* stored conversation and of no other.
TopicFromArchive ==
  \A r \in topic : transcript # NoTranscript /\ r.of = transcript.msgs

\* The words of a text the language model wrote are compared with nothing, so they
\* may not tell that conversation; there is at most one such text, however many
\* submissions run, and the others are the transcript word for word.
OneRewording ==
  \A r, s \in topic : r.wording = "reworded" /\ s.wording = "reworded" => r = s

\* No caller is told success unless the transcript is in the database; that
\* anything reached the topic is not what success says (see SubmittedIsOnTopic).
SuccessImpliesArchived ==
  (\E p \in Submitters : spc[p] = "done") => transcript # NoTranscript

\* The flag, the topic and the answers all speak of the one stored transcript,
\* through every retry and whoever gives them.
ArchiveAgrees ==
  /\ FlagImpliesPosted
  /\ TopicFromArchive
  /\ OneRewording
  /\ SuccessImpliesArchived

\* messageCount is the number of stored messages, up to the calls that are, or
\* were when they failed, between the save and the increment.
CountMatchesSaved ==
  LET counting == {w \in Writers : wpc[w] = "count"}
      broken   == {w \in Writers : wpc[w] \in {"failed", "lost"}}
  IN  /\ session.messageCount + Cardinality(counting) <= Cardinality(saved)
      /\ Cardinality(saved) <=
           session.messageCount + Cardinality(counting) + Cardinality(broken)

\* A transcript, once stored, keeps its conversation: neither a later call nor a
\* retry replaces it.
ArchiveIsFinal ==
  [][transcript # NoTranscript =>
       transcript' # NoTranscript /\ transcript'.msgs = transcript.msgs]_transcript

\* Until the session is marked nothing is deleted; a writer saves one message.
UnmarkedKeepsAll ==
  /\ messages \subseteq saved
  /\ ~session.transcriptSubmitted => messages = saved
  /\ session.transcriptSubmitted => transcript # NoTranscript
  /\ \A w \in Writers : wpc[w] \in {"idle", "save"} => w \notin saved

\* What a submitter knows from the data it holds across its awaits.
SubmitterKnows(p) ==
  /\ spc[p] = "store" => snapshot[p] # {} /\ snapshot[p] \subseteq saved
  /\ spc[p] = "store" /\ transcript = NoTranscript => saved \ late \subseteq snapshot[p]
  /\ spc[p] \in Owning => saved \ late \subseteq snapshot[p]
  /\ spc[p] \in Owning \cup Retrying =>
       transcript # NoTranscript /\ snapshot[p] = transcript.msgs
  /\ spc[p] = "cleanup" => session.transcriptSubmitted
  /\ spc[p] \in {"flag", "reflag"} => \E r \in topic : r.of = snapshot[p]
  /\ spc[p] = "done" => transcript # NoTranscript

\* Why the invariants above hold.  Nothing is deleted until the session is
\* marked, and it is marked only after the insert that one call can win; from
\* then on that call and the retries hold the stored conversation in memory.
ArchiveInv ==
  /\ UnmarkedKeepsAll
  /\ \A p \in Submitters : SubmitterKnows(p)
  /\ OnlyLateMessagesLost
  /\ SingleArchiver
  /\ FlagImpliesPosted
  /\ TopicFromArchive

\* Who posted a reworded text won the insert and is past its only post, and nobody
\* else is in the pipeline.
ReworderIsArchiver ==
  \A r \in topic :
    r.wording = "reworded" =>
      /\ spc[r.by] \in (Owning \ {"post"}) \cup Ended
      /\ \A q \in Submitters : spc[q] \in Owning => q = r.by

\* Without faults, a submission that starts when there are messages leads to a
\* stored transcript and a marked session, even when the post fails and when
\* another submission wins the insert.
SubmissionArchives ==
  \A p \in Submitters :
    spc[p] = "lookup" /\ messages # {} ~>
      transcript # NoTranscript /\ session.transcriptSubmitted

\* "9. Mark session as transcript submitted": when a caller has been told that
\* the transcript is submitted, the session document says so sooner or later.
SuccessLeadsToMark ==
  \A p \in Submitters : spc[p] = "done" ~> session.transcriptSubmitted

\* "transcriptSubmitted: boolean; // Transcript saved to blockchain": when the event
\* session-ended tells the room that the transcript is submitted, the topic has a text
\* of the session.
SubmittedIsOnTopic == \A p \in WsEnders : spc[p] = "done" => topic # {}

\* "3. Fetch complete conversation": a message the room was shown is in the
\* collection or in the transcript.
AnnouncedIsKept ==
  \A w \in Writers : wpc[w] = "done" => w \in messages \cup Archived

--------------------------------------------------------------------------------
Promise == INSTANCE ChatArchive WITH
  Messages  <- Writers,
  accepted  <- saved,
  live      <- messages,
  archives  <- IF transcript = NoTranscript THEN {} ELSE {transcript.msgs},
  marked    <- session.transcriptSubmitted,
  ledger    <- {r.of : r \in topic},
  published <- transcript # NoTranscript /\ transcript.submittedToHcs,
  confirmed <- \E p \in Submitters : spc[p] = "done"

\* The calls, with their races, retries, faults and crashes, do nothing that the
\* archive of ChatArchive may not do.
ImplementsPromise == Promise!Spec

================================================================================
