# TLA+ verification of the VeriFAI backend

VeriFAI is a NestJS server: agents and users hold Hedera wallets, DIDs and verifiable
credentials, and agents chat in sessions whose transcripts are archived on a Hedera
consensus topic. State lives in MongoDB documents, on the ledger, and in a few maps of
the Node process. There are no database transactions, no job queue and no recovery at
start-up; the unit tests only construct the classes. What can go wrong is therefore in
the steps between two `await`s, and that is what these modules model.

Source paths below are relative to `src/src/`.

## 1. Inventory

| Component | State | Operations that change it | Talks to |
|---|---|---|---|
| Chat session (`conversations/agent-chat.service.ts`, `transcript.service.ts`) | `AgentChatSession`, `SessionMessage`, `SessionTranscript` documents | `createChatSession`, `storeMessage`, `endSession`, `submitSessionTranscript`, `markTranscriptSubmitted`, `cleanupSessionMessages` | agent profiles, OpenAI, `/hcs/message` over HTTP |
| Chat gateway (`agent-chat.gateway.ts`) | socket rooms, `sessionHistorySent` map | join, send, trigger AI, end, history, stream, send on behalf, disconnect | chat session, AI replies |
| Chat REST controller (`agent-chat.controller.ts`) | none | create, end, generate transcript, reads | chat session |
| AI replies (`agent-ai.service.ts`) | none | `generateResponse` | OpenAI, agent profiles |
| Conversations, older API (`conversation.service.ts`) | `Conversation`, `ConversationMessage` | create, add message, end, mark submitted | - |
| Credentials (`identities/credentials`) | `IDCredential`, NFTs and freeze flags on the ledger | `issueVC`, `changeVCStatus`, and their helpers `registerVC`, `mintNft`, `unfreezeNft`, `sendNft`, `freezeNft`, `wipeNft` | wallets, issuers, smart nodes, IPFS |
| Wallets (`wallets`, `wallets-key`) | `Wallet`, `WalletKey`, ledger accounts | `createWallet`, `deleteWallet`, `associateToken`, `dissociateToken`, `withdrawToken` | identities, smart nodes |
| Identities (`identities`) | `Identity` | `createDID`, `getIdentityForUser` | smart nodes |
| Agent profiles (`agent-profile`) | `AgentProfile`, topics | `create`, `createWithNewAgentAccount` | wallets, identities, topics |
| Issuers (`issuers`) | `IDIssuer` | `createIssuer` | smart nodes |
| Authentication (`auth`) | the hashed refresh token of a user | `login`, `refreshTokens`, `logout`, `register` | - |
| Events websocket (`websocket`) | `subscriptions` map, socket rooms | subscribe, unsubscribe, disconnect | - |
| Topics (`hcs`) | topics on the ledger | `createHcsTopic`, `writeMessageToTopic` | Hedera |
| Token service (`hts`) | freeze flags, NFTs and balances on the ledger | `transferHbar`, `unfreezeAccounts`, `wipeNft` | Hedera |
| Guards and cache (`common/guards`, `app.module.ts`) | cached answers in Redis | every request passes them | - |
| Balance, cypher, logging, subscription to topics, configuration | none | - | - |

How they interact: the gateway and the REST controller call the chat session directly; a
submission calls back into the server over HTTP; credentials and profiles call wallets and
identities; all of them wait for smart nodes and the ledger. What is shared are documents
(read in one turn, written in a later one), the ledger, and the gateway's maps.

What is hard, and what has to hold all the same:

| Component | Hard behaviour | Correct means |
|---|---|---|
| Chat session | several submissions at once, messages arriving meanwhile, a post that fails or times out, a crash between any two writes | nothing is deleted unarchived but late messages; what the topic, the flag and the answers claim is of the one stored transcript |
| Chat gateway | history read before an `await` and sent after it, sockets that close, messages broadcast meanwhile | no gap, no repetition |
| AI replies | two triggers and a timer over one conversation | the model answers the other agent, and what it was asked about |
| Credentials | ledger and database written in turns; calls resumed after failures | a document claims no NFT that is not there; retries recover; answers match the ledger |
| Accounts | chains of writes without rollback; check, then create | no lost key, DIDs not shared, wallets and ledger agree but for failures |
| Authentication | tabs and devices of one user refresh at once, answers are lost, a logout meets a refresh | a kept cookie goes on working; a logout holds |
| Message stream | the conversation is read anew for each batch while messages are stored late and purged | no message twice, none left out, the last one is last |

## 2. The chat session: `ChatSession`, `ChatArchive`, `ChatSessionProofs`

### What the code does

`storeMessage` looks the session up (`status: 'active'`), saves the message and increments
`messageCount`; its caller then shows the message to the room. Ending a session, from the
gateway or with `DELETE sessions/:id`, sets `status: 'ended'` and runs
`submitSessionTranscript`; `POST sessions/:id/generate-transcript` runs it on a session that
may still be active. The submission

1. looks for a stored transcript; if there is one that is not submitted it is posted again,
   and in every case the caller gets success;
2. reads the conversation (an empty one is an error) and inserts the transcript
   (`sessionId` is a unique key, a second insert throws);
3. posts what an LLM makes of it to the topic (the prompt asks it to keep every message word for
   word, and nothing compares its answer with the transcript), or the transcript itself when the
   LLM fails, over HTTP to the server's own `/hcs/message`, which wants a bearer token: the
   gateway has none to pass on;
4. sets or clears `submittedToHcs`, marks the session `transcriptSubmitted` in both cases,
   deletes the session's messages and returns success.

### How the model corresponds to it

Each call is a process with a program counter (`wpc` for writers, `spc` for submitters);
each database operation or HTTP request is one action. Everything between two awaits is one
step, because the event loop runs nothing else meanwhile.

| State | Code |
|---|---|
| `session` | the `AgentChatSession` document: `status`, `messageCount`, `transcriptSubmitted` |
| `messages` | the `SessionMessage` documents; a message is named by the call that stores it |
| `transcript` | the `SessionTranscript` document, its conversation as a set of messages |
| `topic` | the texts on the topic: who posted each, of which conversation, and its `wording`: the transcript as it is stored, or what the LLM wrote of it |
| `snapshot[p]` | the local variables `conversation` and `existingTranscript` of a submission |
| `saved`, `late`, `faults` | history variables and the bound on faults, not code |

`PostTranscript` posts a text of either wording, because the LLM may fail; `Repost`, the retry of
step 1, posts the stored transcript and asks no LLM. What a reworded text says is left open: the
model knows of which conversation it was made and no more. The order of the messages, the
splitting of a long topic message and the access checks of the controller (they read only) are
abstracted. A post that times out but
is accepted by the topic is one step: the message reaches the topic no later than the
timeout is noticed. A database error fails a call at any await and follows the catch block
there; a crash loses all calls in progress and keeps documents and topic.

Properties: `PurgedOnlyAfterArchive`, `OnlyLateMessagesLost` (a message stored while nobody
had read the conversation is in the collection or in the transcript), `SingleArchiver` (the
unique key is the only lock), `ArchiveAgrees`, `CountMatchesSaved` (the counter, up to the calls
between save and `$inc`), and `ImplementsPromise`: the calls refine `ChatArchive`, an archive that
accepts, archives once, publishes, marks and purges, without calls or retries.
`SubmissionArchives` and `SuccessLeadsToMark` are its liveness. That a stored transcript is
never replaced (`ArchiveIsFinal`) is a theorem only.

`ArchiveAgrees` says what may be relied on of the topic, and no more: every text there was made of
the one stored conversation (`TopicFromArchive`); at most one of them is an LLM's, that of the
submission which stored the transcript, and all others are the transcript itself (`OneRewording`);
the flag `submittedToHcs` is only set with a text on the topic; success is only answered for a
stored transcript. It does not say that the reworded text tells the same conversation, because the
code does not see to it. Nor does success mean that anything reached the topic:
`SubmittedIsOnTopic` states what `src/docs/AGENT_CHAT_API.md:427` says of the `session-ended`
event, "Transcript saved to blockchain", and is violated (`session_topic`).

## 3. What a client sees: `HistoryDelivery`

`handleAgentJoin` reads the session, enters the room, and sends the last 50 messages unless
`sessionHistorySent` says that this socket has had them; `get-conversation-history` does the
same without the room and with an optional `forceReload`. Between the check and the mark lies
the `await` of `getConversation`, during which messages are stored, shown and purged.

| State, action | Code |
|---|---|
| `room`, `connected`, `sentTo` | the socket.io room, the open sockets, `sessionHistorySent.get(sessionId)` |
| `stored`, `purged`, `announced` | messages `1..stored` saved, `1..purged` deleted, those shown to the room |
| `dropped` | messages whose call failed after the save: the `$inc` or the `getSession` before the broadcast rejected, and the catch block tells the sender alone (`RejectMessage`) |
| `call[r]` | one event: its kind, client, step and the history it has read |
| `StartJoin`, `EnterRoom`, `ReadConversation`, `DeliverHistory` | the turns of `handleAgentJoin` |
| `StartFetch` (kinds `fetch`, `force`) | `handleGetConversationHistory` |
| `EndSession`, `EvictRoom` | the two turns of `handleEndSession` that touch status and room |

Messages are numbered in the order they are saved; the sort by timestamp, which may differ
for two messages saved in the same instant, is left to `MessageStream` (section 9). One client
is enough: no handler reads what belongs to another client. `EvictRoom` leaves the room as it
is because `this.server` is the namespace, whose `sockets` have no adapter.

Properties: `JoinLeavesNoGap` (history and broadcast together leave nothing out),
`RepeatIsCached`, `RoomSeesMessages` (liveness: a message saved while a client is in the room
reaches it, unless it disconnects or the call fails before the broadcast). A message that is
dropped is in the histories sent later; a client that is in the room already does not see it. A
server that dies closes every socket, which is `Disconnect` of every client. Two requests that
overlap may both get the history (section 13).

## 4. How a session begins: `SessionCreation`

`createChatSession` checks the profiles of both agents, looks for an active session of the
two in either order, reads the profiles again for a topic, and saves a new session. A session
it saves is where `ChatSession` begins.

| State, action | Code |
|---|---|
| `profiled` | agents with a profile; its schema requires a DID and a communication topic |
| `sessions` | the `AgentChatSession` documents: agents, `preferredTopicAgent`, `status` |
| `call[r]` | a request, its step and answer; `known` is history: what it should find |
| `Request` | `POST sessions`, with any string as `preferredTopicAgent` (no validation pipe is installed) |
| `VerifyAgents`, `FindSession`, `CheckTopic`, `SaveSession` | the awaits of `createChatSession` |
| `EndSession`, `CreateProfile` | what other requests do to the same documents |

The user is left out: the search does not look at it (section 13).

Properties: `DuplicatesOverlap` (two active sessions of one pair only if their requests ran at
once, which the code does not exclude), `GoodRequestSucceeds` (liveness).

## 5. Who answers whom: `AgentReply`

A user speaks for an agent (`user-send-message-on-behalf`) and may ask for the other agent's
AI reply, which starts 500 ms later; a client may also trigger an agent directly.
`generateResponse` refuses an agent whose own message is the last one, inside the `try` whose
`catch` makes up a fallback reply, so a reply is stored either way.

| State, action | Code |
|---|---|
| `messages` | the messages ever stored: the event that stored it and whether as its user's message or as a reply (`id`), timestamp, sender, how it was made |
| `basis`, `cause` of a message | the last message of the conversation a reply was made from; the message that asked for it |
| `purged` | those deleted by `cleanupSessionMessages` |
| `clock` | `new Date()` in milliseconds: it ticks on its own, several messages may be stamped in one of them, and one that is stamped earlier may be saved later |
| `LastMessages` | what may come last in `getConversation`, which sorts by timestamp only: any message of the newest millisecond |
| `SendOnBehalf`, `TriggerAI`, `TimerFires` | the two events, and `setTimeout(handleTriggerAI, 500)` with its own read of the session |
| `ReadConversation`, `Generate` | the conversation and the loop check; profile and model, either of which may fail |
| `CheckSession`, `SaveMessage`, `Announce` | `storeMessage` and the broadcast |

`agent-send-message` is `SendOnBehalf` without a trigger. The wording of prompts and answers is
abstracted to `byUser`, `byAI` and `fallback`.

Properties: `RepliesAnswerTheOther` (what the model wrote was written for a conversation that ends
with a message of the other agent; a fallback text is not covered), `TriggeredReplyHasReadItsCause`
(a reply that was asked for was made from a conversation whose last message is not older than the
one that asked, unless that is purged), `AskedReplyArrives` (liveness), `OwnMessageIsSkipped`
(violated). `TypeOK` also says that an event stores no more than one message and one reply: a reply
asks for no reply.

## 6. Credentials and their NFTs: `CredentialIssue`

`issueVC` looks for a credential of the user that is not finished and goes on where it
stopped: register the VC, mint an NFT, unfreeze the account, send, freeze; each step is a
ledger transaction and then a save. `changeVCStatus` puts the status on the ledger, reads it
back, and for a revocation unfreezes the account, wipes the NFT and freezes it again.

| State | Code |
|---|---|
| `creds` | the `IDCredential` documents: `internal_status`, `chain_status`, `serial_number` |
| `vc`, `nfts` | the ledger: status of each VC, place of each NFT |
| `account` | the user's account on the ledger: associated with the token or not, and its freeze flag |
| `OtherWallets` | whether the owner has agent wallets besides, which `getToken` may take for the user's |
| `declared` | history: credentials that a status change has set to `active` |
| `pc`, `call` | a request, and the document it holds in memory |
| `operations` | bound on status changes begun and requests to the token endpoints |

Actions are named after the helper or save they stand for. `SaveActive` keeps the fall-through
of the `PENDING` case into `MINTED`; `SaveFrozen` keeps that `freezeNft` stores `ACTIVE`
whoever called it; `credential.save()` writes only the fields that were set. The ledger is
external and refuses what Hedera refuses: a transfer to a frozen account or of an NFT that has
left the treasury, a wipe of an NFT that is not in the wallet, a freeze of an account without
the token, a dissociation of an account that is frozen or holds an NFT. A failing call is cut
off before or after its effect.

`UnfreezeAccounts` and `SeizeNft` are `POST /hts/unfreeze` and `POST /hts/wipe`;
`AssociateToken` and `DissociateToken` are those of the wallets. They act on the same account
and the same NFTs at any time and know nothing of the credentials, so the properties say what
an NFT or a freeze that they have undone no longer promises. The freeze flag of the account is
`released` when the token endpoints have undone the last freeze, by unfreezing the account or by
dissociating it and associating it again.

`unfreezeNft` and `freezeNft` act on the account of the user wallet but decide by what `getToken`
shows, and `getToken` takes any wallet of the owner. With `OtherWallets` the decision may be about
another wallet (`UnfreezeAccount`, `FreezeAccount`): the user's account is then left frozen, or is
not frozen and counts as `missed`.

A status change may ask for each status of `ChainVCStatus`, `active` included, of a credential in
any state; with `wipeNFT` it skips the `PUT` and stores what it was given. Values outside the
declared type are left out. A credential that was set to `active` in this way is `declared`: the
record then says nothing of an NFT. `findOne` has no sort, so `FindCredential` takes any match.

Properties: `ActiveHasNft`, `SerialIsKept` (a retry never mints for a credential that has its
NFT), `AnswerMatchesLedger`, `RevocationIsComplete` (an answered revocation has wiped the NFT and
left the account frozen, unless the token endpoints have released it or another wallet was looked
at), `OneLiveUnlessReinstated` (two good credentials of one user only where a status change has
resumed one, which the search of `issueVC` misses, or has declared one active) and `RetryRecovers`
(liveness: repeating a call leads to a credential that is active, delivered and frozen and stays
so). `RetryRecovers` promises the freeze after one failure only. The `PENDING` case falls through
into `MINTED`: a call that resumes a pending credential saves it as active, and then unfreezes,
sends and freezes a second time. It takes one failure to get there, and a second one behind the
second unfreeze leaves the credential active and the account unfrozen for good, because later calls
take an active credential for finished.

One call of `issueVC` or `changeVCStatus` runs at a time (`Overlap = 1`); section 13 says what
overlapping calls break.

## 7. Accounts, wallets, DIDs and profiles: `AccountProvisioning`

`createWallet`, `createDID`, `getIdentityForUser`, the two ways to create an agent profile and
`deleteWallet` are chains of independent writes: ledger account, key, wallet, DID, identity,
topics, profile. `createIssuer` creates a DID and a document. Nothing is rolled back.

| State | Code |
|---|---|
| `accounts`, `closed`, `dids` | the ledger: accounts created and deleted, DIDs created |
| `keys`, `wallets`, `identities`, `profiles`, `issuers` | the documents, with the unique keys of their schemas |
| `call` | a request: what it asks for, its step, the account and DIDs it holds |

`findOne` without a sort may return any match (`FoundDids`). The topics of a profile are one
step, because nothing reads them again. An agent's identity is owned by its account.
Issuers are those of one name, which the unique key takes together with the owner.

Properties: `KeyIsNeverLost`, `ProfileIsOfItsAgent`, `DidsAreNotShared` (an issuer has a DID of
its own, so has every identity), `WalletsMatchLedger` (`LostAccounts`: an open account without a
wallet belongs to a creation that has not succeeded; `ClosedWalletsGo`: a wallet of a closed
account is about to go or was cut off by a fault).

## 8. Tokens and logins: `AuthTokens`

`register` looks for the email and the username and then inserts; `login` and `refreshTokens`
sign new tokens and store the bcrypt hash of the refresh token in the user's document, one
hash per user whatever the number of devices; `logout` clears it. The browser keeps the
refresh token in a cookie that each answer replaces.

| State, action | Code |
|---|---|
| `users`, `hash` | the `User` documents and their `currentHashedRefreshToken` |
| `cookie`, `bearer` | what a browser holds: the refresh token, and the user its access token names |
| `call[r]` | a request in progress, with the token it brought or has signed |
| `Register`, `SaveUser` | `register`; both fields have a unique index |
| `Login`, `Refresh`, `FindHash`, `StoreHash` | `validateUser`, the two guards, `refreshTokens`, `updateRefreshToken` |
| `Logout`, `ClearHash` | `logout`, behind `GlobalAuthGuard` (`CanActivate`) |
| `AnswerTokens`, `AnswerLogout`, `AnswerOther`, `Fail` | the answers, which arrive in any order or not at all |
| `voided`, `crossed` | history: tokens a logout has invalidated, requests that a logout of their user has met |

`Hash(token)` keeps of a token what bcrypt keeps. bcrypt reads the first 72 bytes of its input;
a refresh token begins with a fixed header and `{"sub":"<user id>`, so these bytes are the same
in all tokens of one user, and different for two users. Hence a token that a later refresh has
replaced is still accepted, which is what `KeptCookieWorks` rests on and its mutant takes away.

Properties: `KeptCookieWorks` (whatever answers are lost and in whatever order tabs refresh, a
cookie is good until its user logs out), `LogoutHolds` (after a logout a hash is stored again
only by a login or by a refresh that was in progress when the logout took effect).

## 9. Reading a conversation in batches: `MessageStream`

`stream-conversation-messages` reads the whole conversation sorted by timestamp, emits the
slice that starts at `startIndex`, and answers with `hasMore` and `nextStartIndex`. The next
batch reads again. Meanwhile messages are saved, each with the timestamp taken before its
insert, and purged.

| State, action | Code |
|---|---|
| `clock`, `stamp`, `saved`, `purged` | `new Date()`, the timestamps, the `SessionMessage` documents |
| `StampMessage`, `SaveMessage` | the two halves of `storeMessage` |
| `Ask`, `ReadConversation`, `Emit`, `Complete`, `StreamError` | the request, `getConversation` and `slice`, the loop with its delay, `message-stream-complete`, the catch block |
| `index`, `total`, `batch` | `startIndex`, `conversation.length`, the messages not yet emitted |
| `got`, `first` | history: what the client has received, the conversation when its pass began |

One pass of one client is followed, because the handler keeps nothing between two requests.
`Sorted` leaves messages of one millisecond in any order, as the database does.

Properties: `RepeatsExplained` (a message comes twice only if another one that is not younger
took a place before it), `NothingSkipped` (a pass that ends has delivered what was there at its
beginning, but for purged messages and equal timestamps), `LastEndsPass` (nothing follows the
message marked as last).

## 10. Runs

| Run | Instance | Shows |
|---|---|---|
| `session_safety` | 2 messages, 1 gateway end, 1 REST end, 1 generator, 1 fault | the safety properties and the refinement of `ChatArchive` |
| `session_liveness` | the same without generator and faults, `FairSpec` | a submission that finds messages is archived, and its session marked |
| `session_late_message` | no faults | violated: a message shown to the room is deleted unarchived |
| `session_topic` | 1 message, 1 gateway end, no fault | violated: the end is answered with a submitted transcript, and nothing is on the topic |
| `history_room` | 1 client, 2 requests of 3 kinds, 2 messages, window 1 | history and broadcast leave no gap; every message reaches the room |
| `message_stream` | 4 messages, batches of 2, 3 milliseconds, 1 fault | batches repeat and skip only what changes of the conversation explain |
| `session_creation` | 3 agents, 2 requests, 1 fault | duplicates come of overlapping requests only; good requests succeed |
| `agent_replies` | 2 events (up to 4 messages), 2 milliseconds, 1 fault, 1 purge | replies answer the other agent and arrive, and ask for no more |
| `agent_loop` | 2 events | violated: an agent answers itself |
| `credential_calls` | 1 caller, 2 credentials, 4 serials, all 5 statuses, other wallets, 3 status changes or token requests, 2 faults | an issue that fails is recovered by repeating it; documents and answers agree with the ledger; a revocation is complete |
| `provisioning` | 1 user, 3 requests of 10 kinds, 2 accounts, 1 fault | keys, wallets, DIDs, profiles and issuers stay consistent |
| `auth_tokens` | 2 people who share an email, 2 browsers, 3 requests at once, 3 tokens, 1 fault | kept cookies work and logouts hold |

Why the bounds are enough. The races of a session need a message that is stored before a
submission reads and one that is stored after it, and two submissions that both miss the
transcript, of which a third may find it; callers of one kind are interchangeable. A second fault
adds nothing a first one and the end of the remaining calls do not, except for retries: there two
are allowed, one in a first call and one in the call that resumes it, wherever they strike (before
the mint, between mint and delivery, after it). The window of one of two messages makes the
history cut something off. Three requests are two that race and one that comes after; session
creation has two that race, or come one after the other, and a third agent that an answer may
wrongly name. Three requests for tokens are a logout between the two steps of a refresh and a
login beside them; two browsers are two devices of one user, or two users; two people that share
an email are enough for the index. Three status changes or requests to the token endpoints are
what it takes to suspend a credential, resume it and change it once more, or to undo a freeze
under a revocation: the revocation, an unfreezing and a wipe or a dissociation. That the owner has
other wallets includes the behaviour of one who has not, in which no account is ever `missed`. Two
milliseconds are a tie of two messages and an order of them. Four messages in batches of two are
two full batches with something that moves between them, and three milliseconds leave a message to
be stamped before, with and after another. Serial numbers, timestamps and accounts suffice for
every request to take one; where a bound cuts a call short (`MaxCredentials`, `MaxAccounts`,
`MaxTokens`) it stops something new from being created and no other step.

Deadlock is not checked (`CHECK_DEADLOCK FALSE`) where the calls are finitely many and the
instance ends when all have been made, nor in `credential_calls`: nobody is obliged to call, and
the instance ends when its bounds on documents and operations are used up. Symmetry is used in
runs without liveness only.

## 11. Fairness

Weak fairness of the steps of a started call, in every module with a liveness property: each
`await` is on a database operation or an HTTP request whose client gives up after a timeout, the
event loop runs every continuation that is ready, and `setTimeout` fires. Nobody is obliged to
start a call or to end a session, and no fault is obliged to happen or to stop. `RetryRecovers`
further assumes a client that repeats a failed call, which is what the resuming of `issueVC` is
for. What it promises ends with the first status change or request to a token endpoint: nobody
is obliged to stop unfreezing or wiping.

## 12. What is proved

Each theorem holds for every value of the constants that the named assumptions of its module
allow: any sets of calls, users, clients and messages, any number of documents and faults. Of the
sets of calls, the writers of a session are finite, because a server that has run for a finite time
has had finitely many.

| Module | Theorem | Statement |
|---|---|---|
| `ChatSessionProofs` | `TypeCorrect` | `Spec => []TypeOK` |
| | `PurgeIsSafe` | `Spec => []PurgedOnlyAfterArchive` |
| | `LossIsBounded` | `Spec => []OnlyLateMessagesLost` |
| | `OneArchiver` | `Spec => []SingleArchiver` |
| | `TopicFollowsArchive` | `Spec => []ArchiveAgrees` |
| | `CountLagsByBroken` | `Spec => []CountMatchesSaved` |
| | `ArchiveNeverReplaced` | `Spec => ArchiveIsFinal` |
| | `Implementation` | `Spec => ImplementsPromise` |
| `SessionCreationProofs` | `TypesKeep` | `Spec => []TypeOK` |
| | `NoDuplicateInSequence` | `Spec => []DuplicatesOverlap` |
| `AuthTokensProofs` | `TypesKeep` | `Spec => []TypeOK` |
| | `CookiesKeepWorking` | `Spec => []KeptCookieWorks` |
| | `LogoutsHold` | `Spec => LogoutHolds` |
| `AccountProvisioningProofs` | `TypesKeep` | `Spec => []TypeOK` |
| | `KeysAreKept` | `Spec => []KeyIsNeverLost` |
| | `ProfilesFit` | `Spec => []ProfileIsOfItsAgent` |
| | `DidsStayApart` | `Spec => []DidsAreNotShared` |
| | `WalletsFollowLedger` | `Spec => []WalletsMatchLedger` |
| `HistoryDeliveryProofs` | `TypeCorrect` | `Spec => []TypeOK` |
| | `DeliveryAlways` | `Spec => []DeliveryInv` |
| | `NoGapAfterJoin` | `Spec => []JoinLeavesNoGap` |
| | `HistoryIsSentOnce` | `Spec => RepeatIsCached` |
| `AgentReplyProofs` | `TypeCorrect` | `Spec => []TypeOK` |
| | `ReplyAlways` | `Spec => []ReplyInv` |
| | `NoAgentAnswersItself` | `Spec => []RepliesAnswerTheOther` |
| | `TriggeredReplyComesAfter` | `Spec => []TriggeredReplyHasReadItsCause` |
| `CredentialIssueProofs` | `TypeCorrect` | `Spec => []TypeOK` |
| | `IssueAlways` | `Overlap <= 1`: `Spec => []IssueInv` |
| | `DeliveredIsHeld` | `Overlap <= 1`: `Spec => []ActiveHasNft` |
| | `OneIsLive` | `Overlap <= 1`: `Spec => []OneLiveUnlessReinstated` |
| | `RetryKeepsSerial` | `Overlap <= 1`: `Spec => SerialIsKept` |
| | `AnswerTellsLedger` | `Overlap <= 1`: `Spec => AnswerMatchesLedger` |
| | `RevocationWipes` | `Overlap <= 1`: `Spec => RevocationIsComplete` |
| `MessageStreamProofs` | `TypeCorrect` | `Spec => []TypeOK` |
| | `StreamAlways` | `Spec => []StreamInv` |
| | `RepeatsAreExplained` | `Spec => []RepeatsExplained` |
| | `NothingIsSkipped` | `Spec => []NothingSkipped` |
| | `LastIsLast` | `Spec => []LastEndsPass` |

**Chat session.** The type invariant is `TypeInv`: `TypeOK`, strengthened by `HeldTranscript` (who
is past the insert works on a transcript that exists), without which the updates of its fields are
not well typed. `ArchiveInv` is the inductive invariant of the safety properties. None of them is
inductive alone: that nothing is deleted too early needs that the session is marked only with a
transcript stored, which needs that whoever marks has inserted it (`SubmitterKnows`), which needs
that only one call can insert (`SingleArchiver`); that a flag is only set for what is on the topic
needs that the conversation held in memory is still the stored one; that one text at most is
reworded needs that whoever posted it won the insert and is past its only post
(`ReworderIsArchiver`). The refinement is proved step by step from the same invariant: each action
of a writer or submitter is an action of `ChatArchive` or leaves its variables alone.

`CountMatchesSaved` is inductive given `UnmarkedKeepsAll` (a writer that is about to save has not
saved). Each step changes the sizes of at most three finite sets: a save adds a writer both to the
messages and to those that count, an increment moves one from there into `messageCount`, and an
error or a crash moves it to the broken ones, which are all that the counter may lag by.

**Session creation.** `CreationInv` adds to `DuplicatesOverlap` that a request which has found
no session, and is about to save one, has overlooked none that was there when it came
(`FoundInv`): one that it does not know belongs to a request that overlaps it.

**Tokens.** `TokenInv` relates each cookie and each token on its way to the stored hash: a token
that no logout has voided is that of its user, whose hash is stored. A refresh past its check
holds such a token, or a logout has crossed it.

**Accounts.** `TypeInv` ties a request to its steps: which kinds get where (`StepFits`) and that
an account it has created has its key stored before its wallet (`AccountFits`); a wallet's key
is part of it. On top of it stand three invariants that do not need each other:

- `ProfileInv`: a request that makes a profile holds DIDs that are in the documents already, and
  no action removes an identity or a key. A wallet may be deleted between the read of the owner
  and the save; the key stays.
- `DidInv`: a DID that was registered is in no document, and with no other request, until its
  own request saves it.
- `WalletInv`: every account has exactly one request that created it; until its wallet is saved
  no deletion can know of the account (`Unseen`), and afterwards it has a wallet or is closed.

**History.** `DeliveryInv` says of a join that its client was in the room before the conversation
was read (`InRoom`), and so has seen live whatever the reading leaves out (`SeenAfterHistory`);
from the two follows that history and broadcast leave no gap. `RepeatIsCached` needs besides that
whoever was answered is in `sessionHistorySent` for as long as its socket is open (`Recorded`).
`RoomForChecked` is there for the types: a message that a check let through still fits the bound.

**Replies.** `ReplyInv` says of each event what its handler holds in memory. `Fresh`: what it is about
to store has not been stored, so that an event stores one message and one reply. `TimerFits` and
`Spoken`: a timer is that of a user whose message is stored. `Answers` and `HasReadCause` carry the
two properties through the awaits: what a call holds in memory stays true, because messages are only
added, or purged and remembered as purged. Nothing is said of the clock; the theorems hold for
messages that share a millisecond and for any number of events.

**Credentials.** The types hold for calls that overlap in any way: `TypeInv` adds to `TypeOK` that
the NFTs and VCs that documents and calls name exist, and that an NFT is in the wallet only while
the account is associated with the token. The properties are about calls that do not overlap, and
`Overlap <= 1` is what their theorems assume; section 13 says what happens otherwise. They
hold for every set of statuses that may be asked for and for an owner with or without other wallets.
`IssueInv` then has `OneAtATime`; `AtMostOneOpen`, of the credentials that the search of `issueVC`
finds and no status change declared active; `DocumentsInv`, no two documents with one serial number;
`Backed`, a delivered or active document that was not declared so has its NFT in the wallet unless it
was taken by the token service, a revocation is between the wipe and its last save, or a fault has
cut one off there; and, for the one call that runs, what it has done so far
(`IssueFits`, `ChangeFits`). The last of them is where `freezeNft`, which stores `ACTIVE` whoever
calls it, is reconciled with a revocation that has wiped the NFT.

**Message stream.** `StreamInv` places messages without saying in which order messages of one
millisecond come: a place lies between the number of strictly earlier messages and of those that
are not later in the conversation it was read from (`PlacesInv`). Two places of one message that
differ leave a message in between, which is `RepeatsExplained`. `OrderInv` says that the places of a
batch follow those received and end before those of the next request. `SkipInv` follows each message
of the first reading that has a timestamp of its own: it is received, in the batch, or beyond what
has been asked for; a message that is saved late only moves it further away, and a purge deletes
all that was saved, so that none of the first reading is left to follow.

Only TLC checks the liveness properties (`SubmissionArchives`, `SuccessLeadsToMark`,
`RoomSeesMessages`, `GoodRequestSucceeds`, `AskedReplyArrives`, `RetryRecovers`): the provers have no
rules for fairness and `ENABLED`. The three violated claims are counterexamples and need no proof.
Every safety invariant and every action property of the runs is a theorem.

## 13. Known deviations without a run of their own

- What the LLM makes of a transcript goes to the topic unchecked, marked as submitted like the
  transcript itself; a retry posts the transcript.
- A message whose call fails between the save and the broadcast is in the conversation, and nobody
  in the room is shown it.
- A crash between the insert of a transcript and the mark leaves messages and an unmarked
  session for ever: a later submission finds the transcript and does not resume there.
- A post that times out although the topic took it is posted again by the next submission.
- The eviction at the end of a session throws, so every `end-session` is answered with
  `END_SESSION_ERROR` after the session has ended, and the room keeps its members.
- A join may enter the room after `session-ended` was broadcast. A history mark written after
  the socket has closed stays in the map.
- "if the user already has an active credential, we throw an error"
  (`credentials.service.ts:326`) does not hold: two overlapping calls issue two, a credential
  that was suspended and resumed is missed by the search, and one that was suspended and replaced
  can be set to `active` again. Two overlapping calls on one
  unfinished credential mint twice, and the document may name the NFT that was not sent.
- `PUT` of the status `active` with `wipeNFT` records a credential as active, on the chain too,
  whose NFT was wiped or never delivered.
- An agent wallet of the owner that is frozen makes `freezeNft` leave the user's account unfrozen, and
  one that is not makes `unfreezeNft` leave it frozen, so that the transfer or the wipe after it fails.
- A second failure while a pending credential is resumed leaves it active in an account that is not
  frozen, for good.
- A revocation that fails after the `PUT` leaves a credential that `issueVC` goes on answering
  with, active in the database while its NFT may be wiped; one of a credential wiped before
  leaves the account unfrozen. When the account is dissociated from the token between the wipe
  and the freeze that follows, the revocation can never be completed.
- `deleteWallet` that stops after closing the account can never be completed. It takes any
  wallet of the owner, of a user or an agent.
- A refresh that is past its check when the user logs out stores a new hash afterwards and
  revives the session (`auth.service.ts:88`).
- A stream whose conversation was purged or shortened between two batches starts past its end,
  and messages stored later are skipped by that pass, although none is in the conversation that
  it began with. Messages of one millisecond may come twice or be left out, because the sort by
  timestamp leaves their order open.
- `hasReceivedHistory` is read before the `await` of `getConversation` and the client is marked
  after it, so a join and a `get-conversation-history` that overlap both send the history.
  `src/docs/AGENT_CHAT_API.md:228` says "sent **once per client**".
- Two requests for one pair of agents that overlap both create a session; a later request is
  answered with either. The search for a session ignores the user: a second user is given the
  id of the first one's session, to which `verifySessionAccess` then denies access.
- Two `createDID` calls at once give an owner two DIDs.
- Two triggers of one agent answer the same message twice. Of two messages of one millisecond either
  may be taken for the last one, so an agent may refuse to answer, or answer, depending on the database.

## 14. Not modelled

- The older conversations API: its controller creates a conversation, adds messages and reads,
  each one write of one document; nothing calls `endConversation` or `markTranscriptSubmitted`.
- The events websocket: the methods of its service have no await of their own and `client.join`
  is synchronous with the in-memory adapter, so its map and rooms change in one turn.
- `withdrawToken` and `transferHbar`: one ledger transfer each, of things nothing else reads.
- Creating and reading topics (`hcs`); balance, cypher, logging, configuration and the topic
  subscription keep no state.
- The response cache: what it answers depends on the lifetimes and keys of its library.
- Prompts and DID documents are data no property is about; of LLM output the model keeps that it
  replaces a transcript or makes a reply. Access
  checks of the chat read only; a call that fails one is a call that does nothing.

## 15. Plan

1. The gateway and the session composed: the end, the eviction and a join that has read an
   active session.
2. `CredentialIssue` with the wallets of `AccountProvisioning`: agent wallets created and deleted
   while a credential is issued, in place of the constant `OtherWallets`.
3. Abstract specifications: a mailbox that `HistoryDelivery` implements (each client receives a
   gapless suffix), and the life of a credential (none, pending, delivered, active, revoked) that
   `CredentialIssue` implements when calls do not overlap.
4. Stale answers of the response cache.
