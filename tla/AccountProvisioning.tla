-------------------------- MODULE AccountProvisioning --------------------------
(***************************************************************************)
(* Ledger accounts, their keys, the wallets, DIDs and agent profiles built *)
(* on them, and issuers, each created by a chain of separate writes.        *)
(*                                                                         *)
(* Source: wallets/wallets.service.ts, wallets-key/wallets-key.service.ts, *)
(* identities/identities.service.ts, agent-profile/agent-profile.service.ts, *)
(* issuers/issuers.service.ts and getIdentityForUser of                     *)
(* identities/credentials.  Nothing is rolled back when a later write of a  *)
(* chain fails.                                                            *)
(***************************************************************************)
EXTENDS Naturals

CONSTANTS
  Users,       \* owners of wallets
  Calls,       \* HTTP requests
  Kinds,       \* what they may ask for
  NoDid,       \* agentOwnerDID '' and other absent DIDs
  MaxAccounts, \* bound: accounts created on the ledger
  MaxFaults    \* bound: failed calls plus crashes

AllKinds == {"userWallet", "userWalletAndDid", "agentWallet", "agentWalletAndDid",
             "did", "identity", "profile", "newAgent", "delete", "issuer"}

ASSUME KindsKnown == Kinds \subseteq AllKinds
ASSUME NoDidIsNone == NoDid \notin Nat
ASSUME BoundsAreNat == MaxAccounts \in Nat /\ MaxFaults \in Nat

VARIABLES
  accounts,   \* accounts 1..accounts were created on the ledger ...
  closed,     \* ... and these of them deleted again
  keys,       \* accounts whose WalletKey is stored
  wallets,    \* the Wallet documents
  dids,       \* DIDs 1..dids were created on the ledger
  identities, \* the Identity documents
  profiles,   \* the AgentProfile documents
  issuers,    \* the IDIssuer documents of one issuer name
  call,       \* what a request is, where it is and what it holds in memory
  faults      \* faults so far

vars == <<accounts, closed, keys, wallets, dids, identities, profiles,
          issuers, call, faults>>
docs == <<keys, wallets, identities, profiles, issuers>>

Accounts == 1..MaxAccounts
Dids == Nat \ {0} \* each request creates one at most
Owners == Users \cup Accounts \* an agent's identity is owned by its account
NoAccount == 0

Wallets == [account: Accounts, owner: Users, type: {"user", "agent"}]
Identities == [owner: Owners, did: Dids]
Profiles == [account: Accounts, agentDid: Dids, ownerDid: Dids]
Issuers == [owner: Users, did: Dids]
Steps == {"create", "saveKey", "saveWallet", "checkWallet", "findIdentity",
          "register", "saveIdentity", "saveIssuer", "findAgent", "findOwner", "findProfile",
          "topics", "saveProfile", "publish", "closeAccount", "deleteWallet",
          "done", "failed"}
NoCall == [kind |-> "none"]
CallData == [kind: AllKinds, user: Users, step: Steps, account: Accounts \cup {NoAccount},
             subject: Owners, did: Dids \cup {NoDid}, ownerDid: Dids \cup {NoDid}]

Init ==
  /\ accounts = 0 /\ closed = {}
  /\ keys = {}
  /\ wallets = {}
  /\ dids = 0
  /\ identities = {}
  /\ profiles = {}
  /\ issuers = {}
  /\ call = [r \in Calls |-> NoCall]
  /\ faults = 0

Running == {r \in Calls : call[r] # NoCall /\ call[r].step \notin {"done", "failed"}}
At(r, step) == r \in Running /\ call[r].step = step
Go(r, from, to) == At(r, from) /\ call' = [call EXCEPT ![r].step = to]

\* A request for user u that concerns an account or the owner of an identity.
Start(r, kind, u, account, subject, step) ==
  /\ call[r] = NoCall
  /\ kind \in Kinds
  /\ call' = [call EXCEPT ![r] =
       [kind |-> kind, user |-> u, step |-> step, account |-> account,
        subject |-> subject, did |-> NoDid, ownerDid |-> NoDid]]

WalletType(r) ==
  IF call[r].kind \in {"userWallet", "userWalletAndDid"} THEN "user" ELSE "agent"
UserWallets(u) == {w \in wallets : w.owner = u /\ w.type = "user"}
IdentitiesOf(owner) == {i \in identities : i.owner = owner}

\* findOne: one of the documents found
FoundDids(owner) ==
  IF IdentitiesOf(owner) = {} THEN {NoDid} ELSE {i.did : i \in IdentitiesOf(owner)}

--------------------------------------------------------------------------------
(* Mutants: what the actions below would be with a plausible bug. *)

\* CreateAccount: the wallet document is saved before the key.
CreateAccountThenWallet(r) ==
  /\ accounts < MaxAccounts
  /\ At(r, "create")
  /\ accounts' = accounts + 1
  /\ call' = [call EXCEPT ![r].step = "saveWallet", ![r].account = accounts + 1,
                ![r].subject = IF WalletType(r) = "agent" THEN accounts + 1 ELSE @]
  /\ UNCHANGED <<closed, dids, docs, faults>>

\* CloseAccount: the deletion was not submitted, and its receipt is not looked at.
CloseAccountUnseen(r) ==
  /\ Go(r, "closeAccount", "deleteWallet")
  /\ UNCHANGED <<accounts, closed, dids, docs, faults>>

\* DeleteWallet: the document is looked up again, as a user wallet.
DeleteUserWallet(r) ==
  /\ Go(r, "deleteWallet", "done")
  /\ wallets' = wallets \ UserWallets(call[r].user)
  /\ UNCHANGED <<accounts, closed, keys, dids, identities, profiles, issuers, faults>>

\* FindAgent: the DID is looked up by the user who asks.
FindAgentByOwner(r) ==
  /\ At(r, "findAgent")
  /\ \E did \in FoundDids(call[r].user) :
       call' = [call EXCEPT ![r].step = IF did = NoDid THEN "failed" ELSE "findOwner",
                            ![r].did = did]
  /\ UNCHANGED <<accounts, closed, dids, docs, faults>>

\* StartIssuer: the issuer takes the DID of its owner, if there is one.
StartIssuerWithDid(r, u) ==
  /\ call[r] = NoCall
  /\ "issuer" \in Kinds
  /\ \E did \in FoundDids(u) :
       call' = [call EXCEPT ![r] =
         [kind |-> "issuer", user |-> u, account |-> NoAccount, subject |-> u,
          step |-> IF did = NoDid THEN "register" ELSE "saveIssuer",
          did |-> did, ownerDid |-> NoDid]]
  /\ UNCHANGED <<accounts, closed, dids, docs, faults>>

\* FindIdentity: the document is saved before the DID has been created.
FindAndSaveIdentity(r) ==
  /\ Go(r, "findIdentity",
        IF IdentitiesOf(call[r].subject) = {} THEN "saveIdentity"
        ELSE IF call[r].kind = "identity" THEN "done" ELSE "failed")
  /\ UNCHANGED <<accounts, closed, dids, docs, faults>>

--------------------------------------------------------------------------------
(* createWallet *)

\* Only a user wallet is looked for; an owner may have any number of agents.
StartWallet(r, kind, u) ==
  /\ kind \in {"userWallet", "userWalletAndDid", "agentWallet", "agentWalletAndDid", "newAgent"}
  /\ Start(r, kind, u, NoAccount, u,
       IF kind \in {"userWallet", "userWalletAndDid"} /\ UserWallets(u) # {}
       THEN "failed" ELSE "create")
  /\ UNCHANGED <<accounts, closed, dids, docs, faults>>

CreateAccount(r) ==
  /\ accounts < MaxAccounts
  /\ At(r, "create")
  /\ accounts' = accounts + 1
  /\ call' = [call EXCEPT ![r].step = "saveKey", ![r].account = accounts + 1,
                ![r].subject = IF WalletType(r) = "agent" THEN accounts + 1 ELSE @]
  /\ UNCHANGED <<closed, dids, docs, faults>>

SaveKey(r) ==
  /\ Go(r, "saveKey", "saveWallet")
  /\ keys' = keys \cup {call[r].account}
  /\ UNCHANGED <<accounts, closed, wallets, dids, identities, profiles, issuers, faults>>

\* walletDocument.save(): the index allows one user wallet per owner.
SaveWallet(r) ==
  LET u == call[r].user
      duplicate == WalletType(r) = "user" /\ UserWallets(u) # {}
  IN
  /\ Go(r, "saveWallet",
        IF duplicate THEN "failed"
        ELSE IF call[r].kind \in {"userWallet", "agentWallet"} THEN "done"
        ELSE "checkWallet")
  /\ wallets' = IF duplicate THEN wallets
                ELSE wallets \cup {[account |-> call[r].account, owner |-> u,
                                    type |-> WalletType(r)]}
  /\ UNCHANGED <<accounts, closed, keys, dids, identities, profiles, issuers, faults>>

--------------------------------------------------------------------------------
(* createDID, called by createWallet and by itself, and getIdentityForUser *)

StartDid(r, kind, u, subject) ==
  /\ \/ kind = "did" /\ Start(r, kind, u, NoAccount, subject, "checkWallet")
     \/ kind = "identity" /\ Start(r, kind, u, NoAccount, subject, "findIdentity")
  /\ UNCHANGED <<accounts, closed, dids, docs, faults>>

\* checkWallets: a wallet owned by the subject, or of the subject's account
CheckWallet(r) ==
  /\ Go(r, "checkWallet",
        IF \E w \in wallets : call[r].subject \in {w.owner, w.account}
        THEN "findIdentity" ELSE "failed")
  /\ UNCHANGED <<accounts, closed, dids, docs, faults>>

\* createDID refuses an owner that has an identity, getIdentityForUser returns it.
FindIdentity(r) ==
  /\ Go(r, "findIdentity",
        IF IdentitiesOf(call[r].subject) = {} THEN "register"
        ELSE IF call[r].kind = "identity" THEN "done" ELSE "failed")
  /\ UNCHANGED <<accounts, closed, dids, docs, faults>>

\* An issuer has a DID of its own, which no Identity records.
AfterRegister(r) == IF call[r].kind = "issuer" THEN "saveIssuer" ELSE "saveIdentity"

RegisterDid(r) ==
  /\ At(r, "register")
  /\ dids' = dids + 1
  /\ call' = [call EXCEPT ![r].step = AfterRegister(r), ![r].did = dids + 1]
  /\ UNCHANGED <<accounts, closed, docs, faults>>

SaveIdentity(r) ==
  /\ Go(r, "saveIdentity", IF call[r].kind = "newAgent" THEN "findAgent" ELSE "done")
  /\ identities' = identities \cup {[owner |-> call[r].subject, did |-> call[r].did]}
  /\ UNCHANGED <<accounts, closed, keys, wallets, dids, profiles, issuers, faults>>

--------------------------------------------------------------------------------
(* createIssuer *)

StartIssuer(r, u) ==
  /\ Start(r, "issuer", u, NoAccount, u, "register")
  /\ UNCHANGED <<accounts, closed, dids, docs, faults>>

\* The index allows one issuer of a name per owner.
SaveIssuer(r) ==
  LET duplicate == \E i \in issuers : i.owner = call[r].user IN
  /\ Go(r, "saveIssuer", IF duplicate THEN "failed" ELSE "done")
  /\ issuers' = IF duplicate THEN issuers
                ELSE issuers \cup {[owner |-> call[r].user, did |-> call[r].did]}
  /\ UNCHANGED <<accounts, closed, keys, wallets, dids, identities, profiles, faults>>

--------------------------------------------------------------------------------
(* AgentProfileService.create, and createWithNewAgentAccount after its wallet *)

StartProfile(r, u, account) ==
  /\ Start(r, "profile", u, account, account, "findAgent")
  /\ UNCHANGED <<accounts, closed, dids, docs, faults>>

FindAgent(r) ==
  /\ At(r, "findAgent")
  /\ \E did \in FoundDids(call[r].account) :
       call' = [call EXCEPT ![r].step = IF did = NoDid THEN "failed" ELSE "findOwner",
                            ![r].did = did]
  /\ UNCHANGED <<accounts, closed, dids, docs, faults>>

\* An owner without a wallet or identity leaves agentOwnerDID empty.
FindOwner(r) ==
  LET owners == IF call[r].kind = "newAgent" THEN {call[r].user}
                ELSE {w.owner : w \in {v \in wallets : v.account = call[r].account}}
  IN
  /\ At(r, "findOwner")
  /\ \E did \in IF owners = {} THEN {NoDid} ELSE UNION {FoundDids(u) : u \in owners} :
       call' = [call EXCEPT ![r].step = "findProfile", ![r].ownerDid = did]
  /\ UNCHANGED <<accounts, closed, dids, docs, faults>>

FindProfile(r) ==
  /\ Go(r, "findProfile",
        IF \E p \in profiles : p.account = call[r].account THEN "failed" ELSE "topics")
  /\ UNCHANGED <<accounts, closed, dids, docs, faults>>

\* Three topics on the ledger, of which only the profile would know.
CreateTopics(r) ==
  /\ Go(r, "topics", "saveProfile")
  /\ UNCHANGED <<accounts, closed, dids, docs, faults>>

\* agentOwnerDID is required, which an empty string does not satisfy; agentDid and
\* agentAccountId are unique.
SaveProfile(r) ==
  LET refused == \/ call[r].ownerDid = NoDid
                 \/ \E p \in profiles :
                      p.agentDid = call[r].did \/ p.account = call[r].account
  IN
  /\ Go(r, "saveProfile", IF refused THEN "failed" ELSE "publish")
  /\ profiles' = IF refused THEN profiles
                 ELSE profiles \cup {[account |-> call[r].account, agentDid |-> call[r].did,
                                      ownerDid |-> call[r].ownerDid]}
  /\ UNCHANGED <<accounts, closed, keys, wallets, dids, identities, issuers, faults>>

\* The profile is written to the DID's topic.
Publish(r) ==
  /\ Go(r, "publish", "done")
  /\ UNCHANGED <<accounts, closed, dids, docs, faults>>

--------------------------------------------------------------------------------
(* deleteWallet *)

\* findOne({ owner }): a wallet of either type
StartDelete(r, u) ==
  /\ \/ \E w \in wallets :
          w.owner = u /\ Start(r, "delete", u, w.account, u, "closeAccount")
     \/ (\A w \in wallets : w.owner # u) /\ Start(r, "delete", u, NoAccount, u, "failed")
  /\ UNCHANGED <<accounts, closed, dids, docs, faults>>

\* The ledger refuses to delete an account a second time.
CloseAccount(r) ==
  /\ Go(r, "closeAccount", IF call[r].account \in closed THEN "failed" ELSE "deleteWallet")
  /\ closed' = closed \cup {call[r].account}
  /\ UNCHANGED <<accounts, dids, docs, faults>>

DeleteWallet(r) ==
  /\ Go(r, "deleteWallet", "done")
  /\ wallets' = {w \in wallets : w.account # call[r].account}
  /\ UNCHANGED <<accounts, closed, keys, dids, identities, profiles, issuers, faults>>

--------------------------------------------------------------------------------
(* Faults. *)

\* A ledger transaction, a request or a database operation fails, or its answer is
\* lost when it has had its effect: the call is rejected where it is.
CallFails(r) ==
  /\ faults < MaxFaults
  /\ faults' = faults + 1
  /\ r \in Running
  /\ call' = [call EXCEPT ![r].step = "failed"]
  /\ UNCHANGED <<accounts, closed, dids, docs>>

Crash ==
  /\ faults < MaxFaults
  /\ faults' = faults + 1
  /\ Running # {}
  /\ call' = [r \in Calls |-> IF r \in Running THEN [call[r] EXCEPT !.step = "failed"]
                              ELSE call[r]]
  /\ UNCHANGED <<accounts, closed, dids, docs>>

--------------------------------------------------------------------------------
Begin(r) ==
  \E u \in Users :
    \/ \E kind \in Kinds : StartWallet(r, kind, u)
    \/ \E kind \in Kinds, owner \in Owners : StartDid(r, kind, u, owner)
    \/ \E a \in Accounts : StartProfile(r, u, a)
    \/ StartIssuer(r, u)
    \/ StartDelete(r, u)

Step(r) ==
  \/ CreateAccount(r) \/ SaveKey(r) \/ SaveWallet(r)
  \/ CheckWallet(r) \/ FindIdentity(r) \/ RegisterDid(r) \/ SaveIdentity(r)
  \/ SaveIssuer(r)
  \/ FindAgent(r) \/ FindOwner(r) \/ FindProfile(r) \/ CreateTopics(r)
  \/ SaveProfile(r) \/ Publish(r)
  \/ CloseAccount(r) \/ DeleteWallet(r)

Next == (\E r \in Calls : Begin(r) \/ Step(r) \/ CallFails(r)) \/ Crash

Spec == Init /\ [][Next]_vars

--------------------------------------------------------------------------------
(* Properties. *)

\* Documents and calls keep their shapes and name accounts and DIDs that exist.
TypeOK ==
  /\ accounts \in 0..MaxAccounts /\ closed \subseteq 1..accounts
  /\ keys \subseteq 1..accounts
  /\ wallets \subseteq Wallets
  /\ dids \in Nat
  /\ identities \subseteq Identities
  /\ profiles \subseteq Profiles
  /\ issuers \subseteq Issuers
  /\ call \in [Calls -> CallData \cup {NoCall}]
  /\ faults \in 0..MaxFaults

\* Whatever fails and when, an account that a document names can be signed for: its
\* private key is stored.
KeyIsNeverLost ==
  /\ \A w \in wallets : w.account \in keys
  /\ \A p \in profiles : p.account \in keys

\* A profile carries a DID of its own account, not of its owner or another agent,
\* and its owner's DID is one of a user.
ProfileIsOfItsAgent ==
  \A p \in profiles :
    /\ [owner |-> p.account, did |-> p.agentDid] \in identities
    /\ \E u \in Users : [owner |-> u, did |-> p.ownerDid] \in identities

\* "a new DID for the issuer itself": no user, agent or other issuer has it.
DidsAreNotShared ==
  /\ \A i \in issuers, j \in identities : i.did # j.did
  /\ \A i, j \in issuers : i.did = j.did => i = j
  /\ \A i, j \in identities : i.did = j.did => i = j

\* An open account without a wallet was left behind by a call that creates one and
\* has not succeeded: no deletion forgets an account that is still open.
LostAccounts ==
  \A a \in (1..accounts) \ closed :
    (\A w \in wallets : w.account # a) =>
      \E r \in Calls :
        /\ call[r] # NoCall
        /\ call[r].kind \notin {"delete", "did", "identity", "profile", "issuer"}
        /\ call[r].account = a
        /\ call[r].step # "done"

\* A wallet of a deleted account is about to be deleted itself, or its deletion was
\* cut off by a fault.
ClosedWalletsGo ==
  \A w \in wallets :
    w.account \in closed =>
      \E r \in Calls :
        /\ call[r] # NoCall /\ call[r].kind = "delete" /\ call[r].account = w.account
        /\ At(r, "deleteWallet") \/ (call[r].step = "failed" /\ faults > 0)

\* The ledger and the wallets tell the same accounts, but for calls in between
\* their two writes or cut off there.
WalletsMatchLedger == LostAccounts /\ ClosedWalletsGo

================================================================================
