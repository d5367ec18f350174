----------------------- MODULE AccountProvisioningProofs -----------------------
(***************************************************************************)
(* Theorems of AccountProvisioning for any users, any number of requests,  *)
(* accounts and faults: the shapes of documents and requests, no lost key, *)
(* profiles of their own agent, DIDs that are not shared, and wallets that *)
(* match the ledger.                                                       *)
(***************************************************************************)
EXTENDS AccountProvisioning, TLAPS

Creators == {"userWallet", "userWalletAndDid", "agentWallet", "agentWalletAndDid", "newAgent"}
Profiling == {"findAgent", "findOwner", "findProfile", "topics", "saveProfile", "publish"}

\* The steps that belong to one kind of request, and what a request holds there.
StepFits(q) ==
  /\ q.step \in {"create", "saveKey", "saveWallet"} => q.kind \in Creators
  /\ q.step \in {"closeAccount", "deleteWallet"} => q.kind = "delete" /\ q.account \in keys
  /\ q.step \in Profiling => q.kind \in {"profile", "newAgent"} /\ q.account \in Accounts
  /\ q.step \in {"saveIdentity", "saveIssuer"} \cup (Profiling \ {"findAgent"}) => q.did \in Dids

\* A request has an account once it has created one, and its key once that is saved.
AccountFits(q) ==
  /\ q.kind = "delete" => q.account \in keys \cup {NoAccount}
  /\ q.kind \in Creators =>
       /\ q.account \in 0..accounts
       /\ q.step \notin {"create", "failed"} => q.account # NoAccount
       /\ q.step \notin {"create", "saveKey", "failed"} => q.account \in keys

TypeInv ==
  /\ TypeOK
  /\ \A w \in wallets : w.account \in keys
  /\ \A r \in Calls : call[r] # NoCall => StepFits(call[r]) /\ AccountFits(call[r])

--------------------------------------------------------------------------------
LEMMA NoCallIsNone == NoCall \notin CallData
<1>1. ASSUME NoCall \in CallData PROVE FALSE
  <2>1. NoCall.kind \in AllKinds
    BY <1>1 DEF CallData
  <2>2. QED
    BY <2>1 DEF NoCall, AllKinds
<1>2. QED
  BY <1>1

LEMMA TypeInvInit == Init => TypeInv
BY BoundsAreNat DEF Init, TypeInv, TypeOK, NoCall

\* A request that goes on changes where it is, and keeps the rest of what it holds.
LEMMA GoMoves ==
  ASSUME TypeOK, NEW r \in Calls, NEW from, NEW to \in Steps, Go(r, from, to)
  PROVE  /\ call[r] \in CallData /\ call[r].step = from /\ from \notin {"done", "failed"}
         /\ call' \in [Calls -> CallData \cup {NoCall}]
         /\ call'[r] \in CallData /\ call'[r].step = to
         /\ call'[r].kind = call[r].kind /\ call'[r].user = call[r].user
         /\ call'[r].account = call[r].account /\ call'[r].subject = call[r].subject
         /\ call'[r].did = call[r].did /\ call'[r].ownerDid = call[r].ownerDid
         /\ \A p \in Calls \ {r} : call'[p] = call[p]
<1>1. call[r] \in CallData /\ call[r].step = from /\ from \notin {"done", "failed"}
  BY DEF TypeOK, Go, At, Running
<1>2. call'[r] = [call[r] EXCEPT !.step = to] /\ \A p \in Calls \ {r} : call'[p] = call[p]
  BY DEF TypeOK, Go
<1>3. [call[r] EXCEPT !.step = to] \in CallData
  BY <1>1 DEF CallData
<1>4. call' \in [Calls -> CallData \cup {NoCall}]
  BY <1>3 DEF TypeOK, Go
<1>5. QED
  BY <1>1, <1>2, <1>3, <1>4 DEF CallData

\* A step of a request keeps the types if it keeps those of what it changes.
LEMMA TypeMoves ==
  ASSUME TypeInv, NEW r \in Calls, call' \in [Calls -> CallData \cup {NoCall}],
         \A p \in Calls \ {r} : call'[p] = call[p],
         call'[r] # NoCall => (StepFits(call[r]) /\ AccountFits(call[r]))',
         accounts' \in 0..MaxAccounts, accounts <= accounts',
         closed' \subseteq 1..accounts', keys \subseteq keys', keys' \subseteq 1..accounts',
         wallets' \subseteq Wallets, \A w \in wallets' : w.account \in keys',
         dids' \in Nat, identities' \subseteq Identities, profiles' \subseteq Profiles,
         issuers' \subseteq Issuers, faults' \in 0..MaxFaults
  PROVE  TypeInv'
<1>1. TypeOK'
  BY DEF TypeOK
<1>2. ASSUME NEW p \in Calls, call'[p] # NoCall
      PROVE  (StepFits(call[p]) /\ AccountFits(call[p]))'
  <2>1. CASE p = r
    BY <1>2, <2>1
  <2>2. CASE p # r
    <3>1. call'[p] = call[p] /\ StepFits(call[p]) /\ AccountFits(call[p])
      BY <1>2, <2>2 DEF TypeInv
    <3>2. StepFits(call[p])'
      BY <3>1 DEF StepFits
    <3>3. \A n : n \in 0..accounts => n \in 0..accounts'
      BY BoundsAreNat DEF TypeInv, TypeOK
    <3>4. AccountFits(call[p])'
      <4>1. call[p].kind = "delete" => call[p].account \in keys' \cup {NoAccount}
        BY <3>1 DEF AccountFits
      <4>2. ASSUME call[p].kind \in Creators
            PROVE  /\ call[p].account \in 0..accounts'
                   /\ call[p].step \notin {"create", "failed"} => call[p].account # NoAccount
                   /\ call[p].step \notin {"create", "saveKey", "failed"} =>
                        call[p].account \in keys'
        BY <3>1, <3>3, <4>2 DEF AccountFits
      <4>3. QED
        BY <3>1, <4>1, <4>2 DEF AccountFits
    <3>5. QED
      BY <3>2, <3>4
  <2>3. QED
    BY <2>1, <2>2
<1>3. QED
  BY <1>1, <1>2 DEF TypeInv

\* A step that touches no document and goes on to a step that asks for nothing new.
LEMMA PlainMove ==
  ASSUME TypeInv, NEW r \in Calls, NEW from, NEW to \in Steps, Go(r, from, to),
         StepFits([call[r] EXCEPT !.step = to]), AccountFits([call[r] EXCEPT !.step = to]),
         UNCHANGED <<accounts, closed, dids, docs, faults>>
  PROVE  TypeInv'
<1>1. TypeOK
  BY DEF TypeInv
<1>2. call[r] \in CallData /\ call' \in [Calls -> CallData \cup {NoCall}]
      /\ \A p \in Calls \ {r} : call'[p] = call[p]
  BY <1>1, GoMoves
<1>3. call'[r] = [call[r] EXCEPT !.step = to]
  BY <1>1 DEF TypeOK, Go
<1>4. (StepFits(call[r]) /\ AccountFits(call[r]))'
  BY <1>3 DEF StepFits, AccountFits, docs
<1>5. accounts \in 0..MaxAccounts /\ accounts <= accounts
  BY <1>1, BoundsAreNat DEF TypeOK
<1>6. QED
  BY <1>1, <1>2, <1>4, <1>5, TypeMoves DEF TypeInv, TypeOK, docs

LEMMA Stepped ==
  ASSUME NEW q \in CallData, NEW to \in Steps
  PROVE  LET n == [q EXCEPT !.step = to] IN
         /\ n \in CallData /\ n.step = to /\ n.kind = q.kind /\ n.user = q.user
         /\ n.account = q.account /\ n.subject = q.subject /\ n.did = q.did
         /\ n.ownerDid = q.ownerDid
BY DEF CallData

\* What is known of a request that is at one of its steps.
LEMMA AtStep ==
  ASSUME TypeInv, NEW r \in Calls, NEW step, At(r, step)
  PROVE  /\ call[r] \in CallData /\ call[r] # NoCall /\ call[r].step = step
         /\ step \notin {"done", "failed"} /\ StepFits(call[r]) /\ AccountFits(call[r])
<1>1. call[r] \in CallData /\ call[r] # NoCall /\ call[r].step = step
      /\ step \notin {"done", "failed"}
  BY DEF At, Running, TypeInv, TypeOK
<1>2. QED
  BY <1>1 DEF TypeInv

\* Requests that start: they hold an account that exists, or none.
LEMMA StartKeeps ==
  ASSUME TypeInv, NEW r \in Calls, NEW kind \in AllKinds, NEW u \in Users,
         NEW account \in Accounts \cup {NoAccount}, NEW subject \in Owners, NEW step \in Steps,
         Start(r, kind, u, account, subject, step),
         UNCHANGED <<accounts, closed, dids, docs, faults>>,
         \/ kind \in Creators /\ account = NoAccount /\ step \in {"create", "failed"}
         \/ kind = "delete" /\ account \in keys /\ step = "closeAccount"
         \/ kind = "delete" /\ account = NoAccount /\ step = "failed"
         \/ kind = "profile" /\ account \in Accounts /\ step = "findAgent"
         \/ kind \in {"did", "identity", "issuer"}
            /\ step \in {"checkWallet", "findIdentity", "register"}
  PROVE  TypeInv'
<1> DEFINE d == [kind |-> kind, user |-> u, step |-> step, account |-> account,
                 subject |-> subject, did |-> NoDid, ownerDid |-> NoDid]
<1>1. d \in CallData
  BY DEF CallData
<1>2. call' = [call EXCEPT ![r] = d]
  BY DEF Start
<1>3. d.kind = kind /\ d.step = step /\ d.account = account
  OBVIOUS
<1> HIDE DEF d
<1>4. call' \in [Calls -> CallData \cup {NoCall}] /\ call'[r] = d
      /\ \A p \in Calls \ {r} : call'[p] = call[p]
  BY <1>1, <1>2 DEF TypeInv, TypeOK
<1>5. accounts \in Nat /\ accounts \in 0..MaxAccounts /\ accounts <= accounts
  BY BoundsAreNat DEF TypeInv, TypeOK
<1>6. StepFits(call[r])'
  BY <1>3, <1>4 DEF StepFits, Creators, Profiling, docs
<1>7. AccountFits(call[r])'
  BY <1>3, <1>4, <1>5 DEF AccountFits, Creators, docs, NoAccount
<1>8. QED
  BY <1>4, <1>5, <1>6, <1>7, TypeMoves DEF TypeInv, TypeOK, docs

LEMMA BeginKeeps ==
  ASSUME TypeInv, NEW r \in Calls, Begin(r)
  PROVE  TypeInv'
<1> USE DEF Owners, Steps
<1>1. PICK u \in Users :
        \/ \E kind \in Kinds : StartWallet(r, kind, u)
        \/ \E kind \in Kinds, owner \in Owners : StartDid(r, kind, u, owner)
        \/ \E a \in Accounts : StartProfile(r, u, a)
        \/ StartIssuer(r, u)
        \/ StartDelete(r, u)
  BY DEF Begin
<1>2. ASSUME NEW kind \in Kinds, StartWallet(r, kind, u) PROVE TypeInv'
  <2>1. kind \in Creators /\ kind \in AllKinds
    BY <1>2, KindsKnown DEF StartWallet, Creators
  <2>2. PICK step \in {"failed", "create"} : Start(r, kind, u, NoAccount, u, step)
    BY <1>2 DEF StartWallet
  <2>3. QED
    BY <1>2, <2>1, <2>2, StartKeeps DEF StartWallet
<1>3. ASSUME NEW kind \in Kinds, NEW owner \in Owners, StartDid(r, kind, u, owner) PROVE TypeInv'
  <2>1. kind \in {"did", "identity"} /\ kind \in AllKinds
    BY <1>3 DEF StartDid, AllKinds
  <2>2. PICK step \in {"checkWallet", "findIdentity"} : Start(r, kind, u, NoAccount, owner, step)
    BY <1>3 DEF StartDid
  <2>3. QED
    BY <1>3, <2>1, <2>2, StartKeeps DEF StartDid
<1>4. ASSUME NEW a \in Accounts, StartProfile(r, u, a) PROVE TypeInv'
  BY <1>4, StartKeeps DEF StartProfile, AllKinds
<1>5. CASE StartIssuer(r, u)
  BY <1>5, StartKeeps DEF StartIssuer, AllKinds
<1>6. CASE StartDelete(r, u)
  <2>1. ASSUME NEW w \in wallets, Start(r, "delete", u, w.account, u, "closeAccount")
        PROVE  TypeInv'
    <3>1. w.account \in Accounts /\ w.account \in keys
      BY DEF TypeInv, TypeOK, Wallets
    <3>2. QED
      BY <1>6, <2>1, <3>1, StartKeeps DEF StartDelete, AllKinds
  <2>2. CASE Start(r, "delete", u, NoAccount, u, "failed")
    BY <1>6, <2>2, StartKeeps DEF StartDelete, AllKinds
  <2>3. QED
    BY <1>6, <2>1, <2>2 DEF StartDelete
<1>7. QED
  BY <1>1, <1>2, <1>3, <1>4, <1>5, <1>6

\* The steps of createWallet.
LEMMA WalletStepsKeep ==
  ASSUME TypeInv, NEW r \in Calls, CreateAccount(r) \/ SaveKey(r) \/ SaveWallet(r)
  PROVE  TypeInv'
<1>0. TypeOK /\ accounts \in 0..MaxAccounts /\ accounts <= accounts
  BY BoundsAreNat DEF TypeInv, TypeOK
<1>1. CASE CreateAccount(r)
  <2> DEFINE subject == IF WalletType(r) = "agent" THEN accounts + 1 ELSE call[r].subject
             d == [call[r] EXCEPT !.step = "saveKey", !.account = accounts + 1, !.subject = subject]
  <2>1. /\ accounts < MaxAccounts /\ At(r, "create") /\ accounts' = accounts + 1
        /\ UNCHANGED <<closed, dids, docs, faults>>
        /\ call' = [call EXCEPT ![r].step = "saveKey", ![r].account = accounts + 1,
                      ![r].subject = IF WalletType(r) = "agent" THEN accounts + 1 ELSE @]
    BY <1>1 DEF CreateAccount
  <2>2. call' = [call EXCEPT ![r] = d]
    BY <2>1
  <2>3. /\ call[r] \in CallData /\ call[r].kind \in Creators
    BY <2>1, AtStep DEF StepFits
  <2>4. accounts + 1 \in Accounts /\ accounts + 1 # NoAccount
    BY <1>0, <2>1, BoundsAreNat DEF Accounts, NoAccount
  <2>5. d \in CallData /\ d.step = "saveKey" /\ d.account = accounts + 1 /\ d.kind = call[r].kind
    BY <2>3, <2>4 DEF CallData, Owners, Steps
  <2> HIDE DEF d
  <2>6. call' \in [Calls -> CallData \cup {NoCall}] /\ call'[r] = d
        /\ \A p \in Calls \ {r} : call'[p] = call[p]
    BY <1>0, <2>2, <2>5 DEF TypeOK
  <2>7. StepFits(call[r])'
    BY <2>3, <2>5, <2>6 DEF StepFits, Profiling
  <2>8. AccountFits(call[r])'
    BY <1>0, <2>1, <2>3, <2>4, <2>5, <2>6, BoundsAreNat DEF AccountFits, Creators
  <2>9. accounts' \in 0..MaxAccounts /\ accounts <= accounts' /\ 1..accounts \subseteq 1..accounts'
    BY <1>0, <2>1, BoundsAreNat
  <2>10. QED
    BY <1>0, <2>1, <2>6, <2>7, <2>8, <2>9, TypeMoves DEF TypeInv, TypeOK, docs
<1>2. CASE SaveKey(r)
  <2>1. /\ Go(r, "saveKey", "saveWallet") /\ keys' = keys \cup {call[r].account}
        /\ UNCHANGED <<accounts, closed, wallets, dids, identities, profiles, issuers, faults>>
    BY <1>2 DEF SaveKey
  <2>2. /\ call[r].kind \in Creators /\ call[r].account \in 0..accounts
        /\ call[r].account # NoAccount
    BY <2>1, AtStep DEF Go, StepFits, AccountFits
  <2>3. call[r].account \in 1..accounts
    BY <1>0, <2>2, BoundsAreNat DEF NoAccount
  <2>4. /\ call' \in [Calls -> CallData \cup {NoCall}] /\ call'[r].step = "saveWallet"
        /\ call'[r].kind = call[r].kind /\ call'[r].account = call[r].account
        /\ \A p \in Calls \ {r} : call'[p] = call[p]
    BY <1>0, <2>1, GoMoves DEF Steps
  <2>5. StepFits(call[r])' /\ AccountFits(call[r])'
    BY <2>1, <2>2, <2>4 DEF StepFits, AccountFits, Profiling, Creators
  <2>6. QED
    BY <1>0, <2>1, <2>3, <2>4, <2>5, TypeMoves DEF TypeInv, TypeOK
<1>3. CASE SaveWallet(r)
  <2>1. PICK to \in {"failed", "done", "checkWallet"} : Go(r, "saveWallet", to)
    BY <1>3 DEF SaveWallet
  <2>2. UNCHANGED <<accounts, closed, keys, dids, identities, profiles, issuers, faults>>
    BY <1>3 DEF SaveWallet
  <2>3. call[r].kind \in Creators /\ call[r].account \in keys /\ call[r].user \in Users
        /\ call[r].account \in 0..accounts /\ call[r].account # NoAccount
    BY <2>1, AtStep DEF Go, StepFits, AccountFits, CallData
  <2>4. [account |-> call[r].account, owner |-> call[r].user, type |-> WalletType(r)] \in Wallets
    BY <1>0, <2>3, BoundsAreNat DEF Wallets, WalletType, Accounts, TypeOK
  <2>5. wallets' \subseteq Wallets /\ \A w \in wallets' : w.account \in keys
    BY <1>3, <2>3, <2>4 DEF SaveWallet, TypeInv, TypeOK
  <2>6. /\ call' \in [Calls -> CallData \cup {NoCall}] /\ call'[r].step = to
        /\ call'[r].kind = call[r].kind /\ call'[r].account = call[r].account
        /\ \A p \in Calls \ {r} : call'[p] = call[p]
    BY <1>0, <2>1, GoMoves DEF Steps
  <2>7. StepFits(call[r])' /\ AccountFits(call[r])'
    BY <2>2, <2>3, <2>6 DEF StepFits, AccountFits, Profiling, Creators
  <2>8. QED
    BY <1>0, <2>2, <2>5, <2>6, <2>7, TypeMoves DEF TypeInv, TypeOK
<1>4. QED
  BY <1>1, <1>2, <1>3

\* The steps of createDID, getIdentityForUser and createIssuer.
LEMMA DidStepsKeep ==
  ASSUME TypeInv, NEW r \in Calls,
         CheckWallet(r) \/ FindIdentity(r) \/ RegisterDid(r) \/ SaveIdentity(r) \/ SaveIssuer(r)
  PROVE  TypeInv'
<1>0. TypeOK /\ accounts \in 0..MaxAccounts /\ accounts <= accounts
  BY BoundsAreNat DEF TypeInv, TypeOK
<1>1. CASE CheckWallet(r)
  <2>1. PICK to \in {"findIdentity", "failed"} : Go(r, "checkWallet", to)
    BY <1>1 DEF CheckWallet
  <2>2. call[r] \in CallData /\ AccountFits(call[r]) /\ call[r].step = "checkWallet"
    BY <2>1, AtStep DEF Go
  <2>3. StepFits([call[r] EXCEPT !.step = to]) /\ AccountFits([call[r] EXCEPT !.step = to])
    BY <2>2, Stepped DEF StepFits, AccountFits, Profiling, Steps
  <2>4. QED
    BY <1>1, <2>1, <2>3, PlainMove DEF CheckWallet, Steps
<1>2. CASE FindIdentity(r)
  <2>1. PICK to \in {"register", "done", "failed"} : Go(r, "findIdentity", to)
    BY <1>2 DEF FindIdentity
  <2>2. call[r] \in CallData /\ AccountFits(call[r]) /\ call[r].step = "findIdentity"
    BY <2>1, AtStep DEF Go
  <2>3. StepFits([call[r] EXCEPT !.step = to]) /\ AccountFits([call[r] EXCEPT !.step = to])
    BY <2>2, Stepped DEF StepFits, AccountFits, Profiling, Steps
  <2>4. QED
    BY <1>2, <2>1, <2>3, PlainMove DEF FindIdentity, Steps
<1>3. CASE RegisterDid(r)
  <2> DEFINE d == [call[r] EXCEPT !.step = AfterRegister(r), !.did = dids + 1]
  <2>1. /\ At(r, "register") /\ dids' = dids + 1
        /\ call' = [call EXCEPT ![r].step = AfterRegister(r), ![r].did = dids + 1]
        /\ UNCHANGED <<accounts, closed, docs, faults>>
    BY <1>3 DEF RegisterDid
  <2>2. call' = [call EXCEPT ![r] = d]
    BY <2>1
  <2>3. call[r] \in CallData /\ AccountFits(call[r]) /\ call[r].step = "register"
    BY <2>1, AtStep
  <2>4. dids + 1 \in Dids /\ dids + 1 \in Nat
    BY <1>0 DEF TypeOK, Dids
  <2>5. AfterRegister(r) \in {"saveIssuer", "saveIdentity"}
    BY DEF AfterRegister
  <2>6. d \in CallData /\ d.step \in {"saveIssuer", "saveIdentity"} /\ d.account = call[r].account
        /\ d.kind = call[r].kind /\ d.did = dids + 1
    BY <2>3, <2>4, <2>5 DEF CallData, Steps
  <2> HIDE DEF d
  <2>7. call' \in [Calls -> CallData \cup {NoCall}] /\ call'[r] = d
        /\ \A p \in Calls \ {r} : call'[p] = call[p]
    BY <1>0, <2>2, <2>6 DEF TypeOK
  <2>8. StepFits(call[r])' /\ AccountFits(call[r])'
    <3>1. StepFits(call[r])'
      BY <2>4, <2>6, <2>7 DEF StepFits, Profiling
    <3>2. accounts' = accounts /\ keys' = keys
      BY <2>1 DEF docs
    <3>3. AccountFits(call[r])'
      BY <2>3, <2>6, <2>7, <3>2 DEF AccountFits
    <3>4. QED
      BY <3>1, <3>3
  <2>9. QED
    BY <1>0, <2>1, <2>4, <2>7, <2>8, TypeMoves DEF TypeInv, TypeOK, docs
<1>4. CASE SaveIdentity(r)
  <2>1. PICK to \in {"findAgent", "done"} :
          Go(r, "saveIdentity", to) /\ (to = "findAgent" => call[r].kind = "newAgent")
    BY <1>4 DEF SaveIdentity
  <2>2. /\ identities' = identities \cup {[owner |-> call[r].subject, did |-> call[r].did]}
        /\ UNCHANGED <<accounts, closed, keys, wallets, dids, profiles, issuers, faults>>
    BY <1>4 DEF SaveIdentity
  <2>3. call[r] \in CallData /\ AccountFits(call[r]) /\ call[r].did \in Dids
        /\ call[r].step = "saveIdentity"
    BY <2>1, AtStep DEF Go, StepFits
  <2>4. [owner |-> call[r].subject, did |-> call[r].did] \in Identities
    BY <2>3 DEF Identities, CallData
  <2>5. /\ call' \in [Calls -> CallData \cup {NoCall}] /\ call'[r].step = to
        /\ call'[r].kind = call[r].kind /\ call'[r].account = call[r].account
        /\ \A p \in Calls \ {r} : call'[p] = call[p]
    BY <1>0, <2>1, GoMoves DEF Steps
  <2>6. call[r].kind = "newAgent" => call[r].account \in Accounts
    <3>1. call[r].kind = "newAgent" => call[r].account \in 0..accounts /\ call[r].account # NoAccount
      BY <2>3 DEF AccountFits, Creators
    <3>2. QED
      BY <1>0, <3>1, BoundsAreNat DEF Accounts, NoAccount
  <2>7. StepFits(call[r])'
    BY <2>1, <2>5, <2>6 DEF StepFits, Profiling
  <2>8. AccountFits(call[r])'
    BY <2>1, <2>2, <2>3, <2>5 DEF AccountFits
  <2>9. QED
    BY <1>0, <2>2, <2>4, <2>5, <2>7, <2>8, TypeMoves DEF TypeInv, TypeOK
<1>5. CASE SaveIssuer(r)
  <2>1. PICK to \in {"failed", "done"} : Go(r, "saveIssuer", to)
    BY <1>5 DEF SaveIssuer
  <2>2. /\ issuers' \subseteq issuers \cup {[owner |-> call[r].user, did |-> call[r].did]}
        /\ UNCHANGED <<accounts, closed, keys, wallets, dids, identities, profiles, faults>>
    BY <1>5 DEF SaveIssuer
  <2>3. call[r] \in CallData /\ AccountFits(call[r]) /\ call[r].did \in Dids
        /\ call[r].step = "saveIssuer"
    BY <2>1, AtStep DEF Go, StepFits
  <2>4. [owner |-> call[r].user, did |-> call[r].did] \in Issuers
    BY <2>3 DEF Issuers, CallData
  <2>5. /\ call' \in [Calls -> CallData \cup {NoCall}] /\ call'[r].step = to
        /\ call'[r].kind = call[r].kind /\ call'[r].account = call[r].account
        /\ \A p \in Calls \ {r} : call'[p] = call[p]
    BY <1>0, <2>1, GoMoves DEF Steps
  <2>6. StepFits(call[r])' /\ AccountFits(call[r])'
    BY <2>1, <2>2, <2>3, <2>5 DEF StepFits, AccountFits, Profiling
  <2>7. QED
    BY <1>0, <2>2, <2>4, <2>5, <2>6, TypeMoves DEF TypeInv, TypeOK
<1>6. QED
  BY <1>1, <1>2, <1>3, <1>4, <1>5

\* The steps of AgentProfileService.create that save nothing.
LEMMA ProfileReadsKeep ==
  ASSUME TypeInv, NEW r \in Calls,
         FindAgent(r) \/ FindOwner(r) \/ FindProfile(r) \/ CreateTopics(r) \/ Publish(r)
  PROVE  TypeInv'
<1>0. TypeOK /\ accounts \in 0..MaxAccounts /\ accounts <= accounts
  BY BoundsAreNat DEF TypeInv, TypeOK
<1>1. \A owner : FoundDids(owner) \subseteq Dids \cup {NoDid}
  BY <1>0 DEF FoundDids, IdentitiesOf, TypeOK, Identities
<1>2. CASE FindAgent(r)
  <2>0. PICK did \in FoundDids(call[r].account) :
          call' = [call EXCEPT ![r].step = IF did = NoDid THEN "failed" ELSE "findOwner",
                               ![r].did = did]
    BY <1>2 DEF FindAgent
  <2>1. did \in Dids \cup {NoDid}
    BY <1>1
  <2>2. At(r, "findAgent") /\ UNCHANGED <<accounts, closed, dids, docs, faults>>
    BY <1>2 DEF FindAgent
  <2> DEFINE to == IF did = NoDid THEN "failed" ELSE "findOwner"
             d == [call[r] EXCEPT !.step = to, !.did = did]
  <2>3. /\ call[r] \in CallData /\ StepFits(call[r]) /\ AccountFits(call[r])
        /\ call[r].step = "findAgent"
    BY <2>2, AtStep
  <2>4. /\ d \in CallData /\ d.step = to /\ d.account = call[r].account
        /\ d.kind = call[r].kind /\ d.did = did
    BY <2>1, <2>3 DEF CallData, Steps
  <2>5. call' = [call EXCEPT ![r] = d]
    BY <2>0
  <2>6. to \in {"failed", "findOwner"} /\ (to = "findOwner" => did \in Dids)
    BY <2>1
  <2> HIDE DEF d, to
  <2>7. call' \in [Calls -> CallData \cup {NoCall}] /\ call'[r] = d
        /\ \A p \in Calls \ {r} : call'[p] = call[p]
    BY <1>0, <2>4, <2>5 DEF TypeOK
  <2>8. StepFits(call[r])'
    BY <2>3, <2>4, <2>6, <2>7 DEF StepFits, Profiling
  <2>9. accounts' = accounts /\ keys' = keys
    BY <2>2 DEF docs
  <2>10. AccountFits(call[r])'
    BY <2>3, <2>4, <2>6, <2>7, <2>9 DEF AccountFits
  <2>11. QED
    BY <1>0, <2>2, <2>7, <2>8, <2>10, TypeMoves DEF TypeInv, TypeOK, docs
<1>3. CASE FindOwner(r)
  <2> DEFINE owners == IF call[r].kind = "newAgent" THEN {call[r].user}
                       ELSE {w.owner : w \in {v \in wallets : v.account = call[r].account}}
             found == IF owners = {} THEN {NoDid} ELSE UNION {FoundDids(u) : u \in owners}
  <2>0. \E did \in found : call' = [call EXCEPT ![r].step = "findProfile", ![r].ownerDid = did]
    BY <1>3 DEF FindOwner
  <2>0a. found \subseteq Dids \cup {NoDid}
    BY <1>1
  <2>1. PICK did \in Dids \cup {NoDid} :
          call' = [call EXCEPT ![r].step = "findProfile", ![r].ownerDid = did]
    <3> HIDE DEF found
    <3>1. QED
      BY <2>0, <2>0a
  <2>2. At(r, "findOwner") /\ UNCHANGED <<accounts, closed, dids, docs, faults>>
    BY <1>3 DEF FindOwner
  <2> DEFINE d == [call[r] EXCEPT !.step = "findProfile", !.ownerDid = did]
  <2>3. /\ call[r] \in CallData /\ StepFits(call[r]) /\ AccountFits(call[r])
        /\ call[r].step = "findOwner"
    BY <2>2, AtStep
  <2>4. /\ d \in CallData /\ d.step = "findProfile" /\ d.account = call[r].account
        /\ d.kind = call[r].kind /\ d.did = call[r].did
    BY <2>3 DEF CallData, Steps
  <2>5. call' = [call EXCEPT ![r] = d]
    BY <2>1
  <2> HIDE DEF d
  <2>6. call' \in [Calls -> CallData \cup {NoCall}] /\ call'[r] = d
        /\ \A p \in Calls \ {r} : call'[p] = call[p]
    BY <1>0, <2>4, <2>5 DEF TypeOK
  <2>7. StepFits(call[r])'
    BY <2>3, <2>4, <2>6 DEF StepFits, Profiling
  <2>8. accounts' = accounts /\ keys' = keys
    BY <2>2 DEF docs
  <2>9. AccountFits(call[r])'
    BY <2>3, <2>4, <2>6, <2>8 DEF AccountFits
  <2>10. QED
    BY <1>0, <2>2, <2>6, <2>7, <2>9, TypeMoves DEF TypeInv, TypeOK, docs
<1>4. CASE FindProfile(r) \/ CreateTopics(r) \/ Publish(r)
  <2>1. PICK from \in {"findProfile", "topics", "publish"},
             to \in {"failed", "topics", "saveProfile", "done"} : Go(r, from, to)
    BY <1>4 DEF FindProfile, CreateTopics, Publish
  <2>2. UNCHANGED <<accounts, closed, dids, docs, faults>>
    BY <1>4 DEF FindProfile, CreateTopics, Publish
  <2>3. call[r] \in CallData /\ StepFits(call[r]) /\ AccountFits(call[r]) /\ call[r].step = from
    BY <2>1, AtStep DEF Go
  <2>4. StepFits([call[r] EXCEPT !.step = to])
    BY <2>3, Stepped DEF StepFits, Profiling, Steps
  <2>5. AccountFits([call[r] EXCEPT !.step = to])
    BY <2>3, Stepped DEF AccountFits, Steps
  <2>6. QED
    BY <2>1, <2>2, <2>4, <2>5, PlainMove DEF Steps
<1>5. QED
  BY <1>2, <1>3, <1>4

LEMMA SaveProfileKeeps ==
  ASSUME TypeInv, NEW r \in Calls, SaveProfile(r)
  PROVE  TypeInv'
<1>0. TypeOK /\ accounts \in 0..MaxAccounts /\ accounts <= accounts
  BY BoundsAreNat DEF TypeInv, TypeOK
<1>1. PICK to \in {"failed", "publish"} : Go(r, "saveProfile", to)
  BY DEF SaveProfile
<1>2. UNCHANGED <<accounts, closed, keys, wallets, dids, identities, issuers, faults>>
  BY DEF SaveProfile
<1>3. /\ call[r] \in CallData /\ StepFits(call[r]) /\ AccountFits(call[r])
      /\ call[r].step = "saveProfile"
  BY <1>1, AtStep DEF Go
<1>4. call[r].account \in Accounts /\ call[r].did \in Dids /\ call[r].ownerDid \in Dids \cup {NoDid}
  BY <1>3 DEF StepFits, Profiling, CallData
<1>5. profiles' \subseteq Profiles
  <2>1. CASE call[r].ownerDid = NoDid
    BY <1>0, <2>1 DEF SaveProfile, TypeOK
  <2>2. CASE call[r].ownerDid # NoDid
    <3>1. [account |-> call[r].account, agentDid |-> call[r].did, ownerDid |-> call[r].ownerDid]
            \in Profiles
      BY <1>4, <2>2 DEF Profiles
    <3>2. QED
      BY <1>0, <3>1 DEF SaveProfile, TypeOK
  <2>3. QED
    BY <2>1, <2>2
<1>6. /\ call' \in [Calls -> CallData \cup {NoCall}] /\ call'[r].step = to
      /\ call'[r].kind = call[r].kind /\ call'[r].account = call[r].account
      /\ call'[r].did = call[r].did /\ \A p \in Calls \ {r} : call'[p] = call[p]
  BY <1>0, <1>1, GoMoves DEF Steps
<1>7. StepFits(call[r])'
  BY <1>3, <1>6 DEF StepFits, Profiling
<1>8. AccountFits(call[r])'
  BY <1>2, <1>3, <1>6 DEF AccountFits
<1>9. QED
  BY <1>0, <1>2, <1>5, <1>6, <1>7, <1>8, TypeMoves DEF TypeInv, TypeOK

LEMMA DeleteStepsKeep ==
  ASSUME TypeInv, NEW r \in Calls, CloseAccount(r) \/ DeleteWallet(r)
  PROVE  TypeInv'
<1>0. TypeOK /\ accounts \in 0..MaxAccounts /\ accounts <= accounts
  BY BoundsAreNat DEF TypeInv, TypeOK
<1>1. PICK from \in {"closeAccount", "deleteWallet"}, to \in {"failed", "deleteWallet", "done"} :
        Go(r, from, to)
  BY DEF CloseAccount, DeleteWallet
<1>2. UNCHANGED <<accounts, keys, dids, identities, profiles, issuers, faults>>
  BY DEF CloseAccount, DeleteWallet, docs
<1>3. /\ call[r] \in CallData /\ StepFits(call[r]) /\ AccountFits(call[r]) /\ call[r].step = from
  BY <1>1, AtStep DEF Go
<1>4. call[r].kind = "delete" /\ call[r].account \in keys
  BY <1>3 DEF StepFits
<1>5. closed' \subseteq 1..accounts /\ wallets' \subseteq wallets
  BY <1>0, <1>4 DEF CloseAccount, DeleteWallet, TypeOK, docs
<1>6. /\ call' \in [Calls -> CallData \cup {NoCall}] /\ call'[r].step = to
      /\ call'[r].kind = call[r].kind /\ call'[r].account = call[r].account
      /\ \A p \in Calls \ {r} : call'[p] = call[p]
  BY <1>0, <1>1, GoMoves DEF Steps
<1>7. StepFits(call[r])'
  BY <1>2, <1>4, <1>6 DEF StepFits, Profiling
<1>8. AccountFits(call[r])'
  BY <1>2, <1>4, <1>6 DEF AccountFits, Creators
<1>9. QED
  BY <1>0, <1>2, <1>5, <1>6, <1>7, <1>8, TypeMoves DEF TypeInv, TypeOK

\* A request that is cut off keeps what it holds.
LEMMA FaultsKeep ==
  ASSUME TypeInv, (\E r \in Calls : CallFails(r)) \/ Crash
  PROVE  TypeInv'
<1> DEFINE cut(p) == [call[p] EXCEPT !.step = "failed"]
<1>0. TypeOK
  BY DEF TypeInv
<1>1. faults < MaxFaults /\ faults' = faults + 1 /\ UNCHANGED <<accounts, closed, dids, docs>>
  BY DEF CallFails, Crash
<1>2. faults' \in 0..MaxFaults
  BY <1>0, <1>1, BoundsAreNat DEF TypeOK
<1>3. ASSUME NEW p \in Calls, p \in Running
      PROVE  cut(p) \in CallData /\ StepFits(cut(p)) /\ AccountFits(cut(p))
  <2>1. call[p] \in CallData /\ AccountFits(call[p])
    BY <1>0, <1>3 DEF TypeInv, TypeOK, Running
  <2>2. /\ cut(p) \in CallData /\ cut(p).step = "failed" /\ cut(p).kind = call[p].kind
        /\ cut(p).account = call[p].account
    BY <2>1, Stepped DEF Steps
  <2> HIDE DEF cut
  <2>3. StepFits(cut(p))
    BY <2>2 DEF StepFits, Profiling
  <2>4. AccountFits(cut(p))
    BY <2>1, <2>2 DEF AccountFits
  <2>5. QED
    BY <2>2, <2>3, <2>4
<1>4. /\ \A p \in Calls : call'[p] = call[p] \/ (p \in Running /\ call'[p] = cut(p))
      /\ DOMAIN call' = Calls /\ call' = [p \in Calls |-> call'[p]]
  <2>1. CASE Crash
    BY <2>1 DEF Crash
  <2>2. ASSUME NEW r \in Calls, CallFails(r)
        PROVE  /\ \A p \in Calls : call'[p] = call[p] \/ (p \in Running /\ call'[p] = cut(p))
               /\ DOMAIN call' = Calls /\ call' = [p \in Calls |-> call'[p]]
    BY <1>0, <2>2 DEF CallFails, TypeOK
  <2>3. QED
    BY <2>1, <2>2
<1> HIDE DEF cut
<1>5. \A p \in Calls : call'[p] \in CallData \cup {NoCall}
  BY <1>0, <1>3, <1>4 DEF TypeOK
<1>6. TypeOK'
  BY <1>0, <1>1, <1>2, <1>4, <1>5 DEF TypeOK, docs
<1>7. ASSUME NEW p \in Calls, call'[p] # NoCall
      PROVE  StepFits(call'[p]) /\ AccountFits(call'[p])
  BY <1>3, <1>4, <1>7 DEF TypeInv
<1>8. \A p \in Calls : call'[p] # NoCall => (StepFits(call[p]) /\ AccountFits(call[p]))'
  BY <1>1, <1>7 DEF StepFits, AccountFits, docs
<1>9. QED
  BY <1>1, <1>6, <1>8 DEF TypeInv, docs

LEMMA TypeInvStep == TypeInv /\ [Next]_vars => TypeInv'
<1> SUFFICES ASSUME TypeInv, [Next]_vars PROVE TypeInv'
  OBVIOUS
<1>1. ASSUME NEW r \in Calls, Step(r) PROVE TypeInv'
  BY <1>1, WalletStepsKeep, DidStepsKeep, ProfileReadsKeep, SaveProfileKeeps, DeleteStepsKeep
     DEF Step
<1>2. CASE UNCHANGED vars
  BY <1>2 DEF vars, docs, TypeInv, TypeOK, StepFits, AccountFits
<1>3. QED
  BY <1>1, <1>2, BeginKeeps, FaultsKeep DEF Next

LEMMA TypeInvariant == Spec => []TypeInv
BY TypeInvInit, TypeInvStep, PTL DEF Spec

\* Documents and requests keep their shapes, and name accounts that exist.
THEOREM TypesKeep == Spec => []TypeOK
<1>1. TypeInv => TypeOK
  BY DEF TypeInv
<1>2. QED
  BY <1>1, TypeInvariant, PTL

--------------------------------------------------------------------------------
(* Profiles: what a profile will be made of is in the documents when it is read, and *)
(* no step removes a key or an identity.                                             *)

HasAgentDid == {"findOwner", "findProfile", "topics", "saveProfile"}
HasOwnerDid == {"findProfile", "topics", "saveProfile"}
AgentKnown(q) == [owner |-> q.account, did |-> q.did] \in identities
OwnerKnown(q) ==
  q.ownerDid # NoDid =>
    /\ q.account \in keys
    /\ \E u \in Users : [owner |-> u, did |-> q.ownerDid] \in identities
ProfileFits(q) ==
  /\ q.step \in HasAgentDid => AgentKnown(q)
  /\ q.step \in HasOwnerDid => OwnerKnown(q)

ProfileInv ==
  /\ \A p \in profiles : p.account \in keys
  /\ ProfileIsOfItsAgent
  /\ \A r \in Calls : call[r] # NoCall => ProfileFits(call[r])

LEMMA DocumentsGrow == Next => keys \subseteq keys' /\ identities \subseteq identities'
<1> SUFFICES ASSUME Next PROVE keys \subseteq keys' /\ identities \subseteq identities'
  OBVIOUS
<1> USE DEF docs
<1>1. ASSUME NEW r \in Calls, Begin(r) PROVE UNCHANGED docs
  BY <1>1 DEF Begin, StartWallet, StartDid, StartProfile, StartIssuer, StartDelete
<1>2. ASSUME NEW r \in Calls, SaveKey(r) \/ SaveIdentity(r)
      PROVE  keys \subseteq keys' /\ identities \subseteq identities'
  BY <1>2 DEF SaveKey, SaveIdentity
<1>3. ASSUME NEW r \in Calls,
             CreateAccount(r) \/ SaveWallet(r) \/ CheckWallet(r) \/ FindIdentity(r)
             \/ RegisterDid(r) \/ SaveIssuer(r)
      PROVE  UNCHANGED <<keys, identities>>
  BY <1>3 DEF CreateAccount, SaveWallet, CheckWallet, FindIdentity, RegisterDid, SaveIssuer
<1>4. ASSUME NEW r \in Calls,
             FindAgent(r) \/ FindOwner(r) \/ FindProfile(r) \/ CreateTopics(r)
             \/ SaveProfile(r) \/ Publish(r) \/ CloseAccount(r) \/ DeleteWallet(r)
      PROVE  UNCHANGED <<keys, identities>>
  BY <1>4 DEF FindAgent, FindOwner, FindProfile, CreateTopics, SaveProfile, Publish,
              CloseAccount, DeleteWallet
<1>5. ASSUME (\E r \in Calls : CallFails(r)) \/ Crash PROVE UNCHANGED docs
  BY <1>5 DEF CallFails, Crash
<1>6. ASSUME NEW r \in Calls, Begin(r) \/ Step(r)
      PROVE  keys \subseteq keys' /\ identities \subseteq identities'
  BY <1>1, <1>2, <1>3, <1>4, <1>6 DEF Step
<1>7. QED
  BY <1>5, <1>6 DEF Next

\* A step of a request keeps the profiles if the new one, and what the request holds, are
\* in the documents.
LEMMA ProfileMoves ==
  ASSUME ProfileInv, keys \subseteq keys', identities \subseteq identities', NEW r \in Calls,
         \A p \in Calls \ {r} : call'[p] = call[p],
         call'[r] # NoCall => ProfileFits(call[r])',
         \A p \in profiles' \ profiles :
           /\ p.account \in keys' /\ [owner |-> p.account, did |-> p.agentDid] \in identities'
           /\ \E u \in Users : [owner |-> u, did |-> p.ownerDid] \in identities'
  PROVE  ProfileInv'
<1>1. ASSUME NEW p \in Calls, call'[p] # NoCall PROVE ProfileFits(call[p])'
  <2>1. CASE p = r
    BY <1>1, <2>1
  <2>2. CASE p # r
    <3>1. call'[p] = call[p] /\ ProfileFits(call[p])
      BY <1>1, <2>2 DEF ProfileInv
    <3>2. QED
      BY <3>1 DEF ProfileFits, AgentKnown, OwnerKnown
  <2>3. QED
    BY <2>1, <2>2
<1>2. (\A p \in profiles : p.account \in keys)'
  BY DEF ProfileInv
<1>3. ProfileIsOfItsAgent'
  BY DEF ProfileInv, ProfileIsOfItsAgent
<1>4. QED
  BY <1>1, <1>2, <1>3 DEF ProfileInv

\* Where a request goes when it does not make a profile.
LEMMA ElsewhereKeeps ==
  ASSUME TypeInv, ProfileInv, Next, NEW r \in Calls, NEW q,
         call' = [call EXCEPT ![r] = q], q.step \notin HasAgentDid, profiles' = profiles
  PROVE  ProfileInv'
<1>1. call'[r] = q /\ \A p \in Calls \ {r} : call'[p] = call[p]
  BY DEF TypeInv, TypeOK
<1>2. ProfileFits(call[r])'
  BY <1>1 DEF ProfileFits, HasAgentDid, HasOwnerDid
<1>3. QED
  BY <1>1, <1>2, DocumentsGrow, ProfileMoves

LEMMA OtherStepsKeepProfiles ==
  ASSUME TypeInv, ProfileInv, Next, NEW r \in Calls,
         \/ Begin(r)
         \/ CreateAccount(r) \/ SaveKey(r) \/ SaveWallet(r)
         \/ CheckWallet(r) \/ FindIdentity(r) \/ RegisterDid(r) \/ SaveIdentity(r)
         \/ SaveIssuer(r) \/ Publish(r) \/ CloseAccount(r) \/ DeleteWallet(r)
  PROVE  ProfileInv'
<1>1. CASE Begin(r)
  <2>1. PICK kind, u, account, subject, step :
          /\ step \notin HasAgentDid /\ Start(r, kind, u, account, subject, step)
          /\ profiles' = profiles
    BY <1>1 DEF Begin, StartWallet, StartDid, StartProfile, StartIssuer, StartDelete,
                HasAgentDid, docs
  <2> DEFINE q == [kind |-> kind, user |-> u, step |-> step, account |-> account,
                   subject |-> subject, did |-> NoDid, ownerDid |-> NoDid]
  <2>2. call' = [call EXCEPT ![r] = q] /\ q.step = step
    BY <2>1 DEF Start
  <2> HIDE DEF q
  <2>3. QED
    BY <2>1, <2>2, ElsewhereKeeps
<1>2. CASE CreateAccount(r)
  <2> DEFINE subject == IF WalletType(r) = "agent" THEN accounts + 1 ELSE call[r].subject
             q == [call[r] EXCEPT !.step = "saveKey", !.account = accounts + 1,
                                  !.subject = subject]
  <2>1. call' = [call EXCEPT ![r] = q] /\ profiles' = profiles /\ call[r] \in CallData
    BY <1>2, AtStep DEF CreateAccount, docs
  <2>2. q.step = "saveKey"
    BY <2>1 DEF CallData
  <2> HIDE DEF q
  <2>3. QED
    BY <2>1, <2>2, ElsewhereKeeps DEF HasAgentDid
<1>3. CASE RegisterDid(r)
  <2> DEFINE q == [call[r] EXCEPT !.step = AfterRegister(r), !.did = dids + 1]
  <2>1. call' = [call EXCEPT ![r] = q] /\ profiles' = profiles /\ call[r] \in CallData
    BY <1>3, AtStep DEF RegisterDid, docs
  <2>2. q.step \in {"saveIssuer", "saveIdentity"}
    BY <2>1 DEF CallData, AfterRegister
  <2> HIDE DEF q
  <2>3. QED
    BY <2>1, <2>2, ElsewhereKeeps DEF HasAgentDid
<1>4. CASE \/ SaveKey(r) \/ SaveWallet(r) \/ CheckWallet(r) \/ FindIdentity(r)
           \/ SaveIdentity(r) \/ SaveIssuer(r) \/ Publish(r) \/ CloseAccount(r)
           \/ DeleteWallet(r)
  <2>1. PICK from, to : Go(r, from, to) /\ to \notin HasAgentDid /\ to \in Steps
    BY <1>4 DEF SaveKey, SaveWallet, CheckWallet, FindIdentity, SaveIdentity, SaveIssuer,
                Publish, CloseAccount, DeleteWallet, HasAgentDid, Steps
  <2>2. profiles' = profiles
    BY <1>4 DEF SaveKey, SaveWallet, CheckWallet, FindIdentity, SaveIdentity, SaveIssuer,
                Publish, CloseAccount, DeleteWallet, docs
  <2>3. call' = [call EXCEPT ![r] = [call[r] EXCEPT !.step = to]] /\ call[r] \in CallData
    BY <2>1, GoMoves DEF Go, TypeInv
  <2>4. [call[r] EXCEPT !.step = to].step = to
    BY <2>3 DEF CallData
  <2>5. QED
    BY <2>1, <2>2, <2>3, <2>4, ElsewhereKeeps
<1>5. QED
  BY <1>1, <1>2, <1>3, <1>4

LEMMA FoundAreKnown ==
  ASSUME TypeInv, NEW owner, NEW did \in FoundDids(owner), did # NoDid
  PROVE  [owner |-> owner, did |-> did] \in identities
<1>1. PICK i \in identities : i.owner = owner /\ i.did = did
  BY DEF FoundDids, IdentitiesOf
<1>2. i \in Identities
  BY DEF TypeInv, TypeOK
<1>3. i = [owner |-> owner, did |-> did]
  BY <1>1, <1>2 DEF Identities
<1>4. QED
  BY <1>1, <1>3

\* The steps that make a profile.
LEMMA ProfileStepsKeepProfiles ==
  ASSUME TypeInv, ProfileInv, Next, NEW r \in Calls,
         FindAgent(r) \/ FindOwner(r) \/ FindProfile(r) \/ CreateTopics(r) \/ SaveProfile(r)
  PROVE  ProfileInv'
<1>0. keys \subseteq keys' /\ identities \subseteq identities'
  BY DocumentsGrow
<1>1. CASE FindAgent(r)
  <2>1. PICK did \in FoundDids(call[r].account) :
          call' = [call EXCEPT ![r].step = IF did = NoDid THEN "failed" ELSE "findOwner",
                               ![r].did = did]
    BY <1>1 DEF FindAgent
  <2>2. At(r, "findAgent") /\ profiles' = profiles
    BY <1>1 DEF FindAgent, docs
  <2> DEFINE q == [call[r] EXCEPT !.step = IF did = NoDid THEN "failed" ELSE "findOwner",
                                  !.did = did]
  <2>3. call[r] \in CallData
    BY <2>2, AtStep
  <2>4. /\ q.step \in {"failed", "findOwner"} /\ (q.step = "findOwner" => did # NoDid)
        /\ q.did = did /\ q.account = call[r].account
    BY <2>3 DEF CallData
  <2>5. call' = [call EXCEPT ![r] = q]
    BY <2>1
  <2> HIDE DEF q
  <2>6. call'[r] = q /\ \A p \in Calls \ {r} : call'[p] = call[p]
    BY <2>5 DEF TypeInv, TypeOK
  <2>7. q.step = "findOwner" => [owner |-> q.account, did |-> q.did] \in identities
    BY <2>1, <2>4, FoundAreKnown
  <2>8. ProfileFits(call[r])'
    BY <1>0, <2>4, <2>6, <2>7 DEF ProfileFits, AgentKnown, HasAgentDid, HasOwnerDid
  <2>9. QED
    BY <1>0, <2>2, <2>6, <2>8, ProfileMoves
<1>2. CASE FindOwner(r)
  <2> DEFINE owners == IF call[r].kind = "newAgent" THEN {call[r].user}
                       ELSE {w.owner : w \in {v \in wallets : v.account = call[r].account}}
             found == IF owners = {} THEN {NoDid} ELSE UNION {FoundDids(u) : u \in owners}
  <2>1. PICK did \in found :
          call' = [call EXCEPT ![r].step = "findProfile", ![r].ownerDid = did]
    BY <1>2 DEF FindOwner
  <2>2. At(r, "findOwner") /\ profiles' = profiles
    BY <1>2 DEF FindOwner, docs
  <2>3. /\ call[r] \in CallData /\ StepFits(call[r]) /\ AccountFits(call[r])
        /\ call[r] # NoCall /\ call[r].step = "findOwner"
    BY <2>2, AtStep
  <2>4. owners \subseteq Users
    BY <2>3 DEF TypeInv, TypeOK, Wallets, CallData
  <2>5. owners # {} => call[r].account \in keys
    <3>1. CASE call[r].kind = "newAgent"
      BY <2>3, <3>1 DEF AccountFits, Creators
    <3>2. CASE call[r].kind # "newAgent"
      BY <3>2 DEF TypeInv
    <3>3. QED
      BY <3>1, <3>2
  <2>6. did # NoDid => \E u \in owners : did \in FoundDids(u)
    BY <2>1
  <2> HIDE DEF owners, found
  <2>7. did # NoDid => /\ call[r].account \in keys
                       /\ \E u \in Users : [owner |-> u, did |-> did] \in identities
    BY <2>4, <2>5, <2>6, FoundAreKnown
  <2> DEFINE q == [call[r] EXCEPT !.step = "findProfile", !.ownerDid = did]
  <2>8. /\ q.step = "findProfile" /\ q.ownerDid = did /\ q.did = call[r].did
        /\ q.account = call[r].account
    BY <2>3 DEF CallData
  <2>9. call' = [call EXCEPT ![r] = q]
    BY <2>1
  <2> HIDE DEF q
  <2>10. call'[r] = q /\ \A p \in Calls \ {r} : call'[p] = call[p]
    BY <2>9 DEF TypeInv, TypeOK
  <2>11. AgentKnown(call[r])
    BY <2>3 DEF ProfileInv, ProfileFits, HasAgentDid
  <2>12. AgentKnown(call[r])'
    BY <1>0, <2>8, <2>10, <2>11 DEF AgentKnown
  <2>13. OwnerKnown(call[r])'
    BY <1>0, <2>7, <2>8, <2>10 DEF OwnerKnown
  <2>14. QED
    BY <1>0, <2>2, <2>10, <2>12, <2>13, ProfileMoves DEF ProfileFits
<1>3. CASE FindProfile(r) \/ CreateTopics(r) \/ SaveProfile(r)
  <2>1. PICK from \in HasOwnerDid, to \in {"failed", "topics", "saveProfile", "publish"} :
          /\ Go(r, from, to) /\ (SaveProfile(r) => from = "saveProfile")
          /\ profiles' # profiles => SaveProfile(r)
    BY <1>3 DEF FindProfile, CreateTopics, SaveProfile, HasOwnerDid, docs
  <2>2. /\ call[r].step = from /\ call'[r].step = to /\ call[r] \in CallData
        /\ call'[r].account = call[r].account /\ call'[r].did = call[r].did
        /\ call'[r].ownerDid = call[r].ownerDid /\ \A p \in Calls \ {r} : call'[p] = call[p]
    BY <2>1, GoMoves DEF Steps, TypeInv
  <2>3. call[r] # NoCall
    BY <2>1 DEF Go, At, Running
  <2>4. AgentKnown(call[r]) /\ OwnerKnown(call[r])
    BY <2>2, <2>3 DEF ProfileInv, ProfileFits, HasAgentDid, HasOwnerDid
  <2>5. ProfileFits(call[r])'
    BY <1>0, <2>2, <2>4 DEF ProfileFits, AgentKnown, OwnerKnown
  <2>6. ASSUME NEW p \in profiles' \ profiles
        PROVE  /\ p.account \in keys' /\ [owner |-> p.account, did |-> p.agentDid] \in identities'
               /\ \E u \in Users : [owner |-> u, did |-> p.ownerDid] \in identities'
    <3>1. /\ call[r].ownerDid # NoDid
          /\ p = [account |-> call[r].account, agentDid |-> call[r].did,
                  ownerDid |-> call[r].ownerDid]
      BY <2>1, <2>6 DEF SaveProfile
    <3>2. p.account = call[r].account /\ p.agentDid = call[r].did /\ p.ownerDid = call[r].ownerDid
      BY <3>1
    <3>3. QED
      BY <1>0, <2>4, <3>1, <3>2 DEF AgentKnown, OwnerKnown
  <2>7. QED
    BY <1>0, <2>2, <2>5, <2>6, ProfileMoves
<1>4. QED
  BY <1>1, <1>2, <1>3

LEMMA FaultsKeepProfiles ==
  ASSUME TypeInv, ProfileInv, (\E r \in Calls : CallFails(r)) \/ Crash
  PROVE  ProfileInv'
<1>1. UNCHANGED <<keys, identities, profiles>>
  BY DEF CallFails, Crash, docs
<1>2. ASSUME NEW p \in Calls PROVE call'[p] = call[p] \/ call'[p].step = "failed"
  <2>1. call[p] = NoCall \/ call[p] \in CallData
    BY DEF TypeInv, TypeOK
  <2>2. p \in Running => [call[p] EXCEPT !.step = "failed"].step = "failed"
    BY <2>1 DEF Running, CallData
  <2>3. QED
    BY <2>2 DEF CallFails, Crash, TypeInv, TypeOK
<1>3. \A p \in Calls : call'[p] # NoCall => ProfileFits(call[p])'
  BY <1>1, <1>2 DEF ProfileInv, ProfileFits, AgentKnown, OwnerKnown, HasAgentDid, HasOwnerDid
<1>4. QED
  BY <1>1, <1>3 DEF ProfileInv, ProfileIsOfItsAgent

LEMMA ProfileInvariant == Spec => []ProfileInv
<1>1. Init => ProfileInv
  BY DEF Init, ProfileInv, ProfileIsOfItsAgent, NoCall
<1>2. TypeInv /\ ProfileInv /\ [Next]_vars => ProfileInv'
  <2> SUFFICES ASSUME TypeInv, ProfileInv, [Next]_vars PROVE ProfileInv'
    OBVIOUS
  <2>1. CASE UNCHANGED vars
    BY <2>1 DEF vars, docs, ProfileInv, ProfileIsOfItsAgent, ProfileFits, AgentKnown, OwnerKnown
  <2>2. ASSUME NEW r \in Calls, Begin(r) \/ Step(r), Next PROVE ProfileInv'
    BY <2>2, OtherStepsKeepProfiles, ProfileStepsKeepProfiles DEF Step
  <2>3. CASE Next
    BY <2>2, <2>3, FaultsKeepProfiles DEF Next
  <2>4. QED
    BY <2>1, <2>3
<1>3. QED
  BY <1>1, <1>2, TypeInvariant, PTL DEF Spec

\* Every account that a wallet or a profile names can be signed for.
THEOREM KeysAreKept == Spec => []KeyIsNeverLost
<1>1. TypeInv /\ ProfileInv => KeyIsNeverLost
  BY DEF TypeInv, ProfileInv, KeyIsNeverLost
<1>2. QED
  BY <1>1, TypeInvariant, ProfileInvariant, PTL

\* A profile has the DID of its own account, and the DID of a user as its owner's.
THEOREM ProfilesFit == Spec => []ProfileIsOfItsAgent
<1>1. ProfileInv => ProfileIsOfItsAgent
  BY DEF ProfileInv
<1>2. QED
  BY <1>1, ProfileInvariant, PTL

--------------------------------------------------------------------------------
(* DIDs: the one a request has registered is in no document until the request saves *)
(* it, and no other request holds it.                                                *)

Holding == {r \in Calls : call[r] # NoCall /\ call[r].step \in {"saveIdentity", "saveIssuer"}}
DidDocuments == identities \cup issuers

DidInv ==
  /\ \A i \in DidDocuments : i.did <= dids
  /\ \A r \in Holding : call[r].did <= dids /\ \A i \in DidDocuments : i.did # call[r].did
  /\ \A r, p \in Holding : call[r].did = call[p].did => r = p
  /\ DidsAreNotShared

LEMMA DidsAreNumbers ==
  ASSUME TypeInv
  PROVE  /\ dids \in Nat /\ \A i \in DidDocuments : i.did \in Nat
         /\ \A r \in Holding : call[r].did \in Nat
BY DEF TypeInv, TypeOK, DidDocuments, Identities, Issuers, Dids, Holding, StepFits

\* Nothing new is held.
LEMMA FewerHold ==
  ASSUME DidInv, UNCHANGED <<dids, identities, issuers>>,
         \A p \in Calls : call'[p] = call[p] \/ call'[p] = NoCall
                          \/ call'[p].step \notin {"saveIdentity", "saveIssuer"}
  PROVE  DidInv'
<1>1. Holding' \subseteq Holding /\ \A p \in Holding' : call'[p] = call[p]
  BY DEF Holding
<1>2. QED
  BY <1>1 DEF DidInv, DidsAreNotShared, DidDocuments

LEMMA OtherStepsKeepDids ==
  ASSUME TypeInv, DidInv, NEW r \in Calls,
         \/ Begin(r)
         \/ CreateAccount(r) \/ SaveKey(r) \/ SaveWallet(r) \/ CheckWallet(r) \/ FindIdentity(r)
         \/ FindAgent(r) \/ FindOwner(r) \/ FindProfile(r) \/ CreateTopics(r) \/ SaveProfile(r)
         \/ Publish(r) \/ CloseAccount(r) \/ DeleteWallet(r)
  PROVE  DidInv'
<1> DEFINE Elsewhere == {"saveIdentity", "saveIssuer"}
<1>1. ASSUME NEW q, call' = [call EXCEPT ![r] = q], q.step \notin Elsewhere,
             UNCHANGED <<dids, identities, issuers>>
      PROVE  DidInv'
  BY <1>1, FewerHold DEF TypeInv, TypeOK
<1>2. CASE Begin(r)
  <2>1. PICK kind, u, account, subject, step :
          /\ step \notin Elsewhere /\ Start(r, kind, u, account, subject, step)
          /\ UNCHANGED <<dids, identities, issuers>>
    BY <1>2 DEF Begin, StartWallet, StartDid, StartProfile, StartIssuer, StartDelete, docs
  <2> DEFINE q == [kind |-> kind, user |-> u, step |-> step, account |-> account,
                   subject |-> subject, did |-> NoDid, ownerDid |-> NoDid]
  <2>2. call' = [call EXCEPT ![r] = q] /\ q.step = step
    BY <2>1 DEF Start
  <2> HIDE DEF q
  <2>3. QED
    BY <1>1, <2>1, <2>2
<1>3. CASE CreateAccount(r)
  <2> DEFINE subject == IF WalletType(r) = "agent" THEN accounts + 1 ELSE call[r].subject
             q == [call[r] EXCEPT !.step = "saveKey", !.account = accounts + 1,
                                  !.subject = subject]
  <2>1. /\ call' = [call EXCEPT ![r] = q] /\ UNCHANGED <<dids, identities, issuers>>
        /\ call[r] \in CallData
    BY <1>3, AtStep DEF CreateAccount, docs
  <2>2. q.step = "saveKey"
    BY <2>1 DEF CallData
  <2> HIDE DEF q
  <2>3. QED
    BY <1>1, <2>1, <2>2
<1>4. CASE FindAgent(r)
  <2>1. PICK did : call' = [call EXCEPT ![r].step = IF did = NoDid THEN "failed" ELSE "findOwner",
                                        ![r].did = did]
    BY <1>4 DEF FindAgent
  <2>2. UNCHANGED <<dids, identities, issuers>> /\ call[r] \in CallData
    BY <1>4, AtStep DEF FindAgent, docs
  <2> DEFINE q == [call[r] EXCEPT !.step = IF did = NoDid THEN "failed" ELSE "findOwner",
                                  !.did = did]
  <2>3. call' = [call EXCEPT ![r] = q] /\ q.step \in {"failed", "findOwner"}
    BY <2>1, <2>2 DEF CallData
  <2> HIDE DEF q
  <2>4. QED
    BY <1>1, <2>2, <2>3
<1>5. CASE FindOwner(r)
  <2>1. PICK did : call' = [call EXCEPT ![r].step = "findProfile", ![r].ownerDid = did]
    BY <1>5 DEF FindOwner
  <2>2. UNCHANGED <<dids, identities, issuers>> /\ call[r] \in CallData
    BY <1>5, AtStep DEF FindOwner, docs
  <2> DEFINE q == [call[r] EXCEPT !.step = "findProfile", !.ownerDid = did]
  <2>3. call' = [call EXCEPT ![r] = q] /\ q.step = "findProfile"
    BY <2>1, <2>2 DEF CallData
  <2> HIDE DEF q
  <2>4. QED
    BY <1>1, <2>2, <2>3
<1>6. CASE \/ SaveKey(r) \/ SaveWallet(r) \/ CheckWallet(r) \/ FindIdentity(r) \/ FindProfile(r)
           \/ CreateTopics(r) \/ SaveProfile(r) \/ Publish(r) \/ CloseAccount(r)
           \/ DeleteWallet(r)
  <2>1. PICK from, to : Go(r, from, to) /\ to \notin Elsewhere /\ to \in Steps
    BY <1>6 DEF SaveKey, SaveWallet, CheckWallet, FindIdentity, FindProfile, CreateTopics,
                SaveProfile, Publish, CloseAccount, DeleteWallet, Steps
  <2>2. UNCHANGED <<dids, identities, issuers>>
    BY <1>6 DEF SaveKey, SaveWallet, CheckWallet, FindIdentity, FindProfile, CreateTopics,
                SaveProfile, Publish, CloseAccount, DeleteWallet, docs
  <2>3. call' = [call EXCEPT ![r] = [call[r] EXCEPT !.step = to]] /\ call[r] \in CallData
    BY <2>1, GoMoves DEF Go, TypeInv
  <2>4. [call[r] EXCEPT !.step = to].step = to
    BY <2>3 DEF CallData
  <2>5. QED
    BY <1>1, <2>1, <2>2, <2>3, <2>4
<1>7. QED
  BY <1>2, <1>3, <1>4, <1>5, <1>6

LEMMA RegisterKeepsDids ==
  ASSUME TypeInv, DidInv, NEW r \in Calls, RegisterDid(r)
  PROVE  DidInv'
<1> DEFINE q == [call[r] EXCEPT !.step = AfterRegister(r), !.did = dids + 1]
<1>1. /\ call' = [call EXCEPT ![r] = q] /\ dids' = dids + 1
      /\ UNCHANGED <<identities, issuers>> /\ call[r] \in CallData
  BY AtStep DEF RegisterDid, docs
<1>2. q.did = dids + 1
  BY <1>1 DEF CallData
<1> HIDE DEF q
<1>3. call'[r] = q /\ \A p \in Calls \ {r} : call'[p] = call[p]
  BY <1>1 DEF TypeInv, TypeOK
<1>4. \A i \in DidDocuments : i.did <= dids /\ i.did # dids + 1
  BY DidsAreNumbers DEF DidInv
<1>5. \A p \in Holding : call[p].did <= dids /\ call[p].did # dids + 1
  BY DidsAreNumbers DEF DidInv
<1>6. Holding' \subseteq Holding \cup {r}
  BY <1>3 DEF Holding
<1>7. DidDocuments' = DidDocuments
  BY <1>1 DEF DidDocuments
<1>8. (\A i \in DidDocuments : i.did <= dids)'
  BY <1>1, <1>4, <1>7, DidsAreNumbers
<1>9. \A p \in Holding' : call'[p].did <= dids' /\ \A i \in DidDocuments : i.did # call'[p].did
  <2>1. ASSUME NEW p \in Holding', p # r
        PROVE  call'[p].did <= dids' /\ \A i \in DidDocuments : i.did # call'[p].did
    <3>1. p \in Holding /\ call'[p] = call[p]
      BY <1>3, <1>6, <2>1 DEF Holding
    <3>2. QED
      BY <1>1, <1>5, <3>1, DidsAreNumbers DEF DidInv
  <2>2. call'[r].did <= dids' /\ \A i \in DidDocuments : i.did # call'[r].did
    BY <1>1, <1>2, <1>3, <1>4, DidsAreNumbers
  <2>3. QED
    BY <2>1, <2>2
<1>10. \A p1, p2 \in Holding' : call'[p1].did = call'[p2].did => p1 = p2
  <2>1. \A p \in Holding' \ {r} : p \in Holding /\ call'[p] = call[p]
    BY <1>3, <1>6 DEF Holding
  <2>2. QED
    BY <1>2, <1>3, <1>5, <2>1 DEF DidInv
<1>11. DidsAreNotShared'
  BY <1>1 DEF DidInv, DidsAreNotShared
<1>12. QED
  BY <1>7, <1>8, <1>9, <1>10, <1>11 DEF DidInv

LEMMA SavesKeepDids ==
  ASSUME TypeInv, DidInv, NEW r \in Calls, SaveIdentity(r) \/ SaveIssuer(r)
  PROVE  DidInv'
<1>1. PICK from \in {"saveIdentity", "saveIssuer"}, to \in {"findAgent", "done", "failed"} :
        Go(r, from, to)
  BY DEF SaveIdentity, SaveIssuer
<1>2. /\ call[r].step = from /\ call'[r].step = to
      /\ \A p \in Calls \ {r} : call'[p] = call[p]
  BY <1>1, GoMoves DEF Steps, TypeInv
<1>3. r \in Holding
  BY <1>1, <1>2 DEF Holding, Go, At, Running
<1>4. Holding' \subseteq Holding \ {r}
  BY <1>2 DEF Holding
<1>5. dids' = dids
  BY DEF SaveIdentity, SaveIssuer
<1>6. /\ call[r].did <= dids /\ \A i \in DidDocuments : i.did # call[r].did
      /\ \A p \in Holding \ {r} : call[p].did # call[r].did
  BY <1>3 DEF DidInv
<1>7. PICK new :
        /\ new.did = call[r].did
        /\ \/ identities' = identities \cup {new} /\ issuers' = issuers
           \/ issuers' \subseteq issuers \cup {new} /\ identities' = identities
  <2>1. CASE SaveIdentity(r)
    BY <2>1 DEF SaveIdentity
  <2>2. CASE SaveIssuer(r)
    BY <2>2 DEF SaveIssuer
  <2>3. QED
    BY <2>1, <2>2
<1>8. DidDocuments' \subseteq DidDocuments \cup {new}
  BY <1>7 DEF DidDocuments
<1>9. (\A i \in DidDocuments : i.did <= dids)'
  BY <1>5, <1>6, <1>7, <1>8 DEF DidInv
<1>10. \A p \in Holding' : call'[p] = call[p] /\ p \in Holding /\ p # r
  BY <1>2, <1>4 DEF Holding
<1>11. (\A p \in Holding : call[p].did <= dids /\ \A i \in DidDocuments : i.did # call[p].did)'
  BY <1>5, <1>6, <1>7, <1>8, <1>10 DEF DidInv
<1>12. (\A p1, p2 \in Holding : call[p1].did = call[p2].did => p1 = p2)'
  BY <1>10 DEF DidInv
<1>13. DidsAreNotShared'
  BY <1>6, <1>7 DEF DidInv, DidsAreNotShared, DidDocuments
<1>14. QED
  BY <1>9, <1>11, <1>12, <1>13 DEF DidInv

LEMMA FaultsKeepDids ==
  ASSUME TypeInv, DidInv, (\E r \in Calls : CallFails(r)) \/ Crash
  PROVE  DidInv'
<1>1. ASSUME NEW p \in Calls PROVE call'[p] = call[p] \/ call'[p].step = "failed"
  <2>1. call[p] = NoCall \/ call[p] \in CallData
    BY DEF TypeInv, TypeOK
  <2>2. p \in Running => [call[p] EXCEPT !.step = "failed"].step = "failed"
    BY <2>1 DEF Running, CallData
  <2>3. QED
    BY <2>2 DEF CallFails, Crash, TypeInv, TypeOK
<1>2. UNCHANGED <<dids, identities, issuers>>
  BY DEF CallFails, Crash, docs
<1>3. QED
  BY <1>1, <1>2, FewerHold

\* Every identity and every issuer has a DID of its own.
THEOREM DidsStayApart == Spec => []DidsAreNotShared
<1>1. Init => DidInv
  BY DEF Init, DidInv, DidsAreNotShared, Holding, DidDocuments
<1>2. TypeInv /\ DidInv /\ [Next]_vars => DidInv'
  <2> SUFFICES ASSUME TypeInv, DidInv, [Next]_vars PROVE DidInv'
    OBVIOUS
  <2>1. CASE UNCHANGED vars
    BY <2>1, FewerHold DEF vars, docs
  <2>2. ASSUME NEW r \in Calls, Begin(r) \/ Step(r) PROVE DidInv'
    BY <2>2, OtherStepsKeepDids, RegisterKeepsDids, SavesKeepDids DEF Step
  <2>3. QED
    BY <2>1, <2>2, FaultsKeepDids DEF Next
<1>3. DidInv => DidsAreNotShared
  BY DEF DidInv
<1>4. QED
  BY <1>1, <1>2, <1>3, TypeInvariant, PTL DEF Spec

--------------------------------------------------------------------------------
(* Wallets and the ledger: every account has a request that created it, until its   *)
(* wallet is saved nobody else knows it, and afterwards it has a wallet or is closed. *)

Creating == {r \in Calls : call[r] # NoCall /\ call[r].kind \in Creators}
Deleting == {r \in Calls : call[r] # NoCall /\ call[r].kind = "delete"}
HasWallet(a) == \E w \in wallets : w.account = a
Unseen(a) == a \notin closed /\ ~HasWallet(a) /\ \A p \in Deleting : call[p].account # a
Early == {"create", "saveKey", "saveWallet"}
Past == Steps \ (Early \cup {"failed", "closeAccount", "deleteWallet"})

CreatorFits(q) ==
  /\ q.step = "create" => q.account = NoAccount
  /\ q.step \in {"saveKey", "saveWallet"} => Unseen(q.account)
  /\ q.step \in Past => q.account \in closed \/ HasWallet(q.account)

WalletInv ==
  /\ \A a \in 1..accounts : \E r \in Creating : call[r].account = a
  /\ \A r, p \in Creating : call[r].account = call[p].account /\ call[r].account # NoAccount => r = p
  /\ \A r \in Creating : CreatorFits(call[r])
  /\ \A r \in Deleting : call[r].step = "deleteWallet" => call[r].account \in closed
  /\ ClosedWalletsGo

\* Steps that change neither the accounts nor the wallets.
LEMMA QuietKeeps ==
  ASSUME TypeInv, WalletInv, UNCHANGED <<accounts, closed, wallets>>, faults' \in Nat,
         faults <= faults',
         \A p \in Calls :
           \/ call'[p] = call[p]
           \/ /\ call[p] # NoCall /\ call'[p] # NoCall
              /\ call'[p].kind = call[p].kind /\ call'[p].account = call[p].account
              /\ \/ call'[p].step = "failed" /\ (call[p].step = "deleteWallet" => faults' > 0)
                 \/ call[p].step = "saveKey" /\ call'[p].step = "saveWallet"
                 \/ call[p].step \in Past /\ call'[p].step \in Past
  PROVE  WalletInv'
<1>1. Creating' = Creating /\ Deleting' = Deleting
  BY DEF Creating, Deleting
<1>2. \A p \in Calls : call[p] # NoCall => call'[p].account = call[p].account
  OBVIOUS
<1>3. \A a : HasWallet(a)' = HasWallet(a)
  BY DEF HasWallet
<1>4. \A a : Unseen(a)' = Unseen(a)
  BY <1>1, <1>2, <1>3 DEF Unseen, Deleting
<1>5. ASSUME NEW r \in Creating PROVE CreatorFits(call[r])'
  <2>1. r \in Calls /\ call[r] # NoCall /\ CreatorFits(call[r])
    BY DEF WalletInv, Creating
  <2>2. "failed" \notin Past /\ "saveKey" \notin Past /\ "saveWallet" \notin Past /\ "create" \notin Past
    BY DEF Past, Early
  <2>3. CASE call'[r] = call[r]
    BY <1>3, <1>4, <2>1, <2>3 DEF CreatorFits
  <2>4. CASE call'[r] # call[r]
    BY <1>3, <1>4, <2>1, <2>2, <2>4 DEF CreatorFits
  <2>5. QED
    BY <2>3, <2>4
<1>6. ASSUME NEW r \in Deleting, call'[r].step = "deleteWallet" PROVE call'[r].account \in closed'
  <2>1. r \in Calls /\ call[r] # NoCall /\ "deleteWallet" \notin Past
    BY DEF Deleting, Past
  <2>2. call[r].step = "deleteWallet"
    BY <1>6, <2>1
  <2>3. QED
    BY <2>1, <2>2 DEF WalletInv
<1>7. ClosedWalletsGo'
  <2>1. SUFFICES ASSUME NEW w \in wallets, w.account \in closed
                 PROVE  \E r \in Calls :
                          /\ call'[r] # NoCall /\ call'[r].kind = "delete"
                          /\ call'[r].account = w.account
                          /\ At(r, "deleteWallet")' \/ (call'[r].step = "failed" /\ faults' > 0)
    BY DEF ClosedWalletsGo
  <2>2. PICK r \in Calls :
          /\ call[r] # NoCall /\ call[r].kind = "delete" /\ call[r].account = w.account
          /\ At(r, "deleteWallet") \/ (call[r].step = "failed" /\ faults > 0)
    BY <2>1 DEF WalletInv, ClosedWalletsGo
  <2>3. "failed" \notin Past /\ "deleteWallet" \notin Past
    BY DEF Past
  <2>4. faults > 0 => faults' > 0
    BY DEF TypeInv, TypeOK
  <2>5. /\ call'[r] # NoCall /\ call'[r].kind = "delete" /\ call'[r].account = w.account
        /\ \/ call'[r].step = "deleteWallet"
           \/ call'[r].step = "failed" /\ faults' > 0
    BY <2>2, <2>3, <2>4 DEF At
  <2>6. call'[r].step = "deleteWallet" => At(r, "deleteWallet")'
    BY <2>5 DEF At, Running
  <2>7. QED
    BY <2>5, <2>6
<1>8. (\A a \in 1..accounts : \E r \in Creating : call[r].account = a)'
  BY <1>1, <1>2 DEF WalletInv, Creating
<1>9. (\A r, p \in Creating : call[r].account = call[p].account /\ call[r].account # NoAccount => r = p)'
  BY <1>1, <1>2 DEF WalletInv, Creating
<1>10. QED
  BY <1>1, <1>5, <1>6, <1>7, <1>8, <1>9 DEF WalletInv

LEMMA QuietStepsKeepWallets ==
  ASSUME TypeInv, WalletInv, NEW r \in Calls,
         \/ SaveKey(r) \/ CheckWallet(r) \/ FindIdentity(r) \/ RegisterDid(r) \/ SaveIdentity(r)
         \/ SaveIssuer(r) \/ FindAgent(r) \/ FindOwner(r) \/ FindProfile(r) \/ CreateTopics(r)
         \/ SaveProfile(r) \/ Publish(r)
  PROVE  WalletInv'
<1>0. faults \in Nat /\ faults <= faults
  BY BoundsAreNat DEF TypeInv, TypeOK
<1>1. ASSUME NEW q \in CallData, call' = [call EXCEPT ![r] = q], call[r] \in CallData, call[r] # NoCall,
             UNCHANGED <<accounts, closed, wallets, faults>>,
             q.kind = call[r].kind, q.account = call[r].account,
             \/ call[r].step = "saveKey" /\ q.step = "saveWallet"
             \/ call[r].step \in Past /\ q.step \in Past \cup {"failed"}
      PROVE  WalletInv'
  <2>1. call'[r] = q /\ \A p \in Calls \ {r} : call'[p] = call[p]
    BY <1>1 DEF TypeInv, TypeOK
  <2>2. call[r].step # "deleteWallet" /\ q # NoCall
    BY <1>1, NoCallIsNone DEF Past
  <2>3. QED
    BY <1>0, <1>1, <2>1, <2>2, QuietKeeps
<1>2. CASE RegisterDid(r)
  <2> DEFINE q == [call[r] EXCEPT !.step = AfterRegister(r), !.did = dids + 1]
  <2>1. /\ call' = [call EXCEPT ![r] = q] /\ call[r] \in CallData /\ call[r] # NoCall
        /\ UNCHANGED <<accounts, closed, wallets, faults>> /\ call[r].step = "register"
    BY <1>2, AtStep DEF RegisterDid, docs
  <2>2. dids + 1 \in Dids
    BY DEF TypeInv, TypeOK, Dids
  <2>3. /\ q \in CallData /\ q.step \in {"saveIssuer", "saveIdentity"} /\ q.kind = call[r].kind
        /\ q.account = call[r].account
    BY <2>1, <2>2 DEF CallData, AfterRegister, Steps
  <2> HIDE DEF q
  <2>4. QED
    BY <1>1, <2>1, <2>3 DEF Past, Early, Steps
<1>3. CASE FindAgent(r)
  <2>1. PICK did \in FoundDids(call[r].account) :
          call' = [call EXCEPT ![r].step = IF did = NoDid THEN "failed" ELSE "findOwner",
                               ![r].did = did]
    BY <1>3 DEF FindAgent
  <2>2. did \in Dids \cup {NoDid}
    BY <2>1 DEF FoundDids, IdentitiesOf, TypeInv, TypeOK, Identities
  <2> DEFINE q == [call[r] EXCEPT !.step = IF did = NoDid THEN "failed" ELSE "findOwner",
                                  !.did = did]
  <2>3. /\ call[r] \in CallData /\ call[r] # NoCall
        /\ UNCHANGED <<accounts, closed, wallets, faults>> /\ call[r].step = "findAgent"
    BY <1>3, AtStep DEF FindAgent, docs
  <2>3a. call' = [call EXCEPT ![r] = q]
    BY <2>1
  <2>4. /\ q \in CallData /\ q.step \in {"failed", "findOwner"} /\ q.kind = call[r].kind
        /\ q.account = call[r].account
    BY <2>2, <2>3 DEF CallData, Steps
  <2> HIDE DEF q
  <2>5. QED
    BY <1>1, <2>3, <2>3a, <2>4 DEF Past, Early, Steps
<1>4. CASE FindOwner(r)
  <2> DEFINE owners == IF call[r].kind = "newAgent" THEN {call[r].user}
                       ELSE {w.owner : w \in {v \in wallets : v.account = call[r].account}}
             found == IF owners = {} THEN {NoDid} ELSE UNION {FoundDids(u) : u \in owners}
  <2>1. PICK did \in found :
          call' = [call EXCEPT ![r].step = "findProfile", ![r].ownerDid = did]
    BY <1>4 DEF FindOwner
  <2>2. \A owner : FoundDids(owner) \subseteq Dids \cup {NoDid}
    BY DEF FoundDids, IdentitiesOf, TypeInv, TypeOK, Identities
  <2>3. did \in Dids \cup {NoDid}
    BY <2>1, <2>2
  <2> HIDE DEF found, owners
  <2> DEFINE q == [call[r] EXCEPT !.step = "findProfile", !.ownerDid = did]
  <2>4. /\ call' = [call EXCEPT ![r] = q] /\ call[r] \in CallData /\ call[r] # NoCall
        /\ UNCHANGED <<accounts, closed, wallets, faults>> /\ call[r].step = "findOwner"
    BY <1>4, <2>1, AtStep DEF FindOwner, docs
  <2>5. /\ q \in CallData /\ q.step = "findProfile" /\ q.kind = call[r].kind
        /\ q.account = call[r].account
    BY <2>3, <2>4 DEF CallData, Steps
  <2> HIDE DEF q
  <2>6. QED
    BY <1>1, <2>4, <2>5 DEF Past, Early, Steps
<1>5. CASE \/ SaveKey(r) \/ CheckWallet(r) \/ FindIdentity(r) \/ SaveIdentity(r) \/ SaveIssuer(r)
           \/ FindProfile(r) \/ CreateTopics(r) \/ SaveProfile(r) \/ Publish(r)
  <2>1. PICK from, to :
          /\ Go(r, from, to)
          /\ \/ from = "saveKey" /\ to = "saveWallet"
             \/ from \in Past /\ to \in Past \cup {"failed"}
    BY <1>5 DEF SaveKey, CheckWallet, FindIdentity, SaveIdentity, SaveIssuer, FindProfile,
                CreateTopics, SaveProfile, Publish, Past, Early, Steps
  <2>2. UNCHANGED <<accounts, closed, wallets, faults>>
    BY <1>5 DEF SaveKey, CheckWallet, FindIdentity, SaveIdentity, SaveIssuer, FindProfile,
                CreateTopics, SaveProfile, Publish, docs
  <2>3. to \in Steps
    BY <2>1 DEF Past, Steps
  <2> DEFINE q == [call[r] EXCEPT !.step = to]
  <2>4. /\ call' = [call EXCEPT ![r] = q] /\ call[r] \in CallData /\ call[r] # NoCall
        /\ call[r].step = from
    BY <2>1, AtStep DEF Go
  <2>5. q \in CallData /\ q.step = to /\ q.kind = call[r].kind /\ q.account = call[r].account
    BY <2>3, <2>4, Stepped
  <2> HIDE DEF q
  <2>6. QED
    BY <1>1, <2>1, <2>2, <2>4, <2>5
<1>6. QED
  BY <1>2, <1>3, <1>4, <1>5

LEMMA FaultsKeepWallets ==
  ASSUME TypeInv, WalletInv, (\E r \in Calls : CallFails(r)) \/ Crash
  PROVE  WalletInv'
<1>1. UNCHANGED <<accounts, closed, wallets>> /\ faults' = faults + 1 /\ faults \in Nat
  BY DEF CallFails, Crash, docs, TypeInv, TypeOK
<1>2. ASSUME NEW p \in Calls
      PROVE  \/ call'[p] = call[p]
             \/ /\ call[p] # NoCall /\ call'[p] # NoCall
                /\ call'[p].kind = call[p].kind /\ call'[p].account = call[p].account
                /\ call'[p].step = "failed"
  <2>1. p \in Running => call[p] \in CallData /\ call[p] # NoCall
    BY DEF TypeInv, TypeOK, Running
  <2> DEFINE q == [call[p] EXCEPT !.step = "failed"]
  <2>2. ASSUME p \in Running
        PROVE  q # NoCall /\ q.kind = call[p].kind /\ q.account = call[p].account
               /\ q.step = "failed"
    <3>1. /\ q \in CallData /\ q.kind = call[p].kind /\ q.account = call[p].account
          /\ q.step = "failed"
      BY <2>1, <2>2, Stepped DEF Steps
    <3> HIDE DEF q
    <3>2. QED
      BY <3>1, NoCallIsNone
  <2>3. call'[p] = call[p] \/ (p \in Running /\ call'[p] = q)
    BY DEF CallFails, Crash, TypeInv, TypeOK
  <2> HIDE DEF q
  <2>4. QED
    BY <2>1, <2>2, <2>3
<1>3. faults' > 0 /\ faults <= faults' /\ faults' \in Nat
  BY <1>1
<1>4. QED
  BY <1>1, <1>2, <1>3, QuietKeeps

LEMMA StartsKeepWallets ==
  ASSUME TypeInv, WalletInv, NEW r \in Calls, Begin(r)
  PROVE  WalletInv'
<1>1. PICK kind, u, account, subject, step :
        /\ Start(r, kind, u, account, subject, step)
        /\ UNCHANGED <<accounts, closed, wallets, faults>>
        /\ \/ kind \in Creators /\ account = NoAccount /\ step \in {"create", "failed"}
           \/ kind = "delete" /\ (HasWallet(account) \/ account = NoAccount)
              /\ step \in {"closeAccount", "failed"}
           \/ kind \notin Creators \cup {"delete"} /\ step \in Past
  BY DEF Begin, StartWallet, StartDid, StartProfile, StartIssuer, StartDelete, docs,
         Creators, HasWallet, Past, Early, Steps
<1> DEFINE q == [kind |-> kind, user |-> u, step |-> step, account |-> account,
                 subject |-> subject, did |-> NoDid, ownerDid |-> NoDid]
<1>2. call' = [call EXCEPT ![r] = q] /\ call[r] = NoCall
  BY <1>1 DEF Start
<1>3. q.kind = kind /\ q.step = step /\ q.account = account
  OBVIOUS
<1> HIDE DEF q
<1>4. call'[r] = q /\ \A p \in Calls \ {r} : call'[p] = call[p]
  BY <1>2 DEF TypeInv, TypeOK
<1>5. q # NoCall
  <2>1. kind \in AllKinds
    BY <1>1, KindsKnown DEF Start
  <2>2. QED
    BY <1>3, <2>1 DEF NoCall, AllKinds
<1>6. /\ r \notin Creating /\ Creating' \subseteq Creating \cup {r} /\ Creating \subseteq Creating'
      /\ r \in Creating' => q.account = NoAccount /\ q.step \in {"create", "failed"}
  BY <1>1, <1>2, <1>3, <1>4, <1>5 DEF Creating, Creators
<1>7. /\ r \notin Deleting /\ Deleting' \subseteq Deleting \cup {r}
      /\ r \in Deleting' => /\ HasWallet(q.account) \/ q.account = NoAccount
                            /\ q.step \in {"closeAccount", "failed"}
  <2>1. "delete" \notin Creators
    BY DEF Creators
  <2>2. QED
    BY <1>1, <1>2, <1>3, <1>4, <1>5, <2>1 DEF Deleting
<1>8. \A a : HasWallet(a)' = HasWallet(a)
  BY <1>1 DEF HasWallet
<1>9. ASSUME NEW a, Unseen(a), a # NoAccount PROVE Unseen(a)'
  BY <1>1, <1>4, <1>7, <1>8, <1>9 DEF Unseen, Deleting
<1>10. ASSUME NEW p \in Creating' PROVE CreatorFits(call[p])'
  <2>1. CASE p = r
    <3>1. call'[p] = q /\ q.account = NoAccount /\ q.step \in {"create", "failed"}
      BY <1>4, <1>6, <1>10, <2>1
    <3>2. QED
      BY <3>1 DEF CreatorFits, Past, Early
  <2>2. CASE p # r
    <3>1. p \in Creating /\ p \in Calls /\ call'[p] = call[p] /\ CreatorFits(call[p])
      BY <1>4, <1>6, <1>10, <2>2 DEF WalletInv, Creating
    <3>2. call[p].step \in {"saveKey", "saveWallet"} => call[p].account # NoAccount
      BY <3>1 DEF TypeInv, AccountFits, Creating
    <3>3. QED
      BY <1>1, <1>8, <1>9, <3>1, <3>2 DEF CreatorFits
  <2>3. QED
    BY <2>1, <2>2
<1>11. \A p \in Creating : p \in Calls /\ p # r /\ call'[p] = call[p]
  BY <1>4, <1>6 DEF Creating
<1>12. (\A a \in 1..accounts : \E p \in Creating : call[p].account = a)'
  BY <1>1, <1>6, <1>11 DEF WalletInv
<1>13. (\A p1, p2 \in Creating :
          call[p1].account = call[p2].account /\ call[p1].account # NoAccount => p1 = p2)'
  BY <1>4, <1>6, <1>11 DEF WalletInv
<1>14. (\A p \in Deleting : call[p].step = "deleteWallet" => call[p].account \in closed)'
  BY <1>1, <1>4, <1>7 DEF WalletInv, Deleting
<1>15. ClosedWalletsGo'
  BY <1>1, <1>2, <1>4 DEF WalletInv, ClosedWalletsGo, At, Running
<1>16. QED
  BY <1>10, <1>12, <1>13, <1>14, <1>15 DEF WalletInv

LEMMA CreateAccountKeepsWallets ==
  ASSUME TypeInv, WalletInv, NEW r \in Calls, CreateAccount(r)
  PROVE  WalletInv'
<1> DEFINE n == accounts + 1
           subject == IF WalletType(r) = "agent" THEN n ELSE call[r].subject
           q == [call[r] EXCEPT !.step = "saveKey", !.account = n, !.subject = subject]
<1>1. /\ call' = [call EXCEPT ![r] = q] /\ call[r] \in CallData /\ call[r] # NoCall
      /\ call[r].step = "create" /\ call[r].kind \in Creators
      /\ accounts' = n /\ UNCHANGED <<closed, wallets, faults>>
  <2>1. At(r, "create")
    BY DEF CreateAccount
  <2>2. call[r] \in CallData /\ call[r] # NoCall /\ call[r].step = "create" /\ StepFits(call[r])
    BY <2>1, AtStep
  <2>3. call[r].kind \in Creators
    BY <2>2 DEF StepFits
  <2>4. call' = [call EXCEPT ![r] = q] /\ accounts' = n /\ UNCHANGED <<closed, wallets, faults>>
    BY DEF CreateAccount, docs
  <2>5. QED
    BY <2>2, <2>3, <2>4
<1>2. q.kind = call[r].kind /\ q.account = n /\ q.step = "saveKey"
  BY <1>1 DEF CallData
<1> HIDE DEF q
<1>3. call'[r] = q /\ \A p \in Calls \ {r} : call'[p] = call[p]
  BY <1>1 DEF TypeInv, TypeOK
<1>4. q # NoCall
  BY <1>1, <1>2 DEF NoCall, Creators
<1>5. Creating' = Creating /\ Deleting' = Deleting /\ r \in Creating /\ r \notin Deleting
  BY <1>1, <1>2, <1>3, <1>4 DEF Creating, Deleting, Creators
<1>6. accounts \in Nat /\ n \in Nat /\ n > accounts /\ n # NoAccount
  BY BoundsAreNat DEF TypeInv, TypeOK, NoAccount
<1>7. \A a : a \in 1..accounts \/ a \in 0..accounts \/ a = NoAccount => a # n
  BY <1>6
<1>8. call[r].account = NoAccount
  BY <1>1, <1>5 DEF WalletInv, CreatorFits
<1>9. \A a : HasWallet(a)' = HasWallet(a)
  BY <1>1 DEF HasWallet
<1>10. \A a : Unseen(a)' = Unseen(a)
  BY <1>1, <1>3, <1>5, <1>9 DEF Unseen, Deleting
<1>11. Unseen(n)
  <2>1. n \notin closed /\ n \notin keys
    BY <1>6 DEF TypeInv, TypeOK
  <2>2. ~HasWallet(n)
    BY <2>1 DEF TypeInv, HasWallet
  <2>3. \A p \in Deleting : call[p].account # n
    BY <1>6, <2>1 DEF TypeInv, AccountFits, Deleting
  <2>4. QED
    BY <2>1, <2>2, <2>3 DEF Unseen
<1>12. \A p \in Creating \ {r} : p \in Calls /\ call'[p] = call[p] /\ call[p].account # n
  BY <1>3, <1>7 DEF Creating, TypeInv, AccountFits
<1>13. ASSUME NEW p \in Creating PROVE CreatorFits(call[p])'
  <2>1. CASE p = r
    BY <1>2, <1>3, <1>10, <1>11, <2>1 DEF CreatorFits, Past, Early
  <2>2. CASE p # r
    BY <1>1, <1>9, <1>10, <1>12, <2>2 DEF CreatorFits, WalletInv
  <2>3. QED
    BY <2>1, <2>2
<1>14. ASSUME NEW a \in 1..n PROVE \E p \in Creating : call'[p].account = a
  <2>1. CASE a = n
    BY <1>2, <1>3, <1>5, <2>1
  <2>2. CASE a # n
    <3>1. a \in 1..accounts /\ a # NoAccount
      BY <1>6, <2>2 DEF NoAccount
    <3>2. PICK p \in Creating : call[p].account = a
      BY <3>1 DEF WalletInv
    <3>3. QED
      BY <1>8, <1>12, <3>1, <3>2
  <2>3. QED
    BY <2>1, <2>2
<1>15. (\A p1, p2 \in Creating :
          call[p1].account = call[p2].account /\ call[p1].account # NoAccount => p1 = p2)'
  BY <1>2, <1>3, <1>5, <1>12 DEF WalletInv
<1>16. (\A p \in Deleting : call[p].step = "deleteWallet" => call[p].account \in closed)'
  BY <1>1, <1>3, <1>5 DEF WalletInv, Deleting
<1>17. ClosedWalletsGo'
  BY <1>1, <1>3, <1>5 DEF WalletInv, ClosedWalletsGo, At, Running, Deleting
<1>18. QED
  BY <1>1, <1>5, <1>13, <1>14, <1>15, <1>16, <1>17 DEF WalletInv

\* What the three other steps have in common.
LEMMA SameRequest ==
  ASSUME TypeInv, NEW r \in Calls, NEW from, NEW to \in Steps, Go(r, from, to)
  PROVE  /\ Creating' = Creating /\ Deleting' = Deleting
         /\ call[r] # NoCall /\ call'[r] # NoCall
         /\ call[r].step = from /\ call'[r].step = to
         /\ \A p \in Calls : call'[p].account = call[p].account /\ call'[p].kind = call[p].kind
         /\ \A p \in Calls \ {r} : call'[p] = call[p]
<1>1. /\ call'[r] \in CallData /\ call[r] \in CallData /\ call[r].step = from
      /\ call'[r].step = to /\ call'[r].kind = call[r].kind /\ call'[r].account = call[r].account
      /\ \A p \in Calls \ {r} : call'[p] = call[p]
  BY GoMoves DEF TypeInv
<1>2. call'[r] # NoCall /\ call[r] # NoCall
  BY <1>1, NoCallIsNone
<1>3. QED
  BY <1>1, <1>2 DEF Creating, Deleting

LEMMA SaveWalletKeepsWallets ==
  ASSUME TypeInv, WalletInv, NEW r \in Calls, SaveWallet(r)
  PROVE  WalletInv'
<1> DEFINE a0 == call[r].account
<1>1. PICK to \in {"failed", "done", "checkWallet"} :
        /\ Go(r, "saveWallet", to)
        /\ \/ to = "failed" /\ wallets' = wallets
           \/ /\ to # "failed"
              /\ wallets' = wallets \cup {[account |-> call[r].account, owner |-> call[r].user,
                                           type |-> WalletType(r)]}
  BY DEF SaveWallet
<1>2. UNCHANGED <<accounts, closed, faults>>
  BY DEF SaveWallet
<1>3. /\ Creating' = Creating /\ Deleting' = Deleting
      /\ call[r] # NoCall /\ call'[r] # NoCall
      /\ call[r].step = "saveWallet" /\ call'[r].step = to
      /\ \A p \in Calls : call'[p].account = call[p].account /\ call'[p].kind = call[p].kind
      /\ \A p \in Calls \ {r} : call'[p] = call[p]
  BY <1>1, SameRequest DEF Steps
<1>4. call[r].kind \in Creators /\ r \in Creating /\ a0 # NoAccount
  BY <1>3 DEF TypeInv, StepFits, AccountFits, Creating
<1>5. CASE to = "failed"
  <2>1. wallets' = wallets /\ faults' \in Nat /\ faults <= faults'
    BY <1>1, <1>2, <1>5, BoundsAreNat DEF TypeInv, TypeOK
  <2>2. QED
    BY <1>2, <1>3, <1>5, <2>1, QuietKeeps
<1>6. CASE to # "failed"
  <2> DEFINE new == [account |-> call[r].account, owner |-> call[r].user, type |-> WalletType(r)]
  <2>1. wallets' = wallets \cup {new} /\ new.account = a0
    BY <1>1, <1>6
  <2> HIDE DEF new
  <2>2. Unseen(a0)
    BY <1>3, <1>4 DEF WalletInv, CreatorFits
  <2>3. \A a : HasWallet(a)' <=> (HasWallet(a) \/ a = a0)
    BY <2>1 DEF HasWallet
  <2>4. \A a : a # a0 /\ Unseen(a) => Unseen(a)'
    BY <1>2, <1>3, <2>3 DEF Unseen, Deleting
  <2>5. ASSUME NEW p \in Creating PROVE CreatorFits(call[p])'
    <3>1. CASE p = r
      <4>1. call'[p].step \in {"done", "checkWallet"} /\ HasWallet(call[p].account)'
        BY <1>1, <1>3, <1>4, <1>6, <2>3, <3>1
      <4>2. QED
        BY <4>1 DEF CreatorFits
    <3>2. CASE p # r
      <4>1. p \in Calls /\ call'[p] = call[p] /\ CreatorFits(call[p])
        BY <1>3, <3>2 DEF Creating, WalletInv
      <4>2. call[p].account # a0
        BY <1>4, <3>2 DEF WalletInv
      <4>3. QED
        BY <1>2, <2>3, <2>4, <4>1, <4>2 DEF CreatorFits
    <3>3. QED
      BY <3>1, <3>2
  <2>6. (\A a \in 1..accounts : \E p \in Creating : call[p].account = a)'
    BY <1>2, <1>3 DEF WalletInv, Creating
  <2>7. (\A p1, p2 \in Creating :
           call[p1].account = call[p2].account /\ call[p1].account # NoAccount => p1 = p2)'
    BY <1>3 DEF WalletInv, Creating
  <2>8. (\A p \in Deleting : call[p].step = "deleteWallet" => call[p].account \in closed)'
    BY <1>1, <1>2, <1>3 DEF WalletInv, Deleting
  <2>9. ClosedWalletsGo'
    <3>1. ASSUME NEW w \in wallets', w.account \in closed
          PROVE  \E p \in Calls :
                   /\ call[p] # NoCall /\ call[p].kind = "delete" /\ call[p].account = w.account
                   /\ At(p, "deleteWallet") \/ (call[p].step = "failed" /\ faults > 0)
      BY <2>1, <2>2, <3>1 DEF WalletInv, ClosedWalletsGo, Unseen
    <3>2. "delete" \notin Creators
      BY DEF Creators
    <3>3. QED
      BY <1>2, <1>3, <1>4, <3>1, <3>2 DEF ClosedWalletsGo, At, Running
  <2>10. QED
    BY <1>3, <2>5, <2>6, <2>7, <2>8, <2>9 DEF WalletInv
<1>7. QED
  BY <1>5, <1>6

LEMMA CloseAccountKeepsWallets ==
  ASSUME TypeInv, WalletInv, NEW r \in Calls, CloseAccount(r)
  PROVE  WalletInv'
<1> DEFINE a0 == call[r].account
           to == IF a0 \in closed THEN "failed" ELSE "deleteWallet"
<1>1. /\ Go(r, "closeAccount", to) /\ closed' = closed \cup {a0}
      /\ UNCHANGED <<accounts, wallets, faults>>
  BY DEF CloseAccount, docs
<1>2. to \in Steps /\ (to = "deleteWallet" <=> a0 \notin closed) /\ to \in {"failed", "deleteWallet"}
  BY DEF Steps
<1> HIDE DEF to
<1>3. /\ Creating' = Creating /\ Deleting' = Deleting
      /\ call[r] # NoCall /\ call'[r] # NoCall
      /\ call[r].step = "closeAccount" /\ call'[r].step = to
      /\ \A p \in Calls : call'[p].account = call[p].account /\ call'[p].kind = call[p].kind
      /\ \A p \in Calls \ {r} : call'[p] = call[p]
  BY <1>1, <1>2, SameRequest
<1>4. call[r].kind = "delete" /\ r \in Deleting /\ r \notin Creating
  BY <1>3 DEF TypeInv, StepFits, Deleting, Creating, Creators
<1>5. \A a : HasWallet(a)' = HasWallet(a)
  BY <1>1 DEF HasWallet
<1>6. \A a : Unseen(a) => Unseen(a)'
  BY <1>1, <1>3, <1>4, <1>5 DEF Unseen, Deleting
<1>7. ASSUME NEW p \in Creating PROVE CreatorFits(call[p])'
  <2>1. p \in Calls /\ call'[p] = call[p] /\ CreatorFits(call[p])
    BY <1>3, <1>4 DEF Creating, WalletInv
  <2>2. QED
    BY <1>1, <1>5, <1>6, <2>1 DEF CreatorFits
<1>8. (\A a \in 1..accounts : \E p \in Creating : call[p].account = a)'
  BY <1>1, <1>3 DEF WalletInv, Creating
<1>9. (\A p1, p2 \in Creating :
         call[p1].account = call[p2].account /\ call[p1].account # NoAccount => p1 = p2)'
  BY <1>3 DEF WalletInv, Creating
<1>10. (\A p \in Deleting : call[p].step = "deleteWallet" => call[p].account \in closed)'
  BY <1>1, <1>3 DEF WalletInv, Deleting
<1>11. ClosedWalletsGo'
  <2>1. ASSUME NEW w \in wallets', w.account \in closed'
        PROVE  \E p \in Calls :
                 /\ call'[p] # NoCall /\ call'[p].kind = "delete" /\ call'[p].account = w.account
                 /\ call'[p].step = "deleteWallet" \/ (call'[p].step = "failed" /\ faults' > 0)
    <3>1. CASE w.account \in closed
      <4>1. PICK p \in Calls :
              /\ call[p] # NoCall /\ call[p].kind = "delete" /\ call[p].account = w.account
              /\ At(p, "deleteWallet") \/ (call[p].step = "failed" /\ faults > 0)
        BY <1>1, <2>1, <3>1 DEF WalletInv, ClosedWalletsGo
      <4>2. p # r
        BY <1>3, <4>1 DEF At
      <4>3. QED
        BY <1>1, <1>3, <4>1, <4>2 DEF At
    <3>2. CASE w.account \notin closed
      BY <1>1, <1>2, <1>3, <1>4, <2>1, <3>2
    <3>3. QED
      BY <3>1, <3>2
  <2>2. QED
    BY <2>1 DEF ClosedWalletsGo, At, Running
<1>12. QED
  BY <1>3, <1>7, <1>8, <1>9, <1>10, <1>11 DEF WalletInv

LEMMA DeleteWalletKeepsWallets ==
  ASSUME TypeInv, WalletInv, NEW r \in Calls, DeleteWallet(r)
  PROVE  WalletInv'
<1> DEFINE a0 == call[r].account
<1>1. /\ Go(r, "deleteWallet", "done") /\ wallets' = {w \in wallets : w.account # a0}
      /\ UNCHANGED <<accounts, closed, faults>>
  BY DEF DeleteWallet
<1>2. /\ Creating' = Creating /\ Deleting' = Deleting
      /\ call[r] # NoCall /\ call'[r] # NoCall
      /\ call[r].step = "deleteWallet" /\ call'[r].step = "done"
      /\ \A p \in Calls : call'[p].account = call[p].account /\ call'[p].kind = call[p].kind
      /\ \A p \in Calls \ {r} : call'[p] = call[p]
  BY <1>1, SameRequest DEF Steps
<1>3. call[r].kind = "delete" /\ r \in Deleting /\ r \notin Creating
  BY <1>2 DEF TypeInv, StepFits, Deleting, Creating, Creators
<1>4. a0 \in closed
  BY <1>2, <1>3 DEF WalletInv
<1>5. \A a : HasWallet(a)' <=> HasWallet(a) /\ a # a0
  BY <1>1 DEF HasWallet
<1>6. \A a : Unseen(a) => Unseen(a)'
  BY <1>1, <1>2, <1>5 DEF Unseen, Deleting
<1>7. ASSUME NEW p \in Creating PROVE CreatorFits(call[p])'
  <2>1. p \in Calls /\ call'[p] = call[p] /\ CreatorFits(call[p])
    BY <1>2, <1>3 DEF Creating, WalletInv
  <2>2. QED
    BY <1>1, <1>4, <1>5, <1>6, <2>1 DEF CreatorFits
<1>8. (\A a \in 1..accounts : \E p \in Creating : call[p].account = a)'
  BY <1>1, <1>2 DEF WalletInv, Creating
<1>9. (\A p1, p2 \in Creating :
         call[p1].account = call[p2].account /\ call[p1].account # NoAccount => p1 = p2)'
  BY <1>2 DEF WalletInv, Creating
<1>10. (\A p \in Deleting : call[p].step = "deleteWallet" => call[p].account \in closed)'
  BY <1>1, <1>2 DEF WalletInv, Deleting
<1>11. ClosedWalletsGo'
  <2>1. ASSUME NEW w \in wallets', w.account \in closed
        PROVE  \E p \in Calls \ {r} :
                 /\ call[p] # NoCall /\ call[p].kind = "delete" /\ call[p].account = w.account
                 /\ At(p, "deleteWallet") \/ (call[p].step = "failed" /\ faults > 0)
    BY <1>1, <2>1 DEF WalletInv, ClosedWalletsGo
  <2>2. QED
    BY <1>1, <1>2, <2>1 DEF ClosedWalletsGo, At, Running
<1>12. QED
  BY <1>2, <1>7, <1>8, <1>9, <1>10, <1>11 DEF WalletInv

\* The ledger and the wallets tell the same accounts, but for what is in between or failed.
THEOREM WalletsFollowLedger == Spec => []WalletsMatchLedger
<1>1. Init => WalletInv
  BY DEF Init, WalletInv, Creating, Deleting, ClosedWalletsGo
<1>2. TypeInv /\ WalletInv /\ [Next]_vars => WalletInv'
  <2> SUFFICES ASSUME TypeInv, WalletInv, [Next]_vars PROVE WalletInv'
    OBVIOUS
  <2>1. CASE UNCHANGED vars
    <3>1. faults' \in Nat /\ faults <= faults'
      BY <2>1, BoundsAreNat DEF vars, TypeInv, TypeOK
    <3>2. QED
      BY <2>1, <3>1, QuietKeeps DEF vars
  <2>2. ASSUME NEW r \in Calls, Begin(r) \/ Step(r) PROVE WalletInv'
    BY <2>2, StartsKeepWallets, QuietStepsKeepWallets, CreateAccountKeepsWallets,
       SaveWalletKeepsWallets, CloseAccountKeepsWallets, DeleteWalletKeepsWallets DEF Step
  <2>3. QED
    BY <2>1, <2>2, FaultsKeepWallets DEF Next
<1>3. TypeInv /\ WalletInv => WalletsMatchLedger
  <2> SUFFICES ASSUME TypeInv, WalletInv PROVE LostAccounts
    BY DEF WalletsMatchLedger, WalletInv
  <2>1. ASSUME NEW a \in (1..accounts) \ closed, \A w \in wallets : w.account # a
        PROVE  \E r \in Calls :
                 /\ call[r] # NoCall
                 /\ call[r].kind \notin {"delete", "did", "identity", "profile", "issuer"}
                 /\ call[r].account = a /\ call[r].step # "done"
    <3>1. PICK r \in Creating : call[r].account = a
      BY DEF WalletInv
    <3>2. call[r].step \notin Past
      BY <2>1, <3>1 DEF WalletInv, CreatorFits, HasWallet
    <3>3. QED
      BY <3>1, <3>2 DEF Creating, Creators, Past, Early, Steps
  <2>2. QED
    BY <2>1 DEF LostAccounts
<1>4. QED
  BY <1>1, <1>2, <1>3, TypeInvariant, PTL DEF Spec

===============================================================================
