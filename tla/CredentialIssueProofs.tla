------------------------- MODULE CredentialIssueProofs -------------------------
(***************************************************************************)
(* Theorems of CredentialIssue for any callers, any number of credentials, *)
(* NFTs, operations of the token endpoints and faults.  The types hold     *)
(* however the calls overlap; what the code promises about credentials and *)
(* NFTs is proved for calls that do not overlap.                            *)
(***************************************************************************)
EXTENDS CredentialIssue, TLAPS, FiniteSetTheorems, SequenceTheorems

Places == {"treasury", "wallet", "wiped", "seized"}
Steps == Rest \cup Issuing \cup Changing

\* What is stored, in the database and on the ledger.
StoreFits ==
  /\ creds \in Seq(Credentials) /\ Len(creds) <= MaxCredentials
  /\ vc \in Seq(Chain) /\ Len(vc) = Len(creds)
  /\ nfts \in Seq(Places) /\ Len(nfts) <= MaxSerials
  /\ account \in Accounts
  /\ \A serial \in DOMAIN nfts : nfts[serial] = "wallet" => Associated
  /\ \A i \in DOMAIN creds : creds[i].serial <= Len(nfts)

\* A call names a document and an NFT that are there, once it has any.
CallRefers(c) ==
  /\ call[c].id <= Len(creds)
  /\ call[c].serial <= Len(nfts)
  /\ pc[c] \in (Issuing \cup Changing) \ {"register"} => call[c].id # 0

TypeInv ==
  /\ StoreFits
  /\ pc \in [Callers -> Steps]
  /\ call \in [Callers -> CallData]
  /\ \A c \in Callers : CallRefers(c)
  /\ declared \subseteq DOMAIN creds
  /\ operations \in 0..MaxOperations
  /\ faults \in 0..MaxFaults

--------------------------------------------------------------------------------
(* Ranges. *)

LEMMA StoreRanges ==
  ASSUME StoreFits
  PROVE  /\ Len(creds) \in 0..MaxCredentials /\ DOMAIN creds = 1..Len(creds)
         /\ \A i \in DOMAIN creds : creds[i] \in Credentials
         /\ DOMAIN vc = 1..Len(creds)
         /\ \A i \in DOMAIN vc : vc[i] \in Chain
         /\ Len(nfts) \in 0..MaxSerials /\ DOMAIN nfts = 1..Len(nfts)
         /\ \A serial \in DOMAIN nfts : nfts[serial] \in Places
<1>1. Len(creds) \in Nat /\ creds \in [1..Len(creds) -> Credentials]
  BY LenProperties DEF StoreFits
<1>2. Len(vc) \in Nat /\ vc \in [1..Len(vc) -> Chain]
  BY LenProperties DEF StoreFits
<1>3. Len(nfts) \in Nat /\ nfts \in [1..Len(nfts) -> Places]
  BY LenProperties DEF StoreFits
<1>4. QED
  BY <1>1, <1>2, <1>3, BoundsAreNat DEF StoreFits

LEMMA CallRanges ==
  ASSUME TypeInv, NEW c \in Callers
  PROVE  /\ call[c] \in CallData /\ pc[c] \in Steps
         /\ call[c].id \in 0..Len(creds) /\ call[c].serial \in 0..Len(nfts)
         /\ pc[c] \in (Issuing \cup Changing) \ {"register"} => call[c].id \in DOMAIN creds
         /\ call = [call EXCEPT ![c] = call[c]]
<1>1. call[c] \in CallData /\ pc[c] \in Steps /\ CallRefers(c)
  BY DEF TypeInv
<1>2. call[c].id \in Nat /\ call[c].serial \in Nat
  BY <1>1, BoundsAreNat DEF CallData
<1>3. call = [call EXCEPT ![c] = call[c]]
  BY DEF TypeInv
<1>4. QED
  BY <1>1, <1>2, <1>3, StoreRanges DEF TypeInv, CallRefers

LEMMA TypesFollow == TypeInv => TypeOK
BY DEF TypeInv, StoreFits, Places, Steps, TypeOK

LEMMA NoDataIsData == NoData \in CallData /\ NoData.id = 0 /\ NoData.serial = 0
BY BoundsAreNat DEF NoData, NoNft, CallData, Chain, AllTargets

\* A document is saved.
LEMMA DocumentSaved ==
  ASSUME StoreFits, NEW i \in DOMAIN creds, NEW d \in Credentials, d.serial <= Len(nfts),
         creds' = [creds EXCEPT ![i] = d], UNCHANGED <<vc, nfts, account>>
  PROVE  /\ StoreFits' /\ Len(creds') = Len(creds) /\ DOMAIN creds' = DOMAIN creds
         /\ \A j \in DOMAIN creds : creds'[j] = IF j = i THEN d ELSE creds[j]
<1>1. i \in 1..Len(creds) /\ DOMAIN creds = 1..Len(creds)
  BY StoreRanges
<1>2. /\ creds' \in Seq(Credentials) /\ Len(creds') = Len(creds)
      /\ \A j \in 1..Len(creds) : creds'[j] = IF j = i THEN d ELSE creds[j]
  BY <1>1, ExceptSeq DEF StoreFits
<1>3. DOMAIN creds' = 1..Len(creds)
  BY <1>2, LenProperties
<1>4. QED
  BY <1>1, <1>2, <1>3 DEF StoreFits, Associated

\* An NFT changes hands.
LEMMA NftMoved ==
  ASSUME StoreFits, NEW s \in DOMAIN nfts, NEW p \in Places,
         nfts' = [nfts EXCEPT ![s] = p], UNCHANGED <<creds, vc>>,
         account' \in Accounts, account.associated \/ p = "wallet" => account'.associated
  PROVE  /\ StoreFits' /\ Len(nfts') = Len(nfts) /\ DOMAIN nfts' = DOMAIN nfts
         /\ \A t \in DOMAIN nfts : nfts'[t] = IF t = s THEN p ELSE nfts[t]
<1>1. s \in 1..Len(nfts) /\ DOMAIN nfts = 1..Len(nfts)
  BY StoreRanges
<1>2. /\ nfts' \in Seq(Places) /\ Len(nfts') = Len(nfts)
      /\ \A t \in 1..Len(nfts) : nfts'[t] = IF t = s THEN p ELSE nfts[t]
  BY <1>1, ExceptSeq DEF StoreFits
<1>3. DOMAIN nfts' = 1..Len(nfts)
  BY <1>2, LenProperties
<1>4. QED
  BY <1>1, <1>2, <1>3 DEF StoreFits, Associated

\* The account changes, and stays associated or has no NFT of the token.
LEMMA AccountChanged ==
  ASSUME StoreFits, UNCHANGED <<creds, vc, nfts>>, account' \in Accounts,
         Associated => account'.associated \/ \A s \in DOMAIN nfts : nfts[s] # "wallet"
  PROVE  StoreFits'
BY DEF StoreFits, Associated

\* One call starts or goes on, whatever it does to the store.
LEMMA CallTypes ==
  ASSUME TypeInv, StoreFits', Len(creds) <= Len(creds'), Len(nfts) <= Len(nfts'),
         NEW c \in Callers, NEW to \in Steps, NEW d \in CallData,
         pc' = [pc EXCEPT ![c] = to], call' = [call EXCEPT ![c] = d],
         d.id <= Len(creds'), d.serial <= Len(nfts'),
         to \notin Rest \cup {"register"} => d.id # 0,
         declared' \subseteq DOMAIN creds', operations' \in 0..MaxOperations, UNCHANGED faults
  PROVE  TypeInv'
<1>1. ASSUME NEW q \in Callers PROVE CallRefers(q)'
  <2>1. CASE q = c
    BY <2>1 DEF TypeInv, CallRefers, Steps, Rest, Issuing, Changing
  <2>2. CASE q # c
    <3>1. call'[q] = call[q] /\ pc'[q] = pc[q] /\ CallRefers(q)
      BY <2>2 DEF TypeInv
    <3>2. call[q].id \in Nat /\ call[q].serial \in Nat
      BY CallRanges
    <3>3. Len(creds) \in Nat /\ Len(nfts) \in Nat /\ Len(creds') \in Nat /\ Len(nfts') \in Nat
      BY LenProperties DEF TypeInv, StoreFits
    <3>4. QED
      BY <3>1, <3>2, <3>3 DEF CallRefers
  <2>3. QED
    BY <2>1, <2>2
<1>2. QED
  BY <1>1 DEF TypeInv

\* The same, when it declares nothing and is no status change that begins.
LEMMA CallKeepsTypes ==
  ASSUME TypeInv, StoreFits', Len(creds) <= Len(creds'), Len(nfts) <= Len(nfts'),
         NEW c \in Callers, NEW to \in Steps, NEW d \in CallData,
         pc' = [pc EXCEPT ![c] = to], call' = [call EXCEPT ![c] = d],
         d.id <= Len(creds'), d.serial <= Len(nfts'),
         to \notin Rest \cup {"register"} => d.id # 0,
         UNCHANGED bounds
  PROVE  TypeInv'
<1>1. DOMAIN creds = 1..Len(creds) /\ DOMAIN creds' = 1..Len(creds')
  BY LenProperties DEF TypeInv, StoreFits
<1>2. Len(creds) \in Nat /\ Len(creds') \in Nat
  BY LenProperties DEF TypeInv, StoreFits
<1>3. declared' \subseteq DOMAIN creds'
  BY <1>1, <1>2 DEF bounds, TypeInv
<1>4. operations' \in 0..MaxOperations /\ UNCHANGED faults
  BY DEF bounds, TypeInv
<1>5. QED
  BY <1>3, <1>4, CallTypes

\* The same, when the store keeps its documents and NFTs and the call its data.
LEMMA MoveKeepsTypes ==
  ASSUME TypeInv, StoreFits', Len(creds) = Len(creds'), Len(nfts) = Len(nfts'),
         NEW c \in Callers, NEW to \in Steps, pc[c] \notin Rest \cup {"register"},
         pc' = [pc EXCEPT ![c] = to], UNCHANGED <<call, bounds>>
  PROVE  TypeInv'
<1>1. /\ call[c] \in CallData /\ call' = [call EXCEPT ![c] = call[c]]
      /\ call[c].id \in Nat /\ call[c].id <= Len(creds) /\ call[c].serial <= Len(nfts)
      /\ pc[c] \in Steps
  BY CallRanges DEF TypeInv, CallRefers
<1>2. Len(creds) \in Nat /\ Len(nfts) \in Nat
  BY LenProperties DEF TypeInv, StoreFits
<1>3. call[c].id # 0
  BY <1>1 DEF TypeInv, CallRefers, Steps
<1>4. /\ Len(creds) <= Len(creds') /\ Len(nfts) <= Len(nfts')
      /\ call[c].id <= Len(creds') /\ call[c].serial <= Len(nfts')
  BY <1>1, <1>2
<1>5. QED
  BY <1>1, <1>3, <1>4, CallKeepsTypes

--------------------------------------------------------------------------------
(* Every step keeps the types. *)

LEMMA TypeInvInit == Init => TypeInv
<1> SUFFICES ASSUME Init PROVE TypeInv
  OBVIOUS
<1>1. \A S : <<>> \in Seq(S) /\ Len(<<>>) = 0
  BY EmptySeq
<1>2. StoreFits
  BY <1>1, BoundsAreNat DEF Init, StoreFits, Accounts
<1>3. QED
  BY <1>1, <1>2, NoDataIsData, BoundsAreNat DEF Init, TypeInv, CallRefers, Steps, Rest, Issuing, Changing

\* Where a call resumes.
LEMMA ResumeSteps ==
  /\ ResumeAt["pending"] = "mint" /\ ResumeAt["minted"] = "unfreeze"
  /\ ResumeAt["delivered"] = "freeze" /\ ResumeAt["active"] = "answered"
BY DEF ResumeAt

LEMMA FindKeepsTypes ==
  ASSUME TypeInv, NEW c \in Callers, FindCredential(c)
  PROVE  TypeInv'
<1>1. StoreFits' /\ Len(creds') = Len(creds) /\ Len(nfts') = Len(nfts)
  BY DEF FindCredential, ledger, TypeInv, StoreFits, Associated
<1>2. Len(creds) \in Nat /\ Len(nfts) \in Nat
  BY LenProperties DEF TypeInv, StoreFits
<1>3. CASE Start(c, "register") /\ call' = [call EXCEPT ![c] = NoData]
  <2>1. /\ pc' = [pc EXCEPT ![c] = "register"] /\ call' = [call EXCEPT ![c] = NoData]
        /\ UNCHANGED bounds
    BY <1>3 DEF FindCredential, Start
  <2>2. "register" \in Steps
    BY DEF Steps, Issuing
  <2>3. /\ NoData \in CallData /\ NoData.id <= Len(creds') /\ NoData.serial <= Len(nfts')
        /\ Len(creds) <= Len(creds') /\ Len(nfts) <= Len(nfts')
    BY <1>1, <1>2, NoDataIsData
  <2>4. QED
    BY <1>1, <2>1, <2>2, <2>3, CallKeepsTypes
<1>4. ASSUME NEW i \in OpenCredentials, Start(c, ResumeAt[creds[i].internal]),
             call' = [call EXCEPT ![c] =
                        [NoData EXCEPT !.id = i, !.serial = creds[i].serial,
                                       !.again = creds[i].internal = "pending"]]
      PROVE  TypeInv'
  <2> DEFINE d == [NoData EXCEPT !.id = i, !.serial = creds[i].serial,
                                 !.again = creds[i].internal = "pending"]
             to == ResumeAt[creds[i].internal]
  <2>1. i \in DOMAIN creds
    BY DEF OpenCredentials
  <2>2. /\ creds[i] \in Credentials /\ i \in 1..Len(creds) /\ i \in 0..MaxCredentials
        /\ creds[i].serial <= Len(nfts)
    BY <2>1, StoreRanges, BoundsAreNat DEF TypeInv, StoreFits
  <2>3. creds[i].internal \in {"pending", "minted", "delivered", "active"}
    BY DEF OpenCredentials
  <2>4. to \in Steps
    BY <2>3, ResumeSteps DEF Steps, Rest, Issuing
  <2>5. /\ pc' = [pc EXCEPT ![c] = to] /\ call' = [call EXCEPT ![c] = d] /\ UNCHANGED bounds
    BY <1>4 DEF FindCredential, Start
  <2>6. d \in CallData /\ d.id = i /\ d.serial = creds[i].serial
    <3>1. creds[i].serial \in 0..MaxSerials /\ i \in 0..MaxCredentials
      BY <2>2 DEF Credentials
    <3>2. QED
      BY <3>1, BoundsAreNat DEF NoData, NoNft, CallData, Chain, AllTargets
  <2>7. d.id <= Len(creds') /\ d.serial <= Len(nfts') /\ d.id # 0
    BY <1>1, <1>2, <2>2, <2>6
  <2>8. Len(creds) <= Len(creds') /\ Len(nfts) <= Len(nfts')
    BY <1>1, <1>2
  <2> HIDE DEF d, to
  <2>9. QED
    BY <1>1, <2>4, <2>5, <2>6, <2>7, <2>8, CallKeepsTypes
<1>5. QED
  BY <1>3, <1>4 DEF FindCredential

LEMMA FindByIdKeepsTypes ==
  ASSUME TypeInv, NEW c \in Callers, NEW i \in 1..MaxCredentials, NEW target \in Targets,
         NEW w \in BOOLEAN, FindById(c, i, target, w)
  PROVE  TypeInv'
<1> DEFINE d == [NoData EXCEPT !.id = i, !.serial = creds[i].serial,
                               !.target = target, !.wipeOnly = w]
           to == IF w THEN "read" ELSE "put"
<1>1. /\ StoreFits' /\ Len(creds') = Len(creds) /\ Len(nfts') = Len(nfts)
      /\ UNCHANGED <<creds, declared, faults>>
  BY DEF FindById, ledger, TypeInv, StoreFits, Associated
<1>0. declared' \subseteq DOMAIN creds' /\ operations' \in 0..MaxOperations
  BY <1>1, BoundsAreNat DEF FindById, Operate, TypeInv
<1>2. Len(creds) \in Nat /\ Len(nfts) \in Nat
  BY LenProperties DEF TypeInv, StoreFits
<1>3. i \in DOMAIN creds /\ creds[i] \in Credentials /\ i <= Len(creds) /\ creds[i].serial <= Len(nfts)
  BY StoreRanges DEF FindById, TypeInv, StoreFits
<1>4. d \in CallData /\ d.id = i /\ d.serial = creds[i].serial
  <2>1. creds[i].serial \in 0..MaxSerials /\ i \in 0..MaxCredentials /\ target \in Chain
    BY <1>3, TargetsKnown, BoundsAreNat DEF Credentials, Chain
  <2>2. QED
    BY <2>1 DEF NoData, NoNft, CallData, Chain, AllTargets
<1>5. pc' = [pc EXCEPT ![c] = to] /\ call' = [call EXCEPT ![c] = d]
  BY DEF FindById, Start
<1>6. to \in Steps
  BY DEF Steps, Changing
<1>7. /\ d.id <= Len(creds') /\ d.serial <= Len(nfts') /\ d.id # 0
      /\ Len(creds) <= Len(creds') /\ Len(nfts) <= Len(nfts')
  BY <1>1, <1>2, <1>3, <1>4
<1> HIDE DEF d, to
<1>8. QED
  BY <1>0, <1>1, <1>4, <1>5, <1>6, <1>7, CallTypes

\* The steps that change no more than the account.
LEMMA AccountStepsKeepTypes ==
  ASSUME TypeInv, NEW c \in Callers,
         \/ UnfreezeNft(c) \/ Thaw(c) \/ FreezeNft(c) \/ Refreeze(c) \/ AssociateNft(c) \/ CheckNft(c)
  PROVE  TypeInv'
<1>1. PICK to \in Steps : pc' = [pc EXCEPT ![c] = to]
  BY DEF UnfreezeNft, Thaw, UnfreezeAccount, FreezeNft, Refreeze, FreezeAccount, AssociateNft,
    CheckNft, Go, Steps, Rest, Issuing, Changing
<1>2. pc[c] \notin Rest \cup {"register"} /\ UNCHANGED <<creds, vc, nfts, call, bounds>>
  BY DEF UnfreezeNft, Thaw, UnfreezeAccount, FreezeNft, Refreeze, FreezeAccount, AssociateNft,
    CheckNft, Go, Rest, ledger
<1>3. account' \in Accounts /\ (Associated => account'.associated)
  <2>1. account \in Accounts
    BY DEF TypeInv, StoreFits
  <2>2. CASE UNCHANGED account
    BY <2>1, <2>2 DEF Associated
  <2>3. CASE account' = Associate
    BY <2>1, <2>3 DEF Associate, Associated, Accounts
  <2>4. CASE \E f \in {"UNFROZEN", "FROZEN", "missed"} : account' = [account EXCEPT !.freeze = f]
    BY <2>1, <2>4 DEF Associated, Accounts
  <2>5. QED
    BY <2>2, <2>3, <2>4 DEF UnfreezeNft, Thaw, UnfreezeAccount, FreezeNft, Refreeze,
      FreezeAccount, AssociateNft, CheckNft, ledger
<1>4. StoreFits'
  BY <1>2, <1>3, AccountChanged DEF TypeInv
<1>5. QED
  BY <1>1, <1>2, <1>4, MoveKeepsTypes

\* save() of a document whose internal status is set.
LEMMA InternalSaved ==
  ASSUME TypeInv, NEW c \in Callers, call[c].id \in DOMAIN creds,
         NEW status \in Internal, SaveInternal(c, status), UNCHANGED ledger
  PROVE  \E d \in Credentials :
           /\ creds' = [creds EXCEPT ![call[c].id] = d]
           /\ d.internal = status /\ d.chain = creds[call[c].id].chain
           /\ d.serial = creds[call[c].id].serial
<1> DEFINE d == [creds[call[c].id] EXCEPT !.internal = status]
<1>1. creds[call[c].id] \in Credentials
  BY StoreRanges DEF TypeInv
<1>2. d \in Credentials /\ d.internal = status /\ d.chain = creds[call[c].id].chain
      /\ d.serial = creds[call[c].id].serial
  BY <1>1 DEF Credentials
<1>3. creds' = [creds EXCEPT ![call[c].id] = d]
  BY DEF SaveInternal
<1>4. QED
  BY <1>2, <1>3

LEMMA MintSaved ==
  ASSUME TypeInv, NEW c \in Callers, SaveMint(c)
  PROVE  \E d \in Credentials :
           /\ creds' = [creds EXCEPT ![call[c].id] = d]
           /\ d.internal = "minted" /\ d.chain = creds[call[c].id].chain
           /\ d.serial = call[c].serial
<1> DEFINE d == [creds[call[c].id] EXCEPT !.internal = "minted", !.serial = call[c].serial]
<1>1. creds[call[c].id] \in Credentials /\ call[c].serial \in 0..MaxSerials
  <2>1. pc[c] = "saveMint"
    BY DEF SaveMint, Go
  <2>2. call[c].id \in DOMAIN creds /\ call[c] \in CallData
    BY <2>1, CallRanges DEF Issuing
  <2>3. QED
    BY <2>2, StoreRanges DEF TypeInv, CallData
<1>2. d \in Credentials /\ d.internal = "minted" /\ d.chain = creds[call[c].id].chain
      /\ d.serial = call[c].serial
  BY <1>1 DEF Credentials, Internal
<1>3. creds' = [creds EXCEPT ![call[c].id] = d]
  BY DEF SaveMint
<1>4. QED
  BY <1>2, <1>3

LEMMA StatusSaved ==
  ASSUME TypeInv, NEW c \in Callers, SaveStatus(c)
  PROVE  \E d \in Credentials :
           /\ creds' = [creds EXCEPT ![call[c].id] = d]
           /\ d.internal = call[c].target
           /\ d.chain = IF call[c].wipeOnly THEN call[c].target ELSE call[c].chain
           /\ d.serial = creds[call[c].id].serial
<1> DEFINE ch == IF call[c].wipeOnly THEN call[c].target ELSE call[c].chain
           d == [creds[call[c].id] EXCEPT !.internal = call[c].target, !.chain = ch]
<1>1. creds[call[c].id] \in Credentials /\ call[c].target \in Internal /\ ch \in Chain
  <2>1. pc[c] = "saveStatus"
    BY DEF SaveStatus, Go
  <2>2. call[c].id \in DOMAIN creds /\ call[c] \in CallData
    BY <2>1, CallRanges DEF Changing
  <2>3. call[c].target \in Chain /\ call[c].chain \in Chain
    BY <2>2 DEF CallData
  <2>4. QED
    BY <2>2, <2>3, StoreRanges DEF TypeInv, Internal, Chain
<1> HIDE DEF ch
<1>2. d \in Credentials /\ d.internal = call[c].target /\ d.chain = ch
      /\ d.serial = creds[call[c].id].serial
  BY <1>1 DEF Credentials
<1>3. creds' = [creds EXCEPT ![call[c].id] = d]
  BY DEF SaveStatus, ch
<1>4. QED
  BY <1>2, <1>3 DEF ch

\* Whatever the call may have been asked for, its status is one of a document.
LEMMA SaveKeepsTypes ==
  ASSUME TypeInv, NEW c \in Callers, pc[c] \notin Rest \cup {"register"},
         NEW d \in Credentials, d.serial <= Len(nfts),
         creds' = [creds EXCEPT ![call[c].id] = d],
         NEW to \in Steps, pc' = [pc EXCEPT ![c] = to],
         NEW q \in CallData, q.id = call[c].id, q.serial = call[c].serial,
         call' = [call EXCEPT ![c] = q],
         declared' \subseteq DOMAIN creds, UNCHANGED <<ledger, operations, faults>>
  PROVE  TypeInv'
<1>1. call[c].id \in DOMAIN creds /\ call[c].id # 0
  <2>1. pc[c] \in (Issuing \cup Changing) \ {"register"}
    BY CallRanges DEF Steps
  <2>2. QED
    BY <2>1, CallRanges, StoreRanges DEF TypeInv
<1>2. StoreFits' /\ Len(creds') = Len(creds) /\ DOMAIN creds' = DOMAIN creds
  BY <1>1, DocumentSaved DEF TypeInv, ledger
<1>3. Len(creds) \in Nat /\ Len(nfts) \in Nat /\ call[c].id <= Len(creds) /\ call[c].serial <= Len(nfts)
  BY LenProperties DEF TypeInv, StoreFits, CallRefers
<1>4. /\ Len(creds) <= Len(creds') /\ Len(nfts) <= Len(nfts')
      /\ q.id <= Len(creds') /\ q.serial <= Len(nfts') /\ q.id # 0
  BY <1>1, <1>2, <1>3 DEF ledger
<1>5. /\ declared' \subseteq DOMAIN creds' /\ operations' \in 0..MaxOperations
      /\ UNCHANGED faults
  BY <1>2 DEF TypeInv
<1>6. QED
  BY <1>2, <1>4, <1>5, CallTypes

LEMMA InternalStepsKeepTypes ==
  ASSUME TypeInv, NEW c \in Callers,
         SaveDelivered(c) \/ SaveActive(c) \/ SaveBurned(c) \/ SaveFrozen(c)
  PROVE  TypeInv'
<1>1. /\ pc[c] \notin Rest \cup {"register"} /\ UNCHANGED <<ledger, bounds>>
      /\ pc[c] \in (Issuing \cup Changing) \ {"register"}
  BY DEF SaveDelivered, SaveActive, SaveBurned, SaveFrozen, Go, Rest, Issuing, Changing
<1>2. PICK to \in Steps : pc' = [pc EXCEPT ![c] = to]
  BY DEF SaveDelivered, SaveActive, SaveBurned, SaveFrozen, Go, Steps, Rest, Issuing, Changing
<1>3. PICK status \in Internal : SaveInternal(c, status)
  BY DEF SaveDelivered, SaveActive, SaveBurned, SaveFrozen, Internal, AllTargets
<1>4. call[c].id \in DOMAIN creds /\ call[c] \in CallData /\ call = [call EXCEPT ![c] = call[c]]
  BY <1>1, CallRanges
<1>5. PICK d \in Credentials : /\ creds' = [creds EXCEPT ![call[c].id] = d]
                               /\ d.serial = creds[call[c].id].serial
  BY <1>1, <1>3, <1>4, InternalSaved
<1>6. d.serial <= Len(nfts)
  BY <1>4, <1>5 DEF TypeInv, StoreFits
<1>7. PICK q \in CallData : /\ q.id = call[c].id /\ q.serial = call[c].serial
                            /\ call' = [call EXCEPT ![c] = q]
  <2>1. CASE UNCHANGED call
    BY <1>4, <2>1
  <2>2. CASE call' = [call EXCEPT ![c].again = FALSE]
    <3> DEFINE q == [call[c] EXCEPT !.again = FALSE]
    <3>1. q \in CallData /\ q.id = call[c].id /\ q.serial = call[c].serial
      BY <1>4 DEF CallData
    <3>2. call' = [call EXCEPT ![c] = q]
      BY <2>2
    <3>3. QED
      BY <3>1, <3>2
  <2>3. QED
    BY <2>1, <2>2 DEF SaveDelivered, SaveActive, SaveBurned, SaveFrozen
<1>8. QED
  <2>1. declared' \subseteq DOMAIN creds /\ UNCHANGED <<ledger, operations, faults>>
    BY <1>1 DEF TypeInv, bounds
  <2>2. QED
    BY <1>1, <1>2, <1>5, <1>6, <1>7, <2>1, SaveKeepsTypes

LEMMA MintSaveKeepsTypes ==
  ASSUME TypeInv, NEW c \in Callers, SaveMint(c)
  PROVE  TypeInv'
<1>1. /\ pc[c] \notin Rest \cup {"register"} /\ UNCHANGED <<ledger, bounds>>
      /\ pc' = [pc EXCEPT ![c] = "unfreeze"] /\ "unfreeze" \in Steps
  BY DEF SaveMint, Go, Rest, Steps, Issuing
<1>2. PICK d \in Credentials : creds' = [creds EXCEPT ![call[c].id] = d] /\ d.serial = call[c].serial
  BY MintSaved
<1>3. call[c] \in CallData /\ call' = [call EXCEPT ![c] = call[c]]
  BY CallRanges DEF SaveMint
<1>4. d.serial <= Len(nfts)
  BY <1>2 DEF TypeInv, CallRefers
<1>5. QED
  <2>1. declared' \subseteq DOMAIN creds /\ UNCHANGED <<ledger, operations, faults>>
    BY <1>1 DEF TypeInv, bounds
  <2>2. QED
    BY <1>1, <1>2, <1>3, <1>4, <2>1, SaveKeepsTypes

LEMMA StatusSaveKeepsTypes ==
  ASSUME TypeInv, NEW c \in Callers, SaveStatus(c)
  PROVE  TypeInv'
<1>1. /\ pc[c] \notin Rest \cup {"register"} /\ UNCHANGED <<ledger, operations, faults>>
      /\ pc' = [pc EXCEPT ![c] = "answered"] /\ "answered" \in Steps /\ pc[c] = "saveStatus"
  BY DEF SaveStatus, Go, Rest, Steps
<1>2. call[c].id \in DOMAIN creds /\ call[c] \in CallData /\ call' = [call EXCEPT ![c] = call[c]]
  BY <1>1, CallRanges DEF SaveStatus, Changing
<1>3. PICK d \in Credentials : /\ creds' = [creds EXCEPT ![call[c].id] = d]
                               /\ d.serial = creds[call[c].id].serial
  BY StatusSaved
<1>4. d.serial <= Len(nfts)
  BY <1>2, <1>3 DEF TypeInv, StoreFits
<1>5. declared' \subseteq DOMAIN creds
  BY <1>2 DEF SaveStatus, Declaring, TypeInv
<1>6. QED
  BY <1>1, <1>2, <1>3, <1>4, <1>5, SaveKeepsTypes

LEMMA RegisterKeepsTypes ==
  ASSUME TypeInv, NEW c \in Callers, RegisterVC(c)
  PROVE  /\ TypeInv' /\ Len(creds') = Len(creds) + 1
         /\ \A i \in DOMAIN creds : creds'[i] = creds[i]
         /\ creds'[Len(creds) + 1] = [internal |-> "pending", chain |-> "active", serial |-> NoNft]
         /\ DOMAIN creds' = DOMAIN creds \cup {Len(creds) + 1}
         /\ Len(creds) + 1 \notin DOMAIN creds
         /\ call'[c].id = Len(creds) + 1
<1> DEFINE new == [internal |-> "pending", chain |-> "active", serial |-> NoNft]
           q == [call[c] EXCEPT !.id = Len(creds) + 1]
<1>1. new \in Credentials /\ new.serial = 0
  BY BoundsAreNat DEF Credentials, Internal, Chain, AllTargets, NoNft
<1>2. /\ Len(creds) \in Nat /\ DOMAIN creds = 1..Len(creds) /\ Len(nfts) \in Nat
      /\ Len(creds) < MaxCredentials /\ creds' = Append(creds, new)
      /\ vc' = Append(vc, "active") /\ UNCHANGED <<nfts, account, bounds>>
  BY StoreRanges, LenProperties DEF RegisterVC, TypeInv, StoreFits
<1> HIDE DEF new
<1>3. /\ creds' \in Seq(Credentials) /\ Len(creds') = Len(creds) + 1
      /\ \A i \in 1..Len(creds) : creds'[i] = creds[i]
      /\ creds'[Len(creds) + 1] = new
  BY <1>1, <1>2, AppendProperties DEF TypeInv, StoreFits
<1>4. vc' \in Seq(Chain) /\ Len(vc') = Len(creds')
  BY <1>2, <1>3, AppendProperties DEF TypeInv, StoreFits, Chain, AllTargets
<1>5. DOMAIN creds' = 1..Len(creds) + 1
  BY <1>2, <1>3, LenProperties
<1>6. StoreFits'
  <2>1. \A i \in DOMAIN creds' : creds'[i].serial <= Len(nfts')
    BY <1>1, <1>2, <1>3, <1>5 DEF TypeInv, StoreFits
  <2>2. Len(creds') <= MaxCredentials
    BY <1>2, <1>3, BoundsAreNat
  <2>3. QED
    BY <1>2, <1>3, <1>4, <2>1, <2>2 DEF TypeInv, StoreFits, Associated
<1>7. q \in CallData /\ q.id = Len(creds) + 1 /\ q.serial = call[c].serial
  <2>1. call[c] \in CallData /\ Len(creds) + 1 \in 0..MaxCredentials
    BY <1>2, CallRanges, BoundsAreNat
  <2>2. QED
    BY <2>1 DEF CallData
<1>8. /\ pc' = [pc EXCEPT ![c] = "mint"] /\ "mint" \in Steps
      /\ call' = [call EXCEPT ![c] = q]
  BY DEF RegisterVC, Go, Steps, Issuing
<1> HIDE DEF q
<1>9. /\ Len(creds) <= Len(creds') /\ Len(nfts) <= Len(nfts')
      /\ q.id <= Len(creds') /\ q.serial <= Len(nfts') /\ q.id # 0
  BY <1>2, <1>3, <1>7 DEF TypeInv, CallRefers
<1>10. TypeInv'
  BY <1>2, <1>6, <1>7, <1>8, <1>9, CallKeepsTypes
<1>11. call'[c] = q
  BY <1>8 DEF TypeInv
<1>12. QED
  BY <1>2, <1>3, <1>5, <1>7, <1>10, <1>11 DEF new

LEMMA MintKeepsTypes ==
  ASSUME TypeInv, NEW c \in Callers, MintNft(c)
  PROVE  /\ TypeInv' /\ Len(nfts') = Len(nfts) + 1
         /\ \A s \in DOMAIN nfts : nfts'[s] = nfts[s]
         /\ call'[c] = [call[c] EXCEPT !.serial = Len(nfts) + 1]
<1> DEFINE q == [call[c] EXCEPT !.serial = Len(nfts) + 1]
<1>1. /\ Len(nfts) \in Nat /\ DOMAIN nfts = 1..Len(nfts) /\ Len(creds) \in Nat
      /\ Len(nfts) < MaxSerials /\ nfts' = Append(nfts, "treasury")
      /\ UNCHANGED <<creds, vc, account, bounds>>
  BY StoreRanges, LenProperties DEF MintNft, TypeInv, StoreFits
<1>2. /\ nfts' \in Seq(Places) /\ Len(nfts') = Len(nfts) + 1
      /\ \A s \in 1..Len(nfts) : nfts'[s] = nfts[s]
      /\ nfts'[Len(nfts) + 1] = "treasury"
  BY <1>1, AppendProperties DEF TypeInv, StoreFits, Places
<1>3. DOMAIN nfts' = 1..Len(nfts) + 1
  BY <1>1, <1>2, LenProperties
<1>4. StoreFits'
  <2>1. \A i \in DOMAIN creds' : creds'[i].serial <= Len(nfts')
    <3>1. SUFFICES ASSUME NEW i \in DOMAIN creds PROVE creds[i].serial <= Len(nfts')
      BY <1>1
    <3>2. creds[i].serial \in Nat /\ creds[i].serial <= Len(nfts)
      BY StoreRanges, BoundsAreNat DEF TypeInv, StoreFits, Credentials
    <3>3. QED
      BY <1>1, <1>2, <3>2
  <2>2. \A s \in DOMAIN nfts' : nfts'[s] = "wallet" => Associated
    BY <1>1, <1>2, <1>3 DEF TypeInv, StoreFits
  <2>3. Len(nfts') <= MaxSerials
    BY <1>1, <1>2, BoundsAreNat
  <2>4. QED
    BY <1>1, <1>2, <2>1, <2>2, <2>3 DEF TypeInv, StoreFits, Associated
<1>5. q \in CallData /\ q.id = call[c].id /\ q.serial = Len(nfts) + 1
  <2>1. call[c] \in CallData /\ Len(nfts) + 1 \in 0..MaxSerials
    BY <1>1, CallRanges, BoundsAreNat
  <2>2. QED
    BY <2>1 DEF CallData
<1>6. /\ pc' = [pc EXCEPT ![c] = "saveMint"] /\ "saveMint" \in Steps /\ pc[c] = "mint"
      /\ call' = [call EXCEPT ![c] = q]
  BY DEF MintNft, Go, Steps, Issuing
<1>7. call'[c] = q
  BY <1>6 DEF TypeInv
<1>8. call[c].id <= Len(creds) /\ call[c].id # 0
  BY <1>6 DEF TypeInv, CallRefers, Issuing
<1>9. /\ Len(creds) <= Len(creds') /\ Len(nfts) <= Len(nfts')
      /\ q.id <= Len(creds') /\ q.serial <= Len(nfts') /\ q.id # 0
  BY <1>1, <1>2, <1>5, <1>8
<1>10. TypeInv'
  <2> HIDE DEF q
  <2>1. QED
    BY <1>1, <1>4, <1>5, <1>6, <1>9, CallKeepsTypes
<1>11. QED
  BY <1>1, <1>2, <1>7, <1>10

LEMMA AssociateFits == account \in Accounts => Associate \in Accounts /\ Associate.associated
BY DEF Associate, Associated, Accounts

\* A serial number whose place is known is that of an NFT.
LEMMA PlaceOfNft ==
  ASSUME TypeInv, NEW serial \in 0..Len(nfts), Place(serial) # "nowhere"
  PROVE  serial \in DOMAIN nfts /\ Place(serial) = nfts[serial]
<1>1. serial # 0 /\ DOMAIN nfts = 1..Len(nfts) /\ Len(nfts) \in Nat
  BY StoreRanges, LenProperties DEF Place, NoNft, TypeInv, StoreFits
<1>2. QED
  BY <1>1 DEF Place, NoNft

LEMMA LedgerStepsKeepTypes ==
  ASSUME TypeInv, NEW c \in Callers, TransferNft(c) \/ WipeNft(c)
  PROVE  TypeInv'
<1>1. PICK to \in Steps : pc' = [pc EXCEPT ![c] = to]
  BY DEF TransferNft, WipeNft, Go, Steps, Rest, Issuing, Changing
<1>2. pc[c] \notin Rest \cup {"register"} /\ UNCHANGED <<creds, vc, call, bounds>>
  BY DEF TransferNft, WipeNft, Go, Rest
<1>3. \/ UNCHANGED <<nfts, account>>
      \/ /\ call[c].serial \in DOMAIN nfts
         /\ \E p \in {"wallet", "wiped"} :
              /\ nfts' = [nfts EXCEPT ![call[c].serial] = p]
              /\ \/ account' = Associate
                 \/ p = "wiped" /\ account' = account
  BY CallRanges, PlaceOfNft DEF TransferNft, WipeNft
<1>4. account \in Accounts
  BY DEF TypeInv, StoreFits
<1>5. StoreFits' /\ Len(nfts') = Len(nfts)
  <2>1. CASE UNCHANGED <<nfts, account>>
    <3>1. StoreFits /\ UNCHANGED <<creds, vc, nfts>> /\ account' \in Accounts
      BY <1>2, <1>4, <2>1 DEF TypeInv
    <3>2. Associated => account'.associated
      BY <2>1 DEF Associated
    <3>3. Len(nfts') = Len(nfts)
      BY <3>1
    <3>4. QED
      BY <3>1, <3>2, <3>3, AccountChanged
  <2>2. CASE ~UNCHANGED <<nfts, account>>
    <3> PICK p \in {"wallet", "wiped"} :
          /\ call[c].serial \in DOMAIN nfts
          /\ nfts' = [nfts EXCEPT ![call[c].serial] = p]
          /\ \/ account' = Associate
             \/ p = "wiped" /\ account' = account
      BY <1>3, <2>2
    <3>1. account' \in Accounts /\ (account.associated \/ p = "wallet" => account'.associated)
      BY <1>4, AssociateFits
    <3>2. p \in Places
      BY DEF Places
    <3>3. QED
      BY <1>2, <3>1, <3>2, NftMoved DEF TypeInv
  <2>3. QED
    BY <2>1, <2>2
<1>6. QED
  BY <1>1, <1>2, <1>5, MoveKeepsTypes

LEMMA PutKeepsTypes ==
  ASSUME TypeInv, NEW c \in Callers, PutStatus(c)
  PROVE  /\ TypeInv'
         /\ vc'[call[c].id] = IF call[c].target = "expired" THEN "revoked" ELSE call[c].target
<1> DEFINE v == IF call[c].target = "expired" THEN "revoked" ELSE call[c].target
<1>1. /\ pc[c] \notin Rest \cup {"register"} /\ pc[c] \in (Issuing \cup Changing) \ {"register"}
      /\ UNCHANGED <<creds, nfts, account, call, bounds>>
      /\ pc' = [pc EXCEPT ![c] = "read"] /\ "read" \in Steps
      /\ vc' = [vc EXCEPT ![call[c].id] = v]
  BY DEF PutStatus, Go, Rest, Steps, Issuing, Changing
<1>2. call[c].id \in DOMAIN creds /\ call[c] \in CallData
  BY <1>1, CallRanges
<1>3. v \in Chain
  BY <1>2 DEF CallData, Chain, AllTargets
<1>4. call[c].id \in 1..Len(vc)
  BY <1>2, StoreRanges DEF TypeInv, StoreFits
<1> HIDE DEF v
<1>5. vc' \in Seq(Chain) /\ Len(vc') = Len(vc) /\ vc'[call[c].id] = v
  BY <1>1, <1>3, <1>4, ExceptSeq DEF TypeInv, StoreFits
<1>6. StoreFits'
  BY <1>1, <1>5 DEF TypeInv, StoreFits, Associated
<1>7. TypeInv'
  BY <1>1, <1>6, MoveKeepsTypes
<1>8. QED
  BY <1>5, <1>7 DEF v

LEMMA ReadKeepsTypes ==
  ASSUME TypeInv, NEW c \in Callers, ReadStatus(c)
  PROVE  TypeInv' /\ call'[c] = [call[c] EXCEPT !.chain = vc[call[c].id]]
<1> DEFINE q == [call[c] EXCEPT !.chain = vc[call[c].id]]
<1>1. /\ pc[c] = "read" /\ pc[c] \in (Issuing \cup Changing) \ {"register"}
      /\ UNCHANGED <<creds, vc, nfts, account, bounds>>
  BY DEF ReadStatus, Go, Issuing, Changing, ledger
<1>2. PICK to \in Steps : pc' = [pc EXCEPT ![c] = to]
  BY DEF ReadStatus, Go, Steps, Changing
<1>3. call[c].id \in DOMAIN creds /\ call[c] \in CallData /\ vc[call[c].id] \in Chain
  BY <1>1, CallRanges, StoreRanges DEF TypeInv
<1>4. q \in CallData /\ q.id = call[c].id /\ q.serial = call[c].serial
  BY <1>3 DEF CallData
<1>5. call' = [call EXCEPT ![c] = q]
  BY DEF ReadStatus
<1>6. call'[c] = q
  BY <1>5 DEF TypeInv
<1> HIDE DEF q
<1>7. Len(creds) \in Nat /\ Len(nfts) \in Nat /\ StoreFits'
  BY <1>1, LenProperties DEF TypeInv, StoreFits, Associated
<1>8. q.id <= Len(creds') /\ q.serial <= Len(nfts') /\ q.id # 0
  BY <1>1, <1>4 DEF TypeInv, CallRefers
<1>9. Len(creds) <= Len(creds') /\ Len(nfts) <= Len(nfts')
  BY <1>1, <1>7
<1>10. TypeInv'
  BY <1>1, <1>2, <1>4, <1>5, <1>7, <1>8, <1>9, CallKeepsTypes
<1>11. QED
  BY <1>6, <1>10 DEF q

\* The token endpoints take part in no call.
LEMMA TokenStepsKeepTypes ==
  ASSUME TypeInv,
         \/ \E serial \in 1..MaxSerials : SeizeNft(serial)
         \/ UnfreezeAccounts \/ AssociateToken \/ DissociateToken
  PROVE  TypeInv'
<1>1. UNCHANGED <<creds, vc, pc, call, declared, faults>> /\ operations' \in 0..MaxOperations
  BY BoundsAreNat DEF SeizeNft, UnfreezeAccounts, AssociateToken, DissociateToken, Operate, TypeInv
<1>2. account \in Accounts
  BY DEF TypeInv, StoreFits
<1>3. StoreFits' /\ Len(nfts') = Len(nfts)
  <2>1. ASSUME NEW serial \in 1..MaxSerials, SeizeNft(serial)
        PROVE  StoreFits' /\ Len(nfts') = Len(nfts)
    BY <1>2, <2>1, NftMoved DEF SeizeNft, TypeInv, Places
  <2>2. CASE UnfreezeAccounts \/ AssociateToken
    <3>1. account' \in Accounts /\ account'.associated
      <4>1. CASE UnfreezeAccounts
        BY <1>2, <4>1 DEF UnfreezeAccounts, Accounts, Associated
      <4>2. CASE AssociateToken
        BY <4>2 DEF AssociateToken, Accounts
      <4>3. QED
        BY <2>2, <4>1, <4>2
    <3>2. UNCHANGED <<creds, vc, nfts>>
      BY <2>2 DEF UnfreezeAccounts, AssociateToken
    <3>3. QED
      BY <3>1, <3>2, AccountChanged DEF TypeInv
  <2>3. CASE DissociateToken
    <3>1. account' \in Accounts
      BY <1>2, <2>3 DEF DissociateToken, Accounts
    <3>2. QED
      BY <2>3, <3>1, AccountChanged DEF TypeInv, DissociateToken
  <2>4. QED
    BY <2>1, <2>2, <2>3
<1>4. ASSUME NEW c \in Callers PROVE CallRefers(c)'
  BY <1>1, <1>3 DEF TypeInv, CallRefers
<1>5. QED
  BY <1>1, <1>3, <1>4 DEF TypeInv

LEMMA FaultsKeepTypes ==
  ASSUME TypeInv, (\E c \in Callers : CallFails(c)) \/ Crash
  PROVE  TypeInv'
<1>1. /\ UNCHANGED <<creds, vc, nfts, account, call, declared, operations>>
      /\ faults' \in 0..MaxFaults
  BY BoundsAreNat DEF CallFails, Crash, TypeInv, ledger
<1>2. /\ pc' \in [Callers -> Steps]
      /\ \A c \in Callers : pc'[c] = pc[c] \/ pc'[c] = "failed"
  BY DEF CallFails, Crash, TypeInv, Steps, Rest
<1>3. StoreFits'
  BY <1>1 DEF TypeInv, StoreFits, Associated
<1>4. ASSUME NEW c \in Callers PROVE CallRefers(c)'
  BY <1>1, <1>2 DEF TypeInv, CallRefers, Issuing, Changing
<1>5. QED
  BY <1>1, <1>2, <1>3, <1>4 DEF TypeInv

LEMMA TypeInvStep == TypeInv /\ [Next]_vars => TypeInv'
<1> SUFFICES ASSUME TypeInv, [Next]_vars PROVE TypeInv'
  OBVIOUS
<1>1. ASSUME NEW c \in Callers, IssueStep(c) PROVE TypeInv'
  BY <1>1, RegisterKeepsTypes, MintKeepsTypes, MintSaveKeepsTypes, AccountStepsKeepTypes,
     LedgerStepsKeepTypes, InternalStepsKeepTypes DEF IssueStep
<1>2. ASSUME NEW c \in Callers, ChangeStep(c) PROVE TypeInv'
  BY <1>2, PutKeepsTypes, ReadKeepsTypes, AccountStepsKeepTypes, LedgerStepsKeepTypes,
     InternalStepsKeepTypes, StatusSaveKeepsTypes DEF ChangeStep
<1>3. CASE UNCHANGED vars
  <2>1. StoreFits'
    BY <1>3 DEF vars, TypeInv, StoreFits, Associated
  <2>2. ASSUME NEW c \in Callers PROVE CallRefers(c)'
    BY <1>3 DEF vars, TypeInv, CallRefers
  <2>3. QED
    BY <1>3, <2>1, <2>2 DEF vars, TypeInv
<1>4. QED
  BY <1>1, <1>2, <1>3, FindKeepsTypes, FindByIdKeepsTypes, TokenStepsKeepTypes,
     FaultsKeepTypes DEF Next

LEMMA TypesAlways == Spec => []TypeInv
BY TypeInvInit, TypeInvStep, PTL DEF Spec

\* Documents, NFTs and calls keep their shapes, and every document has a VC on the
\* ledger, however many calls run at once and wherever they fail.
THEOREM TypeCorrect == Spec => []TypeOK
BY TypesAlways, TypesFollow, PTL

--------------------------------------------------------------------------------
(* What the documents, the NFTs and a call have to do with each other while *)
(* calls do not overlap.                                                     *)

\* One document at most is unfinished or active without a status change having said so.
AtMostOneOpen == \A i, j \in OpenCredentials \ declared : i = j

\* What the documents say by themselves.
DocumentsInv ==
  /\ \A i \in DOMAIN creds : creds[i].internal = "pending" => creds[i].serial = NoNft
  /\ \A i, j \in DOMAIN creds :
       creds[i].serial = creds[j].serial /\ creds[i].serial # NoNft => i = j
  /\ \A i \in DOMAIN creds :
       creds[i].chain = "active" => i \in OpenCredentials \/ creds[i].internal = "burned"
  /\ \A i \in DOMAIN creds : creds[i].internal = "burned" => Place(creds[i].serial) = "wiped"

\* The NFT is where a delivered or active credential needs it, or is wiped after a fault.
Held(serial) ==
  \/ Place(serial) \in {"wallet", "seized"}
  \/ Place(serial) = "wiped" /\ faults > 0

\* A revocation has wiped the NFT and has yet to say so.
Revoking(i) ==
  \E c \in Callers : pc[c] \in {"saveBurned", "saveStatus"} /\ call[c].id = i

Backed(i) ==
  creds[i].internal = "delivered" \/ (creds[i].internal = "active" /\ i \notin declared) =>
    \/ Held(creds[i].serial)
    \/ Place(creds[i].serial) = "wiped" /\ Revoking(i)

OneAtATime == \A c, d \in Running : c = d

\* What a call that issues has found or done so far.
IssueFits(c) ==
  LET id == call[c].id IN
    /\ pc[c] = "register" => OpenCredentials = {}
    /\ pc[c] \in Issuing \ {"register"} => id \in OpenCredentials
    /\ pc[c] \in {"mint", "saveMint"} => creds[id].internal = "pending"
    /\ pc[c] = "saveMint" =>
         /\ call[c].serial # NoNft
         /\ \A i \in DOMAIN creds : creds[i].serial # call[c].serial
    /\ pc[c] \in Issuing \ {"register", "mint", "saveMint"} =>
         creds[id].serial = call[c].serial
    /\ pc[c] = "saveDelivered" => Place(call[c].serial) \in {"wallet", "seized"}
    /\ pc[c] \in {"freeze", "saveActive"} => Held(call[c].serial)

\* What a revocation leaves the account as, with what may befall it since.
Closed == {"FROZEN", "released"} \cup (IF OtherWallets THEN {"missed"} ELSE {})

\* What a call that changes a status has done so far.
ChangeFits(c) ==
  LET id == call[c].id IN
    /\ pc[c] \in Changing => /\ call[c].target \in Targets
                             /\ creds[id].serial = call[c].serial
    /\ pc[c] \in Changing \ {"put"} /\ ~call[c].wipeOnly =>
         vc[id] = IF call[c].target = "expired" THEN "revoked" ELSE call[c].target
    /\ pc[c] \in Changing \ {"put", "read"} /\ ~call[c].wipeOnly => call[c].chain = vc[id]
    /\ pc[c] \in {"thaw", "wipe", "saveBurned", "refreeze", "saveFrozen"} =>
         call[c].target = "revoked"
    /\ pc[c] = "saveBurned" =>
         Place(call[c].serial) = "wiped" /\ creds[id].internal # "burned"
    /\ pc[c] \in {"refreeze", "saveFrozen"} =>
         /\ creds[id].internal = "burned"
         /\ creds[id].chain = "active" => id \in declared \/ OpenCredentials \subseteq declared
    /\ pc[c] \in {"saveFrozen", "saveStatus"} /\ call[c].target = "revoked" =>
         Place(call[c].serial) = "wiped" /\ account.freeze \in Closed

IssueInv ==
  /\ TypeInv
  /\ OneAtATime
  /\ AtMostOneOpen
  /\ DocumentsInv
  /\ \A i \in DOMAIN creds : Backed(i)
  /\ \A c \in Callers : IssueFits(c) /\ ChangeFits(c)

LEMMA IssueInvInit == Init => IssueInv
<1> SUFFICES ASSUME Init PROVE IssueInv
  OBVIOUS
<1>1. TypeInv
  BY TypeInvInit
<1>2. DOMAIN creds = {} /\ OpenCredentials = {}
  <2>1. DOMAIN creds = 1..Len(creds) /\ Len(creds) = 0
    BY <1>1, StoreRanges, EmptySeq DEF Init, TypeInv
  <2>2. DOMAIN creds = {}
    BY <2>1
  <2>3. QED
    BY <2>2 DEF OpenCredentials
<1>3. \A c \in Callers : pc[c] = "rest"
  BY DEF Init
<1>4. QED
  BY <1>1, <1>2, <1>3 DEF IssueInv, OneAtATime, Running, AtMostOneOpen, DocumentsInv,
    IssueFits, ChangeFits, Rest, Issuing, Changing

\* A call at rest has nothing to keep.
LEMMA RestFits ==
  ASSUME NEW c \in Callers, pc'[c] \in Rest
  PROVE  IssueFits(c)' /\ ChangeFits(c)'
BY DEF IssueFits, ChangeFits, Rest, Issuing, Changing

\* While a call starts or runs the others are at rest, and stay there.
LEMMA Alone ==
  ASSUME TypeInv, OneAtATime, NEW c \in Callers, pc[c] \notin Rest \/ Running = {},
         NEW to \in Steps, pc' = [pc EXCEPT ![c] = to]
  PROVE  /\ OneAtATime' /\ pc'[c] = to
         /\ \A d \in Callers : d # c => pc[d] \in Rest /\ pc'[d] = pc[d]
         /\ \A d \in Callers : d # c => IssueFits(d)' /\ ChangeFits(d)'
<1>1. \A d \in Callers : pc'[d] = IF d = c THEN to ELSE pc[d]
  BY DEF TypeInv
<1>2. \A d \in Callers : d # c => pc[d] \in Rest
  BY DEF OneAtATime, Running
<1>3. OneAtATime'
  BY <1>1, <1>2 DEF OneAtATime, Running
<1>4. QED
  BY <1>1, <1>2, <1>3, RestFits

\* Where no revocation is in progress, what is delivered or active has its NFT.
LEMMA HeldNow ==
  ASSUME IssueInv, NEW i \in DOMAIN creds, ~Revoking(i),
         creds[i].internal = "delivered" \/ (creds[i].internal = "active" /\ i \notin declared)
  PROVE  Held(creds[i].serial)
BY DEF IssueInv, Backed

\* The documents and NFTs are left alone by a call that does not revoke.
LEMMA QuietStep ==
  ASSUME IssueInv, TypeInv', NEW c \in Callers, NEW to \in Steps,
         pc[c] \notin Rest \/ Running = {}, pc[c] \notin {"saveBurned", "saveStatus"},
         pc' = [pc EXCEPT ![c] = to], UNCHANGED <<creds, nfts, declared, faults>>,
         IssueFits(c)', ChangeFits(c)'
  PROVE  IssueInv'
<1>1. /\ OneAtATime'
      /\ \A d \in Callers : d # c => pc[d] \in Rest
      /\ \A d \in Callers : IssueFits(d)' /\ ChangeFits(d)'
  BY Alone DEF IssueInv
<1>2. OpenCredentials' = OpenCredentials
  BY DEF OpenCredentials
<1>3. \A s : Place(s)' = Place(s) /\ Held(s)' = Held(s)
  BY DEF Place, Held
<1>4. ASSUME NEW i \in DOMAIN creds PROVE Backed(i)'
  <2>1. ~Revoking(i)
    BY <1>1 DEF Revoking, Rest
  <2>2. QED
    BY <1>3, <2>1, HeldNow DEF Backed
<1>5. AtMostOneOpen' /\ DocumentsInv'
  BY <1>2, <1>3 DEF IssueInv, AtMostOneOpen, DocumentsInv
<1>6. QED
  BY <1>1, <1>4, <1>5 DEF IssueInv

\* One document is saved.
LEMMA SavedStep ==
  ASSUME IssueInv, TypeInv', NEW c \in Callers, NEW to \in Steps, NEW i \in DOMAIN creds,
         NEW d \in Credentials, d.serial <= Len(nfts),
         pc[c] \notin Rest, i = call[c].id,
         pc' = [pc EXCEPT ![c] = to], creds' = [creds EXCEPT ![i] = d],
         UNCHANGED <<ledger, faults>>, call'[c].id = i,
         declared' = declared \/ declared' = declared \cup {i},
         d.internal # "pending",
         d.serial # NoNft => \A j \in DOMAIN creds : j # i => creds[j].serial # d.serial,
         d.chain = "active" => d.internal \in {"minted", "delivered", "active", "burned"},
         d.internal = "burned" => Place(d.serial) = "wiped",
         d.chain = "active" /\ d.internal # "burned" =>
           i \in OpenCredentials \cup declared' \/ OpenCredentials \subseteq declared,
         d.internal = "delivered" \/ (d.internal = "active" /\ i \notin declared') =>
           Held(d.serial) \/ (Place(d.serial) = "wiped" /\ to = "saveStatus"),
         IssueFits(c)', ChangeFits(c)'
  PROVE  IssueInv'
<1>1. /\ OneAtATime' /\ pc'[c] = to
      /\ \A e \in Callers : e # c => pc[e] \in Rest /\ pc'[e] = pc[e]
      /\ \A e \in Callers : IssueFits(e)' /\ ChangeFits(e)'
  BY Alone DEF IssueInv
<1>2. /\ DOMAIN creds' = DOMAIN creds
      /\ \A j \in DOMAIN creds : creds'[j] = IF j = i THEN d ELSE creds[j]
  BY DocumentSaved DEF IssueInv, TypeInv, ledger
<1>3. \A s : Place(s)' = Place(s) /\ Held(s)' = Held(s)
  BY DEF Place, Held, ledger
<1>4. \A j \in DOMAIN creds : j # i => (j \in OpenCredentials' <=> j \in OpenCredentials)
  BY <1>2 DEF OpenCredentials
<1>5. i \in OpenCredentials' <=> d.chain = "active" /\ d.internal # "burned"
  BY <1>2 DEF OpenCredentials
<1>6. AtMostOneOpen'
  <2>1. OpenCredentials' \subseteq DOMAIN creds
    BY <1>2 DEF OpenCredentials
  <2>2. QED
    BY <1>4, <1>5, <2>1 DEF IssueInv, AtMostOneOpen
<1>7. DocumentsInv'
  <2>1. \A j \in DOMAIN creds : creds'[j].internal = "pending" => creds'[j].serial = NoNft
    BY <1>2 DEF IssueInv, DocumentsInv
  <2>2. \A j, k \in DOMAIN creds :
          creds'[j].serial = creds'[k].serial /\ creds'[j].serial # NoNft => j = k
    BY <1>2 DEF IssueInv, DocumentsInv
  <2>3. \A j \in DOMAIN creds :
          creds'[j].chain = "active" => j \in OpenCredentials' \/ creds'[j].internal = "burned"
    BY <1>2, <1>4, <1>5 DEF IssueInv, DocumentsInv
  <2>4. (\A j \in DOMAIN creds : creds[j].internal = "burned" => Place(creds[j].serial) = "wiped")'
    BY <1>2 DEF IssueInv, DocumentsInv, Place, ledger
  <2>5. QED
    BY <1>2, <2>1, <2>2, <2>3, <2>4 DEF DocumentsInv
<1>8. ASSUME NEW j \in DOMAIN creds PROVE Backed(j)'
  <2>1. CASE j = i
    <3>1. creds'[j] = d /\ (to = "saveStatus" => Revoking(j)')
      BY <1>1, <1>2, <2>1 DEF Revoking
    <3>2. QED
      BY <1>3, <2>1, <3>1 DEF Backed
  <2>2. CASE j # i
    <3>1. /\ ~Revoking(j) /\ creds'[j] = creds[j]
          /\ j \in declared' <=> j \in declared
      BY <1>1, <1>2, <2>2 DEF Revoking, Rest
    <3>2. QED
      BY <1>3, <3>1, HeldNow DEF Backed
  <2>3. QED
    BY <2>1, <2>2
<1>9. QED
  BY <1>1, <1>2, <1>6, <1>7, <1>8 DEF IssueInv

--------------------------------------------------------------------------------
(* Every step of a call keeps what the calls rely on. *)

\* What a running call of the invariant has at hand.
LEMMA RunningCall ==
  ASSUME IssueInv, NEW c \in Callers, pc[c] \in (Issuing \cup Changing) \ {"register"}
  PROVE  /\ pc[c] \notin Rest /\ IssueFits(c) /\ ChangeFits(c)
         /\ call[c] \in CallData /\ call[c].id \in DOMAIN creds
         /\ creds[call[c].id] \in Credentials /\ creds[call[c].id].serial <= Len(nfts)
         /\ Backed(call[c].id)
<1>1. pc[c] \notin Rest
  BY DEF Rest, Issuing, Changing
<1>2. call[c] \in CallData /\ call[c].id \in DOMAIN creds
  BY CallRanges DEF IssueInv
<1>3. QED
  BY <1>1, <1>2, StoreRanges DEF IssueInv, TypeInv, StoreFits

LEMMA AccountStepsKeepInv ==
  ASSUME IssueInv, TypeInv', NEW c \in Callers,
         \/ UnfreezeNft(c) \/ Thaw(c) \/ FreezeNft(c) \/ Refreeze(c) \/ AssociateNft(c) \/ CheckNft(c)
  PROVE  IssueInv'
<1>1. PICK to \in Steps : pc' = [pc EXCEPT ![c] = to]
  BY DEF UnfreezeNft, Thaw, UnfreezeAccount, FreezeNft, Refreeze, FreezeAccount, AssociateNft,
    CheckNft, Go, Steps, Rest, Issuing, Changing
<1>2. /\ pc[c] \in (Issuing \cup Changing) \ {"register"}
      /\ pc[c] \notin Rest \cup {"saveBurned", "saveStatus"}
      /\ UNCHANGED <<creds, vc, nfts, call, bounds>>
  BY DEF UnfreezeNft, Thaw, UnfreezeAccount, FreezeNft, Refreeze, FreezeAccount, AssociateNft,
    CheckNft, Go, Rest, Issuing, Changing, ledger
<1>3. /\ IssueFits(c) /\ ChangeFits(c) /\ call[c].id \in DOMAIN creds
  BY <1>2, RunningCall
<1>4. pc'[c] = to
  BY <1>1 DEF IssueInv, TypeInv
<1>5. OpenCredentials' = OpenCredentials
  BY <1>2 DEF OpenCredentials
<1>6. \/ pc[c] = "unfreeze" /\ to = "check"
      \/ pc[c] = "thaw" /\ to = "wipe"
      \/ pc[c] = "freeze" /\ to = "saveActive"
      \/ pc[c] = "refreeze" /\ to = "saveFrozen" /\ account'.freeze \in Closed
      \/ pc[c] = "associate" /\ to = "transfer"
      \/ /\ pc[c] = "check"
         /\ \/ to \in {"associate", "transfer"}
            \/ to = "saveDelivered" /\ Place(call[c].serial) = "wallet"
      \/ to = "failed"
  <2>1. account \in Accounts
    BY DEF IssueInv, TypeInv, StoreFits
  <2>2. pc'[c] = to
    BY <1>4
  <2>3. pc \in [Callers -> Steps]
    BY DEF IssueInv, TypeInv
  <2>4. CASE UnfreezeNft(c) \/ Thaw(c)
    BY <2>2, <2>3, <2>4 DEF UnfreezeNft, Thaw, UnfreezeAccount, Go
  <2>5. CASE FreezeNft(c) \/ Refreeze(c)
    BY <2>1, <2>2, <2>3, <2>5 DEF FreezeNft, Refreeze, FreezeAccount, Go, Accounts, Frozen, Closed
  <2>6. CASE AssociateNft(c) \/ CheckNft(c)
    BY <2>2, <2>3, <2>6 DEF AssociateNft, CheckNft, Go
  <2>7. QED
    BY <2>4, <2>5, <2>6
<1>7. IssueFits(c)' /\ ChangeFits(c)'
  <2>1. CASE pc[c] = "unfreeze" /\ to = "check"
    BY <1>2, <1>3, <1>4, <1>5, <2>1 DEF IssueFits, ChangeFits, Issuing, Changing, bounds
  <2>2. CASE pc[c] = "thaw" /\ to = "wipe"
    BY <1>2, <1>3, <1>4, <1>5, <2>2 DEF IssueFits, ChangeFits, Issuing, Changing, bounds
  <2>3. CASE pc[c] = "freeze" /\ to = "saveActive"
    BY <1>2, <1>3, <1>4, <1>5, <2>3
       DEF IssueFits, ChangeFits, Issuing, Changing, Held, Place, bounds
  <2>4. CASE pc[c] = "refreeze" /\ to = "saveFrozen" /\ account'.freeze \in Closed
    <3>1. Place(call[c].serial) = "wiped"
      BY <1>3, <2>4 DEF IssueInv, DocumentsInv, ChangeFits, Changing
    <3>2. QED
      BY <1>2, <1>3, <1>4, <1>5, <2>4, <3>1
         DEF IssueFits, ChangeFits, Issuing, Changing, Place, Closed, bounds
  <2>5. CASE pc[c] = "associate" /\ to = "transfer"
    BY <1>2, <1>3, <1>4, <1>5, <2>5 DEF IssueFits, ChangeFits, Issuing, Changing
  <2>6. CASE /\ pc[c] = "check"
              /\ \/ to \in {"associate", "transfer"}
                 \/ to = "saveDelivered" /\ Place(call[c].serial) = "wallet"
    BY <1>2, <1>3, <1>4, <1>5, <2>6 DEF IssueFits, ChangeFits, Issuing, Changing, Place
  <2>7. CASE to = "failed"
    BY <1>4, <2>7, RestFits DEF Rest
  <2>8. QED
    BY <1>6, <2>1, <2>2, <2>3, <2>4, <2>5, <2>6, <2>7
<1>8. QED
  BY <1>1, <1>2, <1>7, QuietStep DEF bounds

\* The status list is changed and read back.
LEMMA StatusStepsKeepInv ==
  ASSUME IssueInv, TypeInv', NEW c \in Callers, PutStatus(c) \/ ReadStatus(c)
  PROVE  IssueInv'
<1>1. CASE PutStatus(c)
  <2>1. /\ pc[c] = "put" /\ pc[c] \notin Rest \cup {"saveBurned", "saveStatus"}
        /\ pc[c] \in (Issuing \cup Changing) \ {"register"}
        /\ UNCHANGED <<creds, nfts, account, call, bounds>>
        /\ pc' = [pc EXCEPT ![c] = "read"] /\ "read" \in Steps
    BY <1>1 DEF PutStatus, Go, Rest, Steps, Issuing, Changing
  <2>2. vc'[call[c].id] = IF call[c].target = "expired" THEN "revoked" ELSE call[c].target
    BY <1>1, PutKeepsTypes DEF IssueInv
  <2>3. ChangeFits(c) /\ call[c].target \in Targets
    BY <2>1, RunningCall DEF ChangeFits, Changing
  <2>5. pc'[c] = "read"
    BY <2>1 DEF IssueInv, TypeInv
  <2>6. IssueFits(c)' /\ ChangeFits(c)'
    BY <2>1, <2>2, <2>3, <2>5 DEF IssueFits, ChangeFits, Issuing, Changing
  <2>7. QED
    BY <2>1, <2>6, QuietStep DEF bounds
<1>2. CASE ReadStatus(c)
  <2> DEFINE to == IF call[c].target = "revoked" THEN "thaw" ELSE "saveStatus"
  <2>1. /\ pc[c] = "read" /\ pc[c] \notin Rest \cup {"saveBurned", "saveStatus"}
        /\ pc[c] \in (Issuing \cup Changing) \ {"register"}
        /\ UNCHANGED <<creds, vc, nfts, account, bounds>>
        /\ pc' = [pc EXCEPT ![c] = to] /\ to \in Steps
    BY <1>2 DEF ReadStatus, Go, Rest, Steps, Issuing, Changing, ledger
  <2>2. call'[c] = [call[c] EXCEPT !.chain = vc[call[c].id]] /\ call[c] \in CallData
    BY <1>2, <2>1, RunningCall, ReadKeepsTypes DEF IssueInv
  <2>3. /\ call'[c].id = call[c].id /\ call'[c].serial = call[c].serial
        /\ call'[c].target = call[c].target /\ call'[c].wipeOnly = call[c].wipeOnly
        /\ call'[c].chain = vc[call[c].id]
    BY <2>2 DEF CallData
  <2>4. ChangeFits(c)
    BY <2>1, RunningCall
  <2>5. pc'[c] = to
    BY <2>1 DEF IssueInv, TypeInv
  <2>6. IssueFits(c)' /\ ChangeFits(c)'
    BY <2>1, <2>3, <2>4, <2>5 DEF IssueFits, ChangeFits, Issuing, Changing
  <2> HIDE DEF to
  <2>7. QED
    BY <2>1, <2>6, QuietStep DEF bounds
<1>3. QED
  BY <1>1, <1>2

\* A new document is the only open one: the search has found none.
LEMMA RegisterKeepsInv ==
  ASSUME IssueInv, NEW c \in Callers, RegisterVC(c)
  PROVE  IssueInv'
<1> DEFINE n == Len(creds) + 1
           new == [internal |-> "pending", chain |-> "active", serial |-> NoNft]
<1>0. /\ TypeInv' /\ DOMAIN creds' = DOMAIN creds \cup {n} /\ n \notin DOMAIN creds
      /\ \A i \in DOMAIN creds : creds'[i] = creds[i]
      /\ creds'[n] = new /\ call'[c].id = n
  <2>1. TypeInv
    BY DEF IssueInv
  <2>2. QED
    BY <2>1, RegisterKeepsTypes
<1> HIDE DEF n
<1>1. /\ TypeInv' /\ DOMAIN creds' = DOMAIN creds \cup {n} /\ n \notin DOMAIN creds
      /\ \A i \in DOMAIN creds : creds'[i] = creds[i]
      /\ creds'[n].internal = "pending" /\ creds'[n].chain = "active"
      /\ creds'[n].serial = NoNft /\ call'[c].id = n
  BY <1>0
<1>2. /\ pc[c] = "register" /\ pc[c] \notin Rest /\ pc' = [pc EXCEPT ![c] = "mint"]
      /\ "mint" \in Steps /\ UNCHANGED <<nfts, bounds>>
  BY DEF RegisterVC, Go, Rest, Steps, Issuing
<1>3. OpenCredentials = {}
  BY <1>2 DEF IssueInv, IssueFits
<1>4. OpenCredentials' = {n}
  <2>1. n \in OpenCredentials'
    BY <1>1 DEF OpenCredentials
  <2>2. \A i \in DOMAIN creds : i \notin OpenCredentials'
    BY <1>1, <1>3 DEF OpenCredentials
  <2>3. OpenCredentials' \subseteq DOMAIN creds'
    BY DEF OpenCredentials
  <2>4. QED
    BY <1>1, <2>1, <2>2, <2>3
<1>5. /\ OneAtATime' /\ pc'[c] = "mint"
      /\ \A d \in Callers : d # c => pc[d] \in Rest
      /\ \A d \in Callers : d # c => IssueFits(d)' /\ ChangeFits(d)'
  BY <1>2, Alone DEF IssueInv
<1>6. IssueFits(c)' /\ ChangeFits(c)'
  BY <1>1, <1>4, <1>5 DEF IssueFits, ChangeFits, Issuing, Changing
<1>7. DocumentsInv'
  <2>1. (\A i \in DOMAIN creds : creds[i].internal = "pending" => creds[i].serial = NoNft)'
    BY <1>1 DEF IssueInv, DocumentsInv
  <2>2. (\A i, j \in DOMAIN creds :
           creds[i].serial = creds[j].serial /\ creds[i].serial # NoNft => i = j)'
    BY <1>1 DEF IssueInv, DocumentsInv
  <2>3. (\A i \in DOMAIN creds :
           creds[i].chain = "active" => i \in OpenCredentials \/ creds[i].internal = "burned")'
    BY <1>1, <1>3, <1>4 DEF IssueInv, DocumentsInv
  <2>4. (\A i \in DOMAIN creds : creds[i].internal = "burned" => Place(creds[i].serial) = "wiped")'
    BY <1>1, <1>2 DEF IssueInv, DocumentsInv, Place
  <2>5. QED
    BY <2>1, <2>2, <2>3, <2>4 DEF DocumentsInv
<1>8. ASSUME NEW i \in DOMAIN creds' PROVE Backed(i)'
  <2>1. CASE i = n
    BY <1>1, <2>1 DEF Backed
  <2>2. CASE i # n
    <3>1. /\ i \in DOMAIN creds /\ creds'[i] = creds[i] /\ ~Revoking(i)
          /\ declared' = declared
      BY <1>1, <1>2, <1>5, <2>2 DEF Revoking, Rest, bounds
    <3>2. \A t : Held(t) => Held(t)'
      BY <1>2 DEF Held, Place, bounds
    <3>3. QED
      BY <3>1, <3>2, HeldNow DEF Backed
  <2>3. QED
    BY <2>1, <2>2
<1>9. AtMostOneOpen'
  BY <1>4 DEF AtMostOneOpen
<1>10. QED
  BY <1>1, <1>5, <1>6, <1>7, <1>8, <1>9 DEF IssueInv

\* A minted NFT is that of no document yet.
LEMMA MintKeepsInv ==
  ASSUME IssueInv, NEW c \in Callers, MintNft(c)
  PROVE  IssueInv'
<1>1. TypeInv
  BY DEF IssueInv
<1>2. /\ TypeInv' /\ Len(nfts') = Len(nfts) + 1
      /\ \A s \in DOMAIN nfts : nfts'[s] = nfts[s]
      /\ call'[c] = [call[c] EXCEPT !.serial = Len(nfts) + 1]
  BY <1>1, MintKeepsTypes
<1>3. /\ pc[c] = "mint" /\ pc[c] \notin Rest /\ pc' = [pc EXCEPT ![c] = "saveMint"]
      /\ pc[c] \in (Issuing \cup Changing) \ {"register"}
      /\ "saveMint" \in Steps /\ UNCHANGED <<creds, vc, account, bounds>>
  BY DEF MintNft, Go, Rest, Steps, Issuing
<1>4. /\ OneAtATime' /\ pc'[c] = "saveMint"
      /\ \A d \in Callers : d # c => pc[d] \in Rest
      /\ \A d \in Callers : d # c => IssueFits(d)' /\ ChangeFits(d)'
  BY <1>3, Alone DEF IssueInv
<1>5. Len(nfts) \in Nat /\ DOMAIN nfts = 1..Len(nfts)
  BY <1>1, StoreRanges, LenProperties DEF TypeInv, StoreFits
<1>6. \A i \in DOMAIN creds : creds[i].serial \in Nat /\ creds[i].serial <= Len(nfts)
  BY <1>1, StoreRanges, BoundsAreNat DEF TypeInv, StoreFits, Credentials
<1>7. ASSUME NEW i \in DOMAIN creds
      PROVE  /\ Place(creds[i].serial)' = Place(creds[i].serial)
             /\ Held(creds[i].serial) => Held(creds[i].serial)'
  <2>1. (IF creds[i].serial = 0 THEN "nowhere" ELSE nfts'[creds[i].serial])
          = Place(creds[i].serial)
    BY <1>2, <1>5, <1>6 DEF Place, NoNft
  <2>2. QED
    BY <1>3, <2>1 DEF Held, Place, NoNft, bounds
<1>8. call'[c].id = call[c].id /\ call'[c].serial = Len(nfts) + 1
  BY <1>2, <1>3, RunningCall DEF CallData
<1>9. IssueFits(c)' /\ ChangeFits(c)'
  <2>1. IssueFits(c)
    BY <1>3, RunningCall
  <2>2. OpenCredentials' = OpenCredentials
    BY <1>3 DEF OpenCredentials
  <2>3. call'[c].serial # NoNft /\ \A i \in DOMAIN creds : creds[i].serial # call'[c].serial
    BY <1>5, <1>6, <1>8 DEF NoNft
  <2>4. QED
    BY <1>3, <1>4, <1>8, <2>1, <2>2, <2>3 DEF IssueFits, ChangeFits, Issuing, Changing
<1>10. AtMostOneOpen' /\ DocumentsInv'
  <2>1. OpenCredentials' = OpenCredentials
    BY <1>3 DEF OpenCredentials
  <2>2. QED
    BY <1>3, <1>7, <2>1 DEF IssueInv, AtMostOneOpen, DocumentsInv, bounds
<1>11. ASSUME NEW i \in DOMAIN creds PROVE Backed(i)'
  <2>1. ~Revoking(i)
    BY <1>3, <1>4 DEF Revoking, Rest
  <2>2. QED
    BY <1>3, <1>7, <2>1, HeldNow DEF Backed, bounds
<1>12. QED
  BY <1>2, <1>3, <1>4, <1>9, <1>10, <1>11 DEF IssueInv

\* An NFT that was not wiped changes hands.
LEMMA NftStep ==
  ASSUME IssueInv, NEW s \in DOMAIN nfts, NEW p \in {"wallet", "seized", "wiped"},
         nfts[s] # "wiped", nfts' = [nfts EXCEPT ![s] = p], UNCHANGED <<creds, declared, faults>>,
         \A i \in DOMAIN creds : Revoking(i) => Revoking(i)',
         p = "wiped" => \A i \in DOMAIN creds : creds[i].serial = s => Revoking(i)'
  PROVE  /\ AtMostOneOpen' /\ DocumentsInv' /\ OpenCredentials' = OpenCredentials
         /\ \A i \in DOMAIN creds : Backed(i)'
         /\ \A t \in 0..Len(nfts) : Place(t)' = IF t = s THEN p ELSE Place(t)
<1>1. s # 0 /\ Len(nfts) \in Nat /\ DOMAIN nfts = 1..Len(nfts) /\ Place(s) # "wiped"
  BY StoreRanges, LenProperties DEF IssueInv, TypeInv, StoreFits, Place, NoNft
<1>2. \A i \in DOMAIN creds : creds[i].serial \in 0..Len(nfts)
  BY StoreRanges, BoundsAreNat, <1>1 DEF IssueInv, TypeInv, StoreFits, Credentials
<1>3. \A t \in 0..Len(nfts) : Place(t)' = IF t = s THEN p ELSE Place(t)
  BY <1>1 DEF Place, NoNft
<1>4. OpenCredentials' = OpenCredentials
  BY DEF OpenCredentials
<1>5. \A i \in DOMAIN creds :
        Place(creds[i].serial)' = IF creds[i].serial = s THEN p ELSE Place(creds[i].serial)
  <2>1. SUFFICES ASSUME NEW i \in DOMAIN creds
                 PROVE  (IF creds[i].serial = NoNft THEN "nowhere" ELSE nfts'[creds[i].serial])
                          = IF creds[i].serial = s THEN p ELSE Place(creds[i].serial)
    BY DEF Place
  <2>2. creds[i].serial \in 0..Len(nfts)
    BY <1>2
  <2>3. QED
    BY <1>1, <2>2 DEF Place, NoNft
<1>6. AtMostOneOpen' /\ DocumentsInv'
  BY <1>1, <1>4, <1>5 DEF IssueInv, AtMostOneOpen, DocumentsInv
<1>7. ASSUME NEW i \in DOMAIN creds PROVE Backed(i)'
  BY <1>5, <1>7 DEF IssueInv, Backed, Held
<1>8. QED
  BY <1>3, <1>4, <1>6, <1>7

\* The transfer and the wipe of a call.
LEMMA LedgerStepsKeepInv ==
  ASSUME IssueInv, TypeInv', NEW c \in Callers, TransferNft(c) \/ WipeNft(c)
  PROVE  IssueInv'
<1>1. /\ pc[c] \in {"transfer", "wipe"} /\ pc[c] \in (Issuing \cup Changing) \ {"register"}
      /\ pc[c] \notin Rest /\ pc[c] \notin {"saveBurned", "saveStatus"}
      /\ UNCHANGED <<creds, vc, call, bounds>>
  BY DEF TransferNft, WipeNft, Go, Rest, Issuing, Changing
<1>2. PICK to \in {"failed", "saveDelivered", "saveBurned"} :
        /\ pc' = [pc EXCEPT ![c] = to]
        /\ to = "failed" => UNCHANGED nfts
        /\ to # "failed" => Place(call[c].serial) \in {"treasury", "wallet"}
        /\ to = "saveDelivered" => /\ pc[c] = "transfer"
                                   /\ nfts' = [nfts EXCEPT ![call[c].serial] = "wallet"]
        /\ to = "saveBurned" => /\ pc[c] = "wipe"
                                /\ nfts' = [nfts EXCEPT ![call[c].serial] = "wiped"]
  BY DEF TransferNft, WipeNft, Go
<1>3. to \in Steps /\ pc'[c] = to
  BY <1>2 DEF Steps, Rest, Issuing, Changing, IssueInv, TypeInv
<1>4. CASE to = "failed"
  <2>1. IssueFits(c)' /\ ChangeFits(c)'
    BY <1>3, <1>4, RestFits DEF Rest
  <2>2. QED
    BY <1>1, <1>2, <1>3, <1>4, <2>1, QuietStep DEF bounds
<1>5. CASE to # "failed"
  <2> DEFINE s == call[c].serial
             p == IF to = "saveDelivered" THEN "wallet" ELSE "wiped"
  <2>1. /\ IssueFits(c) /\ ChangeFits(c) /\ call[c].id \in DOMAIN creds
    BY <1>1, RunningCall
  <2>2. s \in DOMAIN nfts /\ nfts[s] # "wiped" /\ s \in 0..Len(nfts) /\ s # NoNft
    <3>1. s \in 0..Len(nfts)
      BY CallRanges DEF IssueInv
    <3>2. QED
      BY <1>2, <1>5, <3>1, PlaceOfNft DEF IssueInv, Place
  <2>3. p \in {"wallet", "seized", "wiped"} /\ nfts' = [nfts EXCEPT ![s] = p]
    BY <1>2, <1>5
  <2>4. /\ OneAtATime' /\ \A d \in Callers : d # c => pc[d] \in Rest
        /\ \A d \in Callers : d # c => IssueFits(d)' /\ ChangeFits(d)'
    BY <1>1, <1>2, <1>3, Alone DEF IssueInv
  <2>5. \A i \in DOMAIN creds : ~Revoking(i)
    BY <1>1, <2>4 DEF Revoking, Rest
  <2>6. creds[call[c].id].serial = s
    BY <1>1, <2>1 DEF IssueFits, ChangeFits, Issuing, Changing
  <2>7. p = "wiped" => \A i \in DOMAIN creds : creds[i].serial = s => Revoking(i)'
    <3>1. SUFFICES ASSUME p = "wiped", NEW i \in DOMAIN creds, creds[i].serial = s
                   PROVE  Revoking(i)'
      OBVIOUS
    <3>2. i = call[c].id
      BY <2>1, <2>2, <2>6, <3>1 DEF IssueInv, DocumentsInv
    <3>3. pc'[c] = "saveBurned" /\ call'[c].id = i
      BY <1>1, <1>2, <1>3, <1>5, <3>1, <3>2
    <3>4. QED
      BY <3>3 DEF Revoking
  <2> HIDE DEF s, p
  <2>8. /\ AtMostOneOpen' /\ DocumentsInv' /\ OpenCredentials' = OpenCredentials
        /\ \A i \in DOMAIN creds : Backed(i)'
        /\ \A t \in 0..Len(nfts) : Place(t)' = IF t = s THEN p ELSE Place(t)
    BY <1>1, <2>2, <2>3, <2>5, <2>7, NftStep DEF bounds
  <2>9. (IF s = NoNft THEN "nowhere" ELSE nfts'[s]) = p
    BY <2>2, <2>3
  <2>10. IssueFits(c)' /\ ChangeFits(c)'
    <3>1. CASE to = "saveDelivered"
      BY <1>1, <1>2, <1>3, <2>1, <2>8, <2>9, <3>1
         DEF IssueFits, ChangeFits, Issuing, Changing, Place, s, p
    <3>2. CASE to = "saveBurned"
      <4>1. creds[call[c].id].internal # "burned"
        BY <2>1, <2>2, <2>6 DEF IssueInv, DocumentsInv, Place
      <4>2. QED
        BY <1>1, <1>2, <1>3, <2>1, <2>8, <2>9, <3>2, <4>1
           DEF IssueFits, ChangeFits, Issuing, Changing, Place, s, p
    <3>3. QED
      BY <1>2, <1>5, <3>1, <3>2
  <2>11. QED
    BY <1>1, <2>4, <2>8, <2>10 DEF IssueInv
<1>6. QED
  BY <1>4, <1>5

\* The document of a running call is the only one with its NFT.
LEMMA OwnSerial ==
  ASSUME IssueInv, NEW i \in DOMAIN creds, creds[i].serial # NoNft
  PROVE  \A j \in DOMAIN creds : j # i => creds[j].serial # creds[i].serial
BY DEF IssueInv, DocumentsInv

LEMMA MintSaveKeepsInv ==
  ASSUME IssueInv, TypeInv', NEW c \in Callers, SaveMint(c)
  PROVE  IssueInv'
<1> DEFINE i == call[c].id
<1>1. /\ pc[c] = "saveMint" /\ pc' = [pc EXCEPT ![c] = "unfreeze"] /\ "unfreeze" \in Steps
      /\ pc[c] \in (Issuing \cup Changing) \ {"register"} /\ UNCHANGED <<ledger, call, bounds>>
  BY DEF SaveMint, Go, Steps, Issuing
<1>2. /\ pc[c] \notin Rest /\ IssueFits(c) /\ i \in DOMAIN creds
  BY <1>1, RunningCall
<1>3. PICK d \in Credentials :
        /\ creds' = [creds EXCEPT ![i] = d]
        /\ d.internal = "minted" /\ d.chain = creds[i].chain /\ d.serial = call[c].serial
  BY MintSaved DEF IssueInv
<1>4. /\ i \in OpenCredentials
      /\ \A j \in DOMAIN creds : creds[j].serial # call[c].serial
  BY <1>1, <1>2 DEF IssueFits, Issuing
<1>5. d.chain = "active" /\ d.serial <= Len(nfts)
  BY <1>3, <1>4 DEF OpenCredentials, IssueInv, TypeInv, CallRefers
<1>6. pc'[c] = "unfreeze" /\ creds'[i] = d /\ DOMAIN creds' = DOMAIN creds
  BY <1>1, <1>2, <1>3 DEF IssueInv, TypeInv, StoreFits
<1>7. i \in OpenCredentials'
  BY <1>2, <1>3, <1>5, <1>6 DEF OpenCredentials
<1>8. IssueFits(c)' /\ ChangeFits(c)'
  BY <1>1, <1>3, <1>6, <1>7 DEF IssueFits, ChangeFits, Issuing, Changing
<1>9. call'[c].id = i /\ UNCHANGED <<ledger, declared, faults>>
  BY <1>1 DEF bounds
<1> HIDE DEF i
<1>10. QED
  BY <1>1, <1>2, <1>3, <1>4, <1>5, <1>8, <1>9, SavedStep DEF i

LEMMA DeliverySaveKeepsInv ==
  ASSUME IssueInv, TypeInv', NEW c \in Callers, SaveDelivered(c) \/ SaveActive(c)
  PROVE  IssueInv'
<1> DEFINE i == call[c].id
<1>1. /\ pc[c] \in {"saveDelivered", "saveActive"}
      /\ pc[c] \in (Issuing \cup Changing) \ {"register"} /\ UNCHANGED <<ledger, bounds>>
  BY DEF SaveDelivered, SaveActive, Go, Issuing
<1>2. PICK to \in {"freeze", "unfreeze", "answered"} : pc' = [pc EXCEPT ![c] = to]
  BY DEF SaveDelivered, SaveActive, Go
<1>3. to \in Steps /\ pc'[c] = to
  BY <1>2 DEF Steps, Rest, Issuing, IssueInv, TypeInv
<1>4. /\ pc[c] \notin Rest /\ IssueFits(c) /\ i \in DOMAIN creds /\ call[c] \in CallData
      /\ creds[i].serial <= Len(nfts)
  BY <1>1, RunningCall
<1>5. PICK status \in {"delivered", "active"} : SaveInternal(c, status)
  BY DEF SaveDelivered, SaveActive
<1>6. PICK d \in Credentials :
        /\ creds' = [creds EXCEPT ![i] = d]
        /\ d.internal = status /\ d.chain = creds[i].chain /\ d.serial = creds[i].serial
  <2>1. status \in Internal
    BY DEF Internal, AllTargets
  <2>2. QED
    BY <1>1, <1>4, <1>5, <2>1, InternalSaved DEF IssueInv
<1>7. i \in OpenCredentials /\ creds[i].serial = call[c].serial /\ Held(call[c].serial)
  BY <1>1, <1>4 DEF IssueFits, Issuing, Held
<1>8. d.chain = "active"
  BY <1>6, <1>7 DEF OpenCredentials
<1>9. call'[c].id = i /\ call'[c].serial = call[c].serial
  <2>1. call \in [Callers -> CallData]
    BY DEF IssueInv, TypeInv
  <2>2. CASE UNCHANGED call
    BY <2>2
  <2>3. CASE call' = [call EXCEPT ![c].again = FALSE]
    BY <1>4, <2>1, <2>3 DEF CallData
  <2>4. QED
    BY <2>2, <2>3 DEF SaveDelivered, SaveActive
<1>10. creds'[i] = d /\ DOMAIN creds' = DOMAIN creds
  BY <1>4, <1>6 DEF IssueInv, TypeInv, StoreFits
<1>11. i \in OpenCredentials'
  BY <1>4, <1>6, <1>8, <1>10 DEF OpenCredentials
<1>12. Place(call[c].serial)' = Place(call[c].serial) /\ Held(call[c].serial)'
  <2>1. (\A s : Held(s)' = Held(s) /\ Place(s)' = Place(s))
    BY <1>1 DEF Held, Place, ledger, bounds
  <2>2. (IF call[c].serial = NoNft THEN "nowhere" ELSE nfts'[call[c].serial]) = Place(call[c].serial)
    BY <1>1 DEF Place, ledger
  <2>3. QED
    BY <1>1, <1>7, <1>9, <2>2 DEF Held, Place, bounds
<1>13. IssueFits(c)' /\ ChangeFits(c)'
  BY <1>2, <1>3, <1>6, <1>7, <1>9, <1>10, <1>11, <1>12 DEF IssueFits, ChangeFits, Issuing, Changing
<1>14. /\ UNCHANGED <<ledger, declared, faults>> /\ Held(d.serial) /\ d.serial <= Len(nfts)
       /\ d.internal \in {"delivered", "active"}
       /\ d.serial # NoNft => \A j \in DOMAIN creds : j # i => creds[j].serial # d.serial
  BY <1>1, <1>4, <1>6, <1>7, OwnSerial DEF bounds
<1>15. /\ i = call[c].id /\ d.internal # "pending" /\ d.internal # "burned"
       /\ i \in OpenCredentials \cup declared' \/ OpenCredentials \subseteq declared
       /\ Held(d.serial) \/ (Place(d.serial) = "wiped" /\ to = "saveStatus")
  BY <1>7, <1>14
<1>16. pc[c] \notin Rest /\ i \in DOMAIN creds /\ d \in Credentials /\ to \in Steps
  BY <1>3, <1>4
<1>17. creds' = [creds EXCEPT ![i] = d] /\ pc' = [pc EXCEPT ![c] = to] /\ call'[c].id = i
  BY <1>2, <1>6, <1>9
<1>18. IssueFits(c)' /\ ChangeFits(c)'
  BY <1>13
<1> HIDE DEF i
<1>19. QED
  BY <1>14, <1>15, <1>16, <1>17, <1>18, SavedStep

\* While a revocation runs: the document says that the NFT is burned, then, once the
\* account is frozen, that it is active, and last that it is revoked.
LEMMA BurnSaveKeepsInv ==
  ASSUME IssueInv, TypeInv', NEW c \in Callers, SaveBurned(c) \/ SaveFrozen(c)
  PROVE  IssueInv'
<1> DEFINE i == call[c].id
           status == IF pc[c] = "saveBurned" THEN "burned" ELSE "active"
           to == IF pc[c] = "saveBurned" THEN "refreeze" ELSE "saveStatus"
<1>1. /\ pc[c] \in {"saveBurned", "saveFrozen"} /\ pc' = [pc EXCEPT ![c] = to]
      /\ pc[c] \in (Issuing \cup Changing) \ {"register"} /\ UNCHANGED <<ledger, call, bounds>>
      /\ SaveInternal(c, status)
  BY DEF SaveBurned, SaveFrozen, Go, Changing
<1>2. to \in Steps /\ status \in Internal
  BY DEF Steps, Changing, Internal, AllTargets
<1>3. pc'[c] = to
  BY <1>1 DEF IssueInv, TypeInv
<1>4. /\ pc[c] \notin Rest /\ ChangeFits(c) /\ i \in DOMAIN creds
      /\ creds[i] \in Credentials /\ creds[i].serial <= Len(nfts)
  BY <1>1, RunningCall
<1>5. PICK d \in Credentials :
        /\ creds' = [creds EXCEPT ![i] = d]
        /\ d.internal = status /\ d.chain = creds[i].chain /\ d.serial = creds[i].serial
  BY <1>1, <1>2, <1>4, InternalSaved DEF IssueInv
<1>6. creds[i].serial = call[c].serial /\ call[c].target = "revoked"
  BY <1>1, <1>4 DEF ChangeFits, Changing
<1>7. Place(creds[i].serial) = "wiped"
  <2>1. CASE pc[c] = "saveBurned"
    BY <1>4, <1>6, <2>1 DEF ChangeFits
  <2>2. CASE pc[c] = "saveFrozen"
    BY <1>4, <1>6, <2>2 DEF ChangeFits
  <2>3. QED
    BY <1>1, <2>1, <2>2
<1>8. /\ DOMAIN creds' = DOMAIN creds
      /\ \A j \in DOMAIN creds : creds'[j] = IF j = i THEN d ELSE creds[j]
  BY <1>4, <1>5 DEF IssueInv, TypeInv, StoreFits
<1>9. creds[i].chain = "active" /\ pc[c] = "saveFrozen" =>
        i \in declared \/ OpenCredentials \subseteq declared
  BY <1>4 DEF ChangeFits
<1>10. pc[c] = "saveBurned" /\ creds[i].chain = "active" =>
         i \in declared \/ OpenCredentials' \subseteq declared
  <2>1. SUFFICES ASSUME pc[c] = "saveBurned", creds[i].chain = "active", i \notin declared,
                        NEW j \in OpenCredentials', j \notin declared
                 PROVE  FALSE
    OBVIOUS
  <2>2. i \in OpenCredentials
    BY <1>4, <2>1 DEF ChangeFits, IssueInv, DocumentsInv
  <2>3. j \in DOMAIN creds /\ j # i
    BY <1>5, <1>8, <2>1 DEF OpenCredentials
  <2>4. j \in OpenCredentials
    BY <1>8, <2>1, <2>3 DEF OpenCredentials
  <2>5. QED
    BY <2>1, <2>2, <2>3, <2>4 DEF IssueInv, AtMostOneOpen
<1>11. Place(call[c].serial)' = "wiped"
  <2>1. (IF call[c].serial = NoNft THEN "nowhere" ELSE nfts'[call[c].serial]) = "wiped"
    BY <1>1, <1>6, <1>7 DEF Place, ledger
  <2>2. QED
    BY <1>1, <2>1 DEF Place
<1>12. IssueFits(c)' /\ ChangeFits(c)'
  <2>1. CASE pc[c] = "saveBurned"
    BY <1>1, <1>3, <1>4, <1>5, <1>6, <1>8, <1>10, <1>11, <2>1
       DEF IssueFits, ChangeFits, Issuing, Changing, ledger, bounds
  <2>2. CASE pc[c] = "saveFrozen"
    BY <1>1, <1>3, <1>4, <1>5, <1>6, <1>8, <1>11, <2>2
       DEF IssueFits, ChangeFits, Issuing, Changing, ledger
  <2>3. QED
    BY <1>1, <2>1, <2>2
<1>13. /\ UNCHANGED <<ledger, declared, faults>> /\ call'[c].id = i /\ d.serial <= Len(nfts)
       /\ d.internal \in {"burned", "active"} /\ Place(d.serial) = "wiped"
       /\ d.internal = "active" => to = "saveStatus"
       /\ d.chain = "active" /\ d.internal # "burned" =>
            i \in declared' \/ OpenCredentials \subseteq declared
       /\ d.serial # NoNft => \A j \in DOMAIN creds : j # i => creds[j].serial # d.serial
  BY <1>1, <1>4, <1>5, <1>7, <1>9, OwnSerial DEF bounds
<1> HIDE DEF to, i, status
<1>14. QED
  BY <1>1, <1>2, <1>4, <1>5, <1>12, <1>13, SavedStep DEF i

\* The status that a call stores for the VC is the one asked for, or the one read
\* back after the list was changed: that of an active VC only when it was asked for.
LEMMA StatusSaveKeepsInv ==
  ASSUME IssueInv, TypeInv', NEW c \in Callers, SaveStatus(c)
  PROVE  IssueInv'
<1> DEFINE i == call[c].id
<1>1. /\ pc[c] = "saveStatus" /\ pc' = [pc EXCEPT ![c] = "answered"] /\ "answered" \in Steps
      /\ pc[c] \in (Issuing \cup Changing) \ {"register"}
      /\ UNCHANGED <<ledger, call, faults>> /\ declared' = Declaring(c)
  BY DEF SaveStatus, Go, Steps, Rest, Changing
<1>2. /\ pc[c] \notin Rest /\ ChangeFits(c) /\ i \in DOMAIN creds
      /\ creds[i].serial <= Len(nfts)
  BY <1>1, RunningCall
<1>3. PICK d \in Credentials :
        /\ creds' = [creds EXCEPT ![i] = d]
        /\ d.internal = call[c].target
        /\ d.chain = IF call[c].wipeOnly THEN call[c].target ELSE call[c].chain
        /\ d.serial = creds[i].serial
  BY StatusSaved DEF IssueInv
<1>4. /\ call[c].target \in AllTargets
      /\ ~call[c].wipeOnly =>
           call[c].chain = IF call[c].target = "expired" THEN "revoked" ELSE call[c].target
  BY <1>1, <1>2, TargetsKnown DEF ChangeFits, Changing
<1>5. /\ d.internal \in AllTargets
      /\ d.internal = "active" \/ d.chain = "active" => d.internal = "active" /\ i \in declared'
  BY <1>1, <1>3, <1>4 DEF Declaring
<1>6. pc'[c] = "answered"
  BY <1>1 DEF IssueInv, TypeInv
<1>7. IssueFits(c)' /\ ChangeFits(c)'
  BY <1>6, RestFits DEF Rest
<1>8. /\ UNCHANGED <<ledger, faults>> /\ call'[c].id = i /\ d.serial <= Len(nfts)
      /\ declared' = declared \/ declared' = declared \cup {i}
      /\ d.serial # NoNft => \A j \in DOMAIN creds : j # i => creds[j].serial # d.serial
  BY <1>1, <1>2, <1>3, OwnSerial DEF Declaring
<1>9. d.internal \notin {"pending", "delivered", "burned"}
  BY <1>5 DEF AllTargets
<1> HIDE DEF i
<1>10. QED
  BY <1>1, <1>2, <1>3, <1>5, <1>7, <1>8, <1>9, SavedStep DEF i

\* A call that starts is alone when the bound on calls is one.
LEMMA StartsAlone ==
  ASSUME Overlap <= 1, OneAtATime, NEW c \in Callers, NEW to, Start(c, to)
  PROVE  Running = {}
<1>1. Cardinality(Running) < Overlap
  BY DEF Start
<1>2. SUFFICES ASSUME NEW d \in Running PROVE FALSE
  OBVIOUS
<1>3. Running = {d}
  BY <1>2 DEF OneAtATime
<1>4. Cardinality(Running) = 1
  BY <1>3, FS_Singleton
<1>5. QED
  BY <1>1, <1>4, BoundsAreNat

LEMMA FindKeepsInv ==
  ASSUME Overlap <= 1, IssueInv, TypeInv', NEW c \in Callers, FindCredential(c)
  PROVE  IssueInv'
<1>1. UNCHANGED <<creds, nfts, declared, faults>> /\ OpenCredentials' = OpenCredentials
  BY DEF FindCredential, ledger, bounds, OpenCredentials
<1>2. PICK to : Start(c, to)
  BY DEF FindCredential
<1>3. Running = {} /\ pc[c] \in Rest
  BY <1>2, StartsAlone DEF IssueInv, Start
<1>4. pc[c] \notin {"saveBurned", "saveStatus"}
  BY <1>3 DEF Rest
<1>5. CASE OpenCredentials = {} /\ Start(c, "register")
  <2>1. pc' = [pc EXCEPT ![c] = "register"] /\ pc'[c] = "register" /\ "register" \in Steps
    BY <1>5 DEF Start, IssueInv, TypeInv, Steps, Issuing
  <2>2. IssueFits(c)' /\ ChangeFits(c)'
    BY <1>1, <1>5, <2>1 DEF IssueFits, ChangeFits, Issuing, Changing
  <2>3. QED
    BY <1>1, <1>3, <1>4, <2>1, <2>2, QuietStep
<1>6. ASSUME NEW i \in OpenCredentials, Start(c, ResumeAt[creds[i].internal]),
             call' = [call EXCEPT ![c] =
                        [NoData EXCEPT !.id = i, !.serial = creds[i].serial,
                                       !.again = creds[i].internal = "pending"]]
      PROVE  IssueInv'
  <2> DEFINE d == [NoData EXCEPT !.id = i, !.serial = creds[i].serial,
                                 !.again = creds[i].internal = "pending"]
             next == ResumeAt[creds[i].internal]
  <2>1. i \in OpenCredentials /\ i \in DOMAIN creds
    BY DEF OpenCredentials
  <2>2. creds[i].internal \in {"pending", "minted", "delivered", "active"}
    BY <2>1 DEF OpenCredentials
  <2>3. /\ next \in Steps
        /\ \/ next = "mint" /\ creds[i].internal = "pending"
           \/ next = "unfreeze"
           \/ next = "freeze" /\ creds[i].internal = "delivered"
           \/ next = "answered"
    BY <2>2, ResumeSteps DEF Steps, Rest, Issuing
  <2>4. pc' = [pc EXCEPT ![c] = next] /\ call' = [call EXCEPT ![c] = d]
    BY <1>6 DEF Start
  <2>5. pc'[c] = next /\ call'[c] = d /\ d.id = i /\ d.serial = creds[i].serial
    BY <2>4 DEF IssueInv, TypeInv, NoData
  <2>6. next = "freeze" => Held(creds[i].serial)'
    <3>1. SUFFICES ASSUME next = "freeze" PROVE Held(creds[i].serial)'
      OBVIOUS
    <3>2. creds[i].internal = "delivered"
      BY <2>3, <3>1
    <3>3. ~Revoking(i)
      BY <1>3 DEF Revoking, Running, Rest
    <3>4. Held(creds[i].serial)
      BY <2>1, <3>2, <3>3, HeldNow
    <3>5. QED
      BY <1>1, <3>4 DEF Held, Place
  <2> HIDE DEF d, next
  <2>7. call'[c].id = i /\ call'[c].serial = creds[i].serial
    BY <2>5
  <2>8. IssueFits(c)'
    <3>1. CASE next = "mint"
      BY <1>1, <2>1, <2>3, <2>5, <2>7, <3>1 DEF IssueFits, Issuing
    <3>2. CASE next = "unfreeze"
      BY <1>1, <2>1, <2>5, <2>7, <3>2 DEF IssueFits, Issuing
    <3>3. CASE next = "freeze"
      <4>1. (creds[i].serial)' = call'[c].serial
        BY <1>1, <2>1, <2>7
      <4>2. Held(call[c].serial)'
        BY <2>6, <3>3, <4>1 DEF Held, Place
      <4>3. QED
        BY <1>1, <2>1, <2>5, <2>7, <3>3, <4>2 DEF IssueFits, Issuing
    <3>4. CASE next = "answered"
      BY <2>5, <3>4, RestFits DEF Rest
    <3>5. QED
      BY <2>3, <3>1, <3>2, <3>3, <3>4
  <2>9. ChangeFits(c)'
    BY <2>3, <2>5 DEF ChangeFits, Changing
  <2>10. QED
    BY <1>1, <1>3, <1>4, <2>3, <2>4, <2>8, <2>9, QuietStep
<1>7. QED
  BY <1>5, <1>6 DEF FindCredential

LEMMA FindByIdKeepsInv ==
  ASSUME Overlap <= 1, IssueInv, TypeInv', NEW c \in Callers, NEW i \in 1..MaxCredentials,
         NEW target \in Targets, NEW w \in BOOLEAN, FindById(c, i, target, w)
  PROVE  IssueInv'
<1> DEFINE d == [NoData EXCEPT !.id = i, !.serial = creds[i].serial,
                               !.target = target, !.wipeOnly = w]
           to == IF w THEN "read" ELSE "put"
<1>1. UNCHANGED <<creds, vc, nfts, account, declared, faults>> /\ Start(c, to)
      /\ call' = [call EXCEPT ![c] = d]
  BY DEF FindById, ledger, bounds
<1>2. Running = {} /\ pc[c] \in Rest /\ pc' = [pc EXCEPT ![c] = to] /\ to \in Steps
  <2>1. Running = {}
    BY <1>1, StartsAlone DEF IssueInv
  <2>2. QED
    BY <1>1, <2>1 DEF Start, Steps, Changing
<1>3. pc[c] \notin {"saveBurned", "saveStatus"}
  BY <1>2 DEF Rest
<1>4. pc'[c] = to /\ call'[c] = d
  BY <1>1, <1>2 DEF IssueInv, TypeInv
<1>5. d.id = i /\ d.serial = creds[i].serial /\ d.target = target /\ d.wipeOnly = w
  BY DEF NoData
<1>6. IssueFits(c)' /\ ChangeFits(c)'
  BY <1>1, <1>4, <1>5 DEF IssueFits, ChangeFits, Issuing, Changing
<1> HIDE DEF d, to
<1>7. QED
  BY <1>1, <1>2, <1>3, <1>6, QuietStep

\* The token endpoints wipe no NFT and unfreeze no account without a trace.
LEMMA TokenStepsKeepInv ==
  ASSUME IssueInv, TypeInv',
         \/ \E serial \in 1..MaxSerials : SeizeNft(serial)
         \/ UnfreezeAccounts \/ AssociateToken \/ DissociateToken
  PROVE  IssueInv'
<1>1. UNCHANGED <<creds, vc, pc, call, declared, faults>>
  BY DEF SeizeNft, UnfreezeAccounts, AssociateToken, DissociateToken
<1>2. OneAtATime'
  BY <1>1 DEF IssueInv, OneAtATime, Running
<1>3. CASE UNCHANGED nfts
  <2>1. account.freeze \in Closed => account'.freeze \in Closed
    <3>1. account \in Accounts
      BY DEF IssueInv, TypeInv, StoreFits
    <3>2. CASE UnfreezeAccounts
      BY <3>1, <3>2 DEF UnfreezeAccounts, Accounts, Closed
    <3>3. CASE AssociateToken
      BY <3>3 DEF AssociateToken, Closed
    <3>4. CASE DissociateToken
      BY <3>1, <3>4 DEF DissociateToken, Accounts
    <3>5. CASE \E serial \in 1..MaxSerials : SeizeNft(serial)
      BY <3>5 DEF SeizeNft
    <3>6. QED
      BY <3>2, <3>3, <3>4, <3>5
  <2>2. ASSUME NEW c \in Callers PROVE IssueFits(c)' /\ ChangeFits(c)'
    <3>1. IssueFits(c) /\ ChangeFits(c)
      BY DEF IssueInv
    <3>2. IssueFits(c)'
      BY <1>1, <1>3, <3>1 DEF IssueFits, OpenCredentials, Held, Place
    <3>3. ChangeFits(c)'
      BY <1>1, <1>3, <2>1, <3>1 DEF ChangeFits, OpenCredentials, Place
    <3>4. QED
      BY <3>2, <3>3
  <2>3. AtMostOneOpen' /\ DocumentsInv'
    BY <1>1, <1>3 DEF IssueInv, AtMostOneOpen, DocumentsInv, OpenCredentials, Place
  <2>4. (\A i \in DOMAIN creds : Backed(i))'
    BY <1>1, <1>3 DEF IssueInv, Backed, Held, Place, Revoking
  <2>5. QED
    BY <1>2, <2>2, <2>3, <2>4 DEF IssueInv
<1>4. ASSUME NEW s \in 1..MaxSerials, SeizeNft(s) PROVE IssueInv'
  <2>1. /\ s \in DOMAIN nfts /\ nfts[s] = "wallet" /\ UNCHANGED account
        /\ nfts' = [nfts EXCEPT ![s] = "seized"]
    BY <1>4 DEF SeizeNft
  <2>2. \A i \in DOMAIN creds : Revoking(i) => Revoking(i)'
    BY <1>1 DEF Revoking
  <2>3. /\ AtMostOneOpen' /\ DocumentsInv' /\ OpenCredentials' = OpenCredentials
        /\ \A i \in DOMAIN creds : Backed(i)'
        /\ \A t \in 0..Len(nfts) : Place(t)' = IF t = s THEN "seized" ELSE Place(t)
    BY <1>1, <2>1, <2>2, NftStep
  <2>4. ASSUME NEW c \in Callers PROVE IssueFits(c)' /\ ChangeFits(c)'
    <3> DEFINE t == call[c].serial
    <3>1. IssueFits(c) /\ ChangeFits(c) /\ t \in 0..Len(nfts)
      BY CallRanges DEF IssueInv
    <3>2. Place(s) = "wallet"
      <4>1. s # 0
        BY StoreRanges DEF IssueInv, TypeInv
      <4>2. QED
        BY <2>1, <4>1 DEF Place, NoNft
    <3>3. (IF t = NoNft THEN "nowhere" ELSE nfts'[t]) = IF t = s THEN "seized" ELSE Place(t)
      BY <2>3, <3>1 DEF Place
    <3>4. IssueFits(c)'
      <4>1. Place(call[c].serial)' = IF t = s THEN "seized" ELSE Place(t)
        BY <1>1, <3>3 DEF Place
      <4>2. Held(t) => Held(call[c].serial)'
        BY <1>1, <4>1 DEF Held
      <4>3. Place(t) \in {"wallet", "seized"} => Place(call[c].serial)' \in {"wallet", "seized"}
        BY <4>1
      <4> HIDE DEF t
      <4>4. t = call[c].serial
        BY DEF t
      <4>5. QED
        BY <1>1, <2>3, <3>1, <4>2, <4>3, <4>4 DEF IssueFits
    <3>5. ChangeFits(c)'
      BY <1>1, <2>1, <2>3, <3>1, <3>2, <3>3 DEF ChangeFits, Place
    <3>6. QED
      BY <3>4, <3>5
  <2>5. QED
    BY <1>1, <1>2, <2>3, <2>4 DEF IssueInv
<1>5. QED
  BY <1>3, <1>4 DEF UnfreezeAccounts, AssociateToken, DissociateToken

\* A fault leaves no call running: what it had begun is accounted for by the fault.
LEMMA FaultsKeepInv ==
  ASSUME IssueInv, TypeInv', (\E c \in Callers : CallFails(c)) \/ Crash
  PROVE  IssueInv'
<1>1. UNCHANGED <<creds, nfts, declared>> /\ faults' = faults + 1 /\ faults \in Nat
  BY DEF CallFails, Crash, ledger, IssueInv, TypeInv
<1>2. \A c \in Callers : pc'[c] \in Rest
  <2>1. ASSUME NEW c \in Callers, CallFails(c) PROVE \A d \in Callers : pc'[d] \in Rest
    BY <2>1 DEF CallFails, IssueInv, TypeInv, OneAtATime, Running, Rest
  <2>2. CASE Crash
    BY <2>2 DEF Crash, Running, Rest
  <2>3. QED
    BY <2>1, <2>2
<1>3. OneAtATime'
  BY <1>2 DEF OneAtATime, Running
<1>4. \A c \in Callers : IssueFits(c)' /\ ChangeFits(c)'
  BY <1>2, RestFits
<1>5. AtMostOneOpen' /\ DocumentsInv'
  BY <1>1 DEF IssueInv, AtMostOneOpen, DocumentsInv, OpenCredentials, Place
<1>6. faults' > 0
  BY <1>1
<1>7. (\A i \in DOMAIN creds : Backed(i))'
  BY <1>1, <1>6 DEF IssueInv, Backed, Held, Place
<1>8. QED
  BY <1>3, <1>4, <1>5, <1>7 DEF IssueInv

LEMMA StutterKeepsInv == ASSUME IssueInv, UNCHANGED vars PROVE IssueInv'
<1>1. TypeInv'
  BY TypeInvStep DEF IssueInv
<1>2. OneAtATime' /\ AtMostOneOpen' /\ DocumentsInv' /\ (\A i \in DOMAIN creds : Backed(i))'
  BY DEF vars, IssueInv, OneAtATime, Running, AtMostOneOpen, DocumentsInv, OpenCredentials,
         Backed, Held, Place, Revoking
<1>3. ASSUME NEW c \in Callers PROVE IssueFits(c)' /\ ChangeFits(c)'
  <2>1. IssueFits(c) /\ ChangeFits(c)
    BY DEF IssueInv
  <2>2. QED
    BY <2>1 DEF vars, IssueFits, ChangeFits, OpenCredentials, Held, Place
<1>4. QED
  BY <1>1, <1>2, <1>3 DEF IssueInv

LEMMA IssueInvStep ==
  ASSUME Overlap <= 1
  PROVE  IssueInv /\ [Next]_vars => IssueInv'
<1> SUFFICES ASSUME IssueInv, [Next]_vars PROVE IssueInv'
  OBVIOUS
<1>1. TypeInv'
  BY TypeInvStep DEF IssueInv
<1>2. ASSUME NEW c \in Callers, IssueStep(c) PROVE IssueInv'
  BY <1>1, <1>2, RegisterKeepsInv, MintKeepsInv, MintSaveKeepsInv, AccountStepsKeepInv,
     LedgerStepsKeepInv, DeliverySaveKeepsInv DEF IssueStep
<1>3. ASSUME NEW c \in Callers, ChangeStep(c) PROVE IssueInv'
  BY <1>1, <1>3, StatusStepsKeepInv, AccountStepsKeepInv, LedgerStepsKeepInv,
     BurnSaveKeepsInv, StatusSaveKeepsInv DEF ChangeStep
<1>4. QED
  BY <1>1, <1>2, <1>3, FindKeepsInv, FindByIdKeepsInv, TokenStepsKeepInv, FaultsKeepInv,
     StutterKeepsInv DEF Next

\* The invariant that the properties of calls that do not overlap follow from, whatever
\* statuses are asked for, 'active' with them, and whatever wallets the owner has.
THEOREM IssueAlways ==
  ASSUME Overlap <= 1
  PROVE  Spec => []IssueInv
BY IssueInvInit, IssueInvStep, PTL DEF Spec

--------------------------------------------------------------------------------
(* What follows for credentials and NFTs. *)

\* A credential that is delivered or active, and that no call is working on, has its
\* NFT in the wallet, unless a status change has declared it active, the token service
\* took the NFT or a revocation failed midway.
THEOREM DeliveredIsHeld ==
  ASSUME Overlap <= 1
  PROVE  Spec => []ActiveHasNft
<1>1. IssueInv => ActiveHasNft
  <2>1. SUFFICES ASSUME IssueInv, NEW i \in DOMAIN creds,
                        creds[i].internal \in {"delivered", "active"}, i \notin declared,
                        \A c \in Running : call[c].id # i
                 PROVE  Held(creds[i].serial)
    BY DEF ActiveHasNft, Held
  <2>2. ~Revoking(i)
    BY <2>1 DEF Revoking, Running, Rest
  <2>3. QED
    BY <2>1, <2>2, HeldNow
<1>2. QED
  BY <1>1, IssueAlways, PTL

\* Of two credentials that are good at once a status change has resumed one or declared
\* one active: issueVC alone never makes a second.
THEOREM OneIsLive ==
  ASSUME Overlap <= 1
  PROVE  Spec => []OneLiveUnlessReinstated
<1>1. IssueInv => OneLiveUnlessReinstated
  <2>1. SUFFICES ASSUME IssueInv, NEW i \in DOMAIN creds, NEW j \in DOMAIN creds,
                        Live(creds[i]), Live(creds[j]), i # j,
                        "resumed" \notin {creds[i].chain, creds[j].chain},
                        {i, j} \cap declared = {}
                 PROVE  FALSE
    BY DEF OneLiveUnlessReinstated
  <2>2. i \in OpenCredentials \ declared /\ j \in OpenCredentials \ declared
    BY <2>1 DEF Live, IssueInv, DocumentsInv
  <2>3. QED
    BY <2>1, <2>2 DEF IssueInv, AtMostOneOpen
<1>2. QED
  BY <1>1, IssueAlways, PTL

\* Only the save that follows a mint stores a serial number.
LEMMA SerialStep ==
  ASSUME IssueInv, [Next]_vars, NEW i \in DOMAIN creds, creds[i].serial # NoNft
  PROVE  creds'[i].serial = creds[i].serial
<1>1. TypeInv /\ creds \in Seq(Credentials)
  BY DEF IssueInv, TypeInv, StoreFits
<1>2. ASSUME NEW c \in Callers, RegisterVC(c) PROVE creds'[i].serial = creds[i].serial
  BY <1>1, <1>2, RegisterKeepsTypes
<1>3. ASSUME NEW c \in Callers, SaveMint(c) PROVE creds'[i].serial = creds[i].serial
  <2>1. PICK d \in Credentials : creds' = [creds EXCEPT ![call[c].id] = d]
    BY <1>1, <1>3, MintSaved
  <2>2. pc[c] = "saveMint" /\ pc[c] \in (Issuing \cup Changing) \ {"register"}
    BY <1>3 DEF SaveMint, Go, Issuing
  <2>3. creds[call[c].id].internal = "pending" /\ call[c].id \in DOMAIN creds
    BY <2>2, RunningCall DEF IssueFits
  <2>4. i # call[c].id
    BY <2>3 DEF IssueInv, DocumentsInv
  <2>5. QED
    BY <1>1, <2>1, <2>4
<1>4. ASSUME NEW c \in Callers,
             SaveDelivered(c) \/ SaveActive(c) \/ SaveBurned(c) \/ SaveFrozen(c)
      PROVE  creds'[i].serial = creds[i].serial
  <2>1. PICK status \in Internal : SaveInternal(c, status)
    BY <1>4 DEF SaveDelivered, SaveActive, SaveBurned, SaveFrozen, Internal, AllTargets
  <2>2. pc[c] \in (Issuing \cup Changing) \ {"register"} /\ UNCHANGED ledger
    BY <1>4 DEF SaveDelivered, SaveActive, SaveBurned, SaveFrozen, Go, Issuing, Changing
  <2>3. call[c].id \in DOMAIN creds
    BY <2>2, RunningCall
  <2>4. PICK d \in Credentials : /\ creds' = [creds EXCEPT ![call[c].id] = d]
                                 /\ d.serial = creds[call[c].id].serial
    BY <1>1, <2>1, <2>2, <2>3, InternalSaved
  <2>5. QED
    BY <1>1, <2>4
<1>5. ASSUME NEW c \in Callers, SaveStatus(c) PROVE creds'[i].serial = creds[i].serial
  <2>1. PICK d \in Credentials : /\ creds' = [creds EXCEPT ![call[c].id] = d]
                                 /\ d.serial = creds[call[c].id].serial
    BY <1>1, <1>5, StatusSaved
  <2>2. QED
    BY <1>1, <2>1
<1>6. CASE UNCHANGED creds
  BY <1>6
<1>7. ASSUME NEW c \in Callers, IssueStep(c) PROVE creds'[i].serial = creds[i].serial
  BY <1>2, <1>3, <1>4, <1>6, <1>7
     DEF IssueStep, MintNft, UnfreezeNft, UnfreezeAccount, CheckNft, AssociateNft, TransferNft,
         FreezeNft, FreezeAccount
<1>8. ASSUME NEW c \in Callers, ChangeStep(c) PROVE creds'[i].serial = creds[i].serial
  BY <1>4, <1>5, <1>6, <1>8
     DEF ChangeStep, PutStatus, ReadStatus, Thaw, UnfreezeAccount, WipeNft, Refreeze, FreezeAccount
<1>9. QED
  BY <1>6, <1>7, <1>8
     DEF Next, vars, FindCredential, FindById, CallFails, Crash, SeizeNft, UnfreezeAccounts,
         AssociateToken, DissociateToken

\* A retry keeps the NFT: the serial number a document has stored never changes.
THEOREM RetryKeepsSerial ==
  ASSUME Overlap <= 1
  PROVE  Spec => SerialIsKept
<1>1. IssueInv /\ [Next]_vars =>
        [\A i \in DOMAIN creds :
           creds[i].serial # NoNft => creds'[i].serial = creds[i].serial]_vars
  BY SerialStep
<1>2. QED
  BY <1>1, IssueAlways, PTL DEF Spec, SerialIsKept

\* A call of changeVCStatus is answered by its last save.
LEMMA AnswerIsSaved ==
  ASSUME TypeInv, [Next]_vars, NEW c \in Callers, pc[c] = "saveStatus", pc'[c] = "answered"
  PROVE  SaveStatus(c)
<1>1. pc \in [Callers -> Steps] /\ ~UNCHANGED pc
  BY DEF TypeInv
<1>2. ASSUME NEW d \in Callers, NEW from, NEW to, Go(d, from, to)
      PROVE  d = c /\ from = "saveStatus"
  BY <1>1, <1>2 DEF Go
<1>3. ASSUME NEW d \in Callers, NEW to, Start(d, to) PROVE FALSE
  <2>1. d # c /\ pc' = [pc EXCEPT ![d] = to]
    BY <1>3 DEF Start, Rest
  <2>2. QED
    BY <1>1, <2>1
<1>4. ASSUME NEW d \in Callers, IssueStep(d) PROVE FALSE
  <2>1. PICK from, to : Go(d, from, to) /\ from # "saveStatus"
    <3>1. CASE RegisterVC(d) \/ MintNft(d) \/ SaveMint(d) \/ UnfreezeNft(d) \/ CheckNft(d)
      BY <3>1 DEF RegisterVC, MintNft, SaveMint, UnfreezeNft, UnfreezeAccount, CheckNft
    <3>2. CASE \/ AssociateNft(d) \/ TransferNft(d) \/ SaveDelivered(d) \/ FreezeNft(d)
               \/ SaveActive(d)
      BY <3>2 DEF AssociateNft, TransferNft, SaveDelivered, FreezeNft, FreezeAccount, SaveActive
    <3>3. QED
      BY <1>4, <3>1, <3>2 DEF IssueStep
  <2>2. QED
    BY <1>2, <2>1
<1>5. ASSUME NEW d \in Callers, ChangeStep(d) PROVE SaveStatus(c)
  <2>1. CASE SaveStatus(d)
    BY <1>2, <2>1 DEF SaveStatus
  <2>2. CASE ~SaveStatus(d)
    <3>1. PICK from, to : Go(d, from, to) /\ from # "saveStatus"
      <4>1. CASE PutStatus(d) \/ ReadStatus(d) \/ Thaw(d) \/ WipeNft(d)
        BY <4>1 DEF PutStatus, ReadStatus, Thaw, UnfreezeAccount, WipeNft
      <4>2. CASE SaveBurned(d) \/ Refreeze(d) \/ SaveFrozen(d)
        BY <4>2 DEF SaveBurned, Refreeze, FreezeAccount, SaveFrozen
      <4>3. QED
        BY <1>5, <2>2, <4>1, <4>2 DEF ChangeStep
    <3>2. QED
      BY <1>2, <3>1
  <2>3. QED
    BY <2>1, <2>2
<1>6. ASSUME NEW d \in Callers, FindCredential(d) PROVE FALSE
  BY <1>3, <1>6 DEF FindCredential
<1>7. ASSUME NEW d \in Callers, CallFails(d) PROVE FALSE
  BY <1>1, <1>7 DEF CallFails
<1>8. ASSUME Crash PROVE FALSE
  BY <1>1, <1>8 DEF Crash
<1>9. QED
  BY <1>1, <1>3, <1>4, <1>5, <1>6, <1>7, <1>8
     DEF Next, vars, FindById, SeizeNft, UnfreezeAccounts, AssociateToken, DissociateToken

\* What an answered call leaves in the document.
LEMMA AnswerStored ==
  ASSUME IssueInv, [Next]_vars, NEW c \in Callers, pc[c] = "saveStatus", pc'[c] = "answered"
  PROVE  /\ ChangeFits(c) /\ creds[call[c].id].serial = call[c].serial
         /\ creds'[call[c].id].internal = call[c].target
         /\ ~call[c].wipeOnly => creds'[call[c].id].chain = vc[call[c].id]
<1>1. TypeInv /\ creds \in Seq(Credentials)
  BY DEF IssueInv, TypeInv, StoreFits
<1>2. SaveStatus(c)
  BY <1>1, AnswerIsSaved
<1>3. pc[c] \in (Issuing \cup Changing) \ {"register"}
  BY DEF Changing
<1>4. call[c].id \in DOMAIN creds /\ ChangeFits(c)
  BY <1>3, RunningCall
<1>5. PICK d \in Credentials :
        /\ creds' = [creds EXCEPT ![call[c].id] = d]
        /\ d.internal = call[c].target
        /\ d.chain = IF call[c].wipeOnly THEN call[c].target ELSE call[c].chain
  BY <1>1, <1>2, StatusSaved
<1>6. creds'[call[c].id] = d
  BY <1>1, <1>4, <1>5
<1>7. ~call[c].wipeOnly => call[c].chain = vc[call[c].id]
  BY <1>4 DEF ChangeFits, Changing
<1>8. creds[call[c].id].serial = call[c].serial
  BY <1>4 DEF ChangeFits, Changing
<1>9. QED
  BY <1>4, <1>5, <1>6, <1>7, <1>8

\* What the answer to a status change says of the VC is what the ledger says.
THEOREM AnswerTellsLedger ==
  ASSUME Overlap <= 1
  PROVE  Spec => AnswerMatchesLedger
<1>1. IssueInv /\ [Next]_vars =>
        [\A c \in Callers :
           pc[c] = "saveStatus" /\ pc'[c] = "answered" /\ ~call[c].wipeOnly =>
             creds'[call[c].id].chain = vc[call[c].id]]_vars
  BY AnswerStored
<1>2. QED
  BY <1>1, IssueAlways, PTL DEF Spec, AnswerMatchesLedger

\* When a revocation is answered the NFT is gone and the account frozen, unless the
\* token endpoints have released it meanwhile or another wallet of the owner was taken
\* for it.
THEOREM RevocationWipes ==
  ASSUME Overlap <= 1
  PROVE  Spec => RevocationIsComplete
<1>1. IssueInv /\ [Next]_vars =>
        [\A c \in Callers :
           pc[c] = "saveStatus" /\ pc'[c] = "answered" /\ call[c].target = "revoked" =>
             /\ Place(creds[call[c].id].serial) = "wiped"
             /\ account.freeze \in {"FROZEN", "released"}
                  \cup (IF OtherWallets THEN {"missed"} ELSE {})
             /\ creds'[call[c].id].internal = "revoked"]_vars
  <2> SUFFICES ASSUME IssueInv, [Next]_vars, NEW c \in Callers,
                      pc[c] = "saveStatus", pc'[c] = "answered", call[c].target = "revoked"
               PROVE  /\ Place(creds[call[c].id].serial) = "wiped"
                      /\ account.freeze \in {"FROZEN", "released"}
                           \cup (IF OtherWallets THEN {"missed"} ELSE {})
                      /\ creds'[call[c].id].internal = "revoked"
    OBVIOUS
  <2>1. /\ ChangeFits(c) /\ creds[call[c].id].serial = call[c].serial
        /\ creds'[call[c].id].internal = "revoked"
    BY AnswerStored
  <2>2. Place(call[c].serial) = "wiped" /\ account.freeze \in Closed
    BY <2>1 DEF ChangeFits
  <2>3. QED
    BY <2>1, <2>2 DEF Closed
<1>2. QED
  BY <1>1, IssueAlways, PTL DEF Spec, RevocationIsComplete

================================================================================
