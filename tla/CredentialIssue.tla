---------------------------- MODULE CredentialIssue ----------------------------
(***************************************************************************)
(* The verifiable credentials of one user from one issuer, and the NFTs    *)
(* that stand for them: issued in steps (register, mint, unfreeze, send,   *)
(* freeze) that a later call may resume, and changed or revoked.            *)
(*                                                                         *)
(* Source: identities/credentials/credentials.service.ts (issueVC,         *)
(* changeVCStatus and their helpers).  The ledger is external: it is        *)
(* modelled by the transactions the code submits and when they succeed.    *)
(* A ledger transaction and the save of the document that records it are   *)
(* two steps; a call may fail, or the server stop, between any two.         *)
(* Meanwhile the token endpoints (hts/hts.service.ts and                    *)
(* wallets/wallets.service.ts) may act on the same account and NFTs.        *)
(***************************************************************************)
EXTENDS Naturals, Sequences, FiniteSets

CONSTANTS
  Callers,        \* HTTP clients: each has one call at a time and may repeat it
  Targets,        \* statuses that changeVCStatus is asked for
  OtherWallets,   \* whether the owner has agent wallets too
  Overlap,        \* bound: calls that may run at once
  MaxCredentials, \* bound: documents
  MaxSerials,     \* bound: NFTs minted
  MaxOperations,  \* bound: status changes begun, and token endpoints that take effect
  MaxFaults       \* bound: failed calls plus crashes

\* ChainVCStatus: the endpoint takes each of them, for a credential in any state.
AllTargets == {"active", "suspended", "resumed", "revoked", "expired"}

ASSUME TargetsKnown == Targets \subseteq AllTargets
ASSUME OtherWalletsIsBoolean == OtherWallets \in BOOLEAN
ASSUME BoundsAreNat == /\ Overlap \in Nat /\ MaxCredentials \in Nat
                       /\ MaxSerials \in Nat /\ MaxOperations \in Nat
                       /\ MaxFaults \in Nat

VARIABLES
  creds,  \* the IDCredential documents, in the order of their creation
  vc,     \* on the ledger: the status of the VC of each document
  nfts,   \* on the ledger: where each minted NFT is
  account, \* on the ledger: the user's account and the NFT's token
  pc,     \* where each caller's call is
  call,   \* what its call holds in memory
  declared, \* history: documents that a status change has set to active
  operations, \* status changes and operations of the token endpoints so far
  faults  \* faults so far

vars == <<creds, vc, nfts, account, pc, call, declared, operations, faults>>
ledger == <<vc, nfts, account>>
bounds == <<declared, operations, faults>>

\* Whether the user's account is associated with the token, and its freeze_status;
\* "released" is one that the token endpoints have unfrozen, or associated anew, and
\* "missed" one that a call took for frozen because another wallet of the owner was.
Accounts == [associated : BOOLEAN, freeze : {"UNFROZEN", "FROZEN", "released", "missed"}]
NoNft == 0 \* serial_number 'to_be_minted'
Internal == {"pending", "minted", "delivered", "burned"} \cup AllTargets
Chain == AllTargets
Credentials == [internal: Internal, chain: Chain, serial: 0..MaxSerials]
CallData == [id: 0..MaxCredentials, serial: 0..MaxSerials, again: BOOLEAN,
             target: Chain, wipeOnly: BOOLEAN, chain: Chain]
NoData == [id |-> 0, serial |-> NoNft, again |-> FALSE, target |-> "active",
           wipeOnly |-> FALSE, chain |-> "active"]

Rest == {"rest", "answered", "failed"}
Issuing == {"register", "mint", "saveMint", "unfreeze", "check", "associate",
            "transfer", "saveDelivered", "freeze", "saveActive"}
Changing == {"put", "read", "thaw", "wipe", "saveBurned", "refreeze",
             "saveFrozen", "saveStatus"}

Init ==
  /\ creds = <<>>
  /\ vc = <<>>
  /\ nfts = <<>>
  /\ account = [associated |-> FALSE, freeze |-> "UNFROZEN"]
  /\ pc = [c \in Callers |-> "rest"]
  /\ call = [c \in Callers |-> NoData]
  /\ declared = {}
  /\ operations = 0
  /\ faults = 0

Running == {c \in Callers : pc[c] \notin Rest}
Go(c, from, to) == pc[c] = from /\ pc' = [pc EXCEPT ![c] = to]
Start(c, to) == /\ pc[c] \in Rest
                /\ Cardinality(Running) < Overlap
                /\ pc' = [pc EXCEPT ![c] = to]

\* Where an NFT is; a credential that was not minted has none.
Place(serial) == IF serial = NoNft THEN "nowhere" ELSE nfts[serial]

Associated == account.associated
Frozen == account.freeze = "FROZEN"

\* A new association is not frozen.
Associate == IF Associated THEN account ELSE [associated |-> TRUE, freeze |-> "UNFROZEN"]

\* What a status change that stores its target declares active.
Declaring(c) == IF call[c].target = "active" THEN declared \cup {call[c].id} ELSE declared

\* credential.save() writes the fields that were set, nothing else.
SaveInternal(c, status) == creds' = [creds EXCEPT ![call[c].id].internal = status]

--------------------------------------------------------------------------------
(* Mutants: what the actions below would be with a plausible bug. *)

\* CheckNft: where the NFT is now is not looked at.
CheckNothing(c) ==
  /\ Go(c, "check", "transfer")
  /\ UNCHANGED <<creds, ledger, call, bounds>>

\* SaveMint: the call records the delivery before it takes place.
SaveMintAsDelivered(c) ==
  /\ Go(c, "saveMint", "unfreeze")
  /\ creds' = [creds EXCEPT ![call[c].id].internal = "delivered",
                            ![call[c].id].serial = call[c].serial]
  /\ UNCHANGED <<ledger, call, bounds>>

\* FindCredential: a credential whose NFT was minted is minted again.
ResumeMinted == [pending |-> "mint", minted |-> "mint", delivered |-> "freeze",
                 active |-> "answered"]

\* OpenCredentials: a credential that is finished is not looked for.
UnfinishedCredentials ==
  {i \in DOMAIN creds :
     creds[i].chain = "active" /\ creds[i].internal \in {"pending", "minted", "delivered"}}

\* SaveBurned: the account is not frozen again once the NFT has been wiped.
WipeAndStop(c) ==
  /\ Go(c, "saveBurned", "saveStatus")
  /\ SaveInternal(c, "burned")
  /\ UNCHANGED <<ledger, call, bounds>>

\* SaveStatus: the status asked for is stored, not the one on the ledger.
SaveStatusAsAsked(c) ==
  /\ Go(c, "saveStatus", "answered")
  /\ creds' = [creds EXCEPT ![call[c].id].internal = call[c].target,
                            ![call[c].id].chain = call[c].target]
  /\ declared' = Declaring(c)
  /\ UNCHANGED <<ledger, call, operations, faults>>

\* RegisterVC: the document is created and the VC is not registered.
CreateWithoutRegister(c) ==
  /\ Len(creds) < MaxCredentials
  /\ Go(c, "register", "mint")
  /\ creds' = Append(creds, [internal |-> "pending", chain |-> "active",
                             serial |-> NoNft])
  /\ call' = [call EXCEPT ![c].id = Len(creds) + 1]
  /\ UNCHANGED <<ledger, bounds>>

--------------------------------------------------------------------------------
(* issueVC *)

\* The documents that are not finished, or that are active.
OpenCredentials ==
  {i \in DOMAIN creds :
     /\ creds[i].chain = "active"
     /\ creds[i].internal \in {"pending", "minted", "delivered", "active"}}

ResumeAt == [pending |-> "mint", minted |-> "unfreeze", delivered |-> "freeze",
             active |-> "answered"]

\* findOne has no sort: of several it returns any.
FindCredential(c) ==
  /\ \/ /\ OpenCredentials = {} /\ Len(creds) < MaxCredentials
        /\ Start(c, "register")
        /\ call' = [call EXCEPT ![c] = NoData]
     \/ \E i \in OpenCredentials :
          /\ Start(c, ResumeAt[creds[i].internal])
          /\ call' = [call EXCEPT ![c] =
                        [NoData EXCEPT !.id = i, !.serial = creds[i].serial,
                                       !.again = creds[i].internal = "pending"]]
  /\ UNCHANGED <<creds, ledger, bounds>>

\* registerVC: the VC on the ledger and the document, then the identity's list.
RegisterVC(c) ==
  /\ Len(creds) < MaxCredentials
  /\ Go(c, "register", "mint")
  /\ creds' = Append(creds, [internal |-> "pending", chain |-> "active",
                             serial |-> NoNft])
  /\ vc' = Append(vc, "active")
  /\ call' = [call EXCEPT ![c].id = Len(creds) + 1]
  /\ UNCHANGED <<nfts, account, bounds>>

\* mintNft: the transaction gives the treasury a new serial number ...
MintNft(c) ==
  /\ Len(nfts) < MaxSerials
  /\ Go(c, "mint", "saveMint")
  /\ nfts' = Append(nfts, "treasury")
  /\ call' = [call EXCEPT ![c].serial = Len(nfts) + 1]
  /\ UNCHANGED <<creds, vc, account, bounds>>

\* ... which is stored when the receipt has arrived.
SaveMint(c) ==
  /\ Go(c, "saveMint", "unfreeze")
  /\ creds' = [creds EXCEPT ![call[c].id].internal = "minted",
                            ![call[c].id].serial = call[c].serial]
  /\ UNCHANGED <<ledger, call, bounds>>

\* unfreezeNft acts on the user's account and decides by what getToken shows, which
\* takes any wallet of the owner.  Nothing is done when the wallet it shows has not
\* the token or is not frozen; the user's own is one such when it is not frozen.
UnfreezeAccount(c, from, to) ==
  /\ Go(c, from, to)
  /\ \/ account' = IF Frozen THEN [account EXCEPT !.freeze = "UNFROZEN"] ELSE account
     \/ OtherWallets /\ UNCHANGED account
  /\ UNCHANGED <<creds, vc, nfts, call, bounds>>

UnfreezeNft(c) == UnfreezeAccount(c, "unfreeze", "check")

\* sendNft looks where the NFT is before it sends it.  When it is delivered
\* already the code goes on to a transfer all the same, after it has answered:
\* that transfer fails on the ledger and changes nothing.  A wallet of more than ten
\* tokens is associated first.
CheckNft(c) ==
  /\ \E manyTokens \in BOOLEAN :
       Go(c, "check", IF Place(call[c].serial) = "wallet" THEN "saveDelivered"
                      ELSE IF manyTokens THEN "associate" ELSE "transfer")
  /\ UNCHANGED <<creds, ledger, call, bounds>>

\* associateNFT; that the account is associated already is no error.
AssociateNft(c) ==
  /\ Go(c, "associate", "transfer")
  /\ account' = Associate
  /\ UNCHANGED <<creds, vc, nfts, call, bounds>>

\* A transfer to a frozen account, or of an NFT that has left the treasury, fails;
\* one to an account that has room for it associates it.
TransferNft(c) ==
  LET sent == ~Frozen /\ Place(call[c].serial) = "treasury" IN
  /\ Go(c, "transfer", IF sent THEN "saveDelivered" ELSE "failed")
  /\ nfts' = IF sent THEN [nfts EXCEPT ![call[c].serial] = "wallet"] ELSE nfts
  /\ account' = IF sent THEN Associate ELSE account
  /\ UNCHANGED <<creds, vc, call, bounds>>

SaveDelivered(c) ==
  /\ Go(c, "saveDelivered", "freeze")
  /\ SaveInternal(c, "delivered")
  /\ UNCHANGED <<ledger, call, bounds>>

\* freezeNft likewise: it goes on without a transaction when the wallet that getToken
\* shows is frozen, the user's own or another.  An account without the token cannot be
\* frozen.
FreezeAccount(c, from, to) ==
  /\ \/ /\ Go(c, from, IF Associated THEN to ELSE "failed")
        /\ account' = IF Associated THEN [account EXCEPT !.freeze = "FROZEN"] ELSE account
     \/ /\ OtherWallets
        /\ Go(c, from, to)
        /\ account' = IF Frozen THEN account ELSE [account EXCEPT !.freeze = "missed"]
  /\ UNCHANGED <<creds, vc, nfts, call, bounds>>

FreezeNft(c) == FreezeAccount(c, "freeze", "saveActive")

\* A call that resumed a pending credential falls through to the case of a
\* minted one: it unfreezes, sends and freezes a second time.
SaveActive(c) ==
  /\ Go(c, "saveActive", IF call[c].again THEN "unfreeze" ELSE "answered")
  /\ SaveInternal(c, "active")
  /\ call' = [call EXCEPT ![c].again = FALSE]
  /\ UNCHANGED <<ledger, bounds>>

--------------------------------------------------------------------------------
(* changeVCStatus *)

Operate == operations < MaxOperations /\ operations' = operations + 1

FindById(c, i, target, wipeOnly) ==
  /\ Operate
  /\ i \in DOMAIN creds
  /\ Start(c, IF wipeOnly THEN "read" ELSE "put")
  /\ call' = [call EXCEPT ![c] = [NoData EXCEPT !.id = i, !.serial = creds[i].serial,
                                    !.target = target, !.wipeOnly = wipeOnly]]
  /\ UNCHANGED <<creds, ledger, declared, faults>>

\* PUT /did/status: an expired credential is revoked on the ledger.
PutStatus(c) ==
  /\ Go(c, "put", "read")
  /\ vc' = [vc EXCEPT ![call[c].id] =
              IF call[c].target = "expired" THEN "revoked" ELSE call[c].target]
  /\ UNCHANGED <<creds, nfts, account, call, bounds>>

\* The status list is read back and decoded.
ReadStatus(c) ==
  /\ Go(c, "read", IF call[c].target = "revoked" THEN "thaw" ELSE "saveStatus")
  /\ call' = [call EXCEPT ![c].chain = vc[call[c].id]]
  /\ UNCHANGED <<creds, ledger, bounds>>

\* Revoking unfreezes the account, wipes the NFT and freezes the account again.
Thaw(c) == UnfreezeAccount(c, "thaw", "wipe")

WipeNft(c) ==
  LET held == ~Frozen /\ Place(call[c].serial) = "wallet" IN
  /\ Go(c, "wipe", IF held THEN "saveBurned" ELSE "failed")
  /\ nfts' = IF held THEN [nfts EXCEPT ![call[c].serial] = "wiped"] ELSE nfts
  /\ UNCHANGED <<creds, vc, account, call, bounds>>

SaveBurned(c) ==
  /\ Go(c, "saveBurned", "refreeze")
  /\ SaveInternal(c, "burned")
  /\ UNCHANGED <<ledger, call, bounds>>

Refreeze(c) == FreezeAccount(c, "refreeze", "saveFrozen")

\* freezeNft stores ACTIVE whoever called it.
SaveFrozen(c) ==
  /\ Go(c, "saveFrozen", "saveStatus")
  /\ SaveInternal(c, "active")
  /\ UNCHANGED <<ledger, call, bounds>>

SaveStatus(c) ==
  /\ Go(c, "saveStatus", "answered")
  /\ creds' = [creds EXCEPT
       ![call[c].id].internal = call[c].target,
       ![call[c].id].chain = IF call[c].wipeOnly THEN call[c].target ELSE call[c].chain]
  /\ declared' = Declaring(c)
  /\ UNCHANGED <<ledger, call, operations, faults>>

--------------------------------------------------------------------------------
(* The token endpoints: one ledger transaction each.  One that the ledger refuses *)
(* changes nothing.                                                                *)

\* POST /hts/unfreeze goes through its accounts, whatever becomes of each.
UnfreezeAccounts ==
  /\ Operate
  /\ Associated
  /\ account' = [account EXCEPT !.freeze = "released"]
  /\ UNCHANGED <<creds, vc, nfts, pc, call, declared, faults>>

\* POST /hts/wipe takes an NFT without looking for the credential it stands for.
SeizeNft(serial) ==
  /\ Operate
  /\ ~Frozen
  /\ serial \in DOMAIN nfts /\ nfts[serial] = "wallet"
  /\ nfts' = [nfts EXCEPT ![serial] = "seized"]
  /\ UNCHANGED <<creds, vc, account, pc, call, declared, faults>>

AssociateToken ==
  /\ Operate
  /\ ~Associated
  /\ account' = [associated |-> TRUE, freeze |-> "released"]
  /\ UNCHANGED <<creds, vc, nfts, pc, call, declared, faults>>

\* The ledger keeps an association that is frozen or has an NFT.
DissociateToken ==
  /\ Operate
  /\ Associated /\ ~Frozen
  /\ \A serial \in DOMAIN nfts : nfts[serial] # "wallet"
  /\ account' = [account EXCEPT !.associated = FALSE]
  /\ UNCHANGED <<creds, vc, nfts, pc, call, declared, faults>>

--------------------------------------------------------------------------------
(* Faults. *)

\* A request to a smart node, to IPFS, to the ledger or to the database fails,
\* or its answer is lost when it has had its effect.
CallFails(c) ==
  /\ faults < MaxFaults
  /\ faults' = faults + 1
  /\ pc[c] \notin Rest
  /\ pc' = [pc EXCEPT ![c] = "failed"]
  /\ UNCHANGED <<creds, ledger, call, declared, operations>>

Crash ==
  /\ faults < MaxFaults
  /\ faults' = faults + 1
  /\ Running # {}
  /\ pc' = [c \in Callers |-> IF c \in Running THEN "failed" ELSE pc[c]]
  /\ UNCHANGED <<creds, ledger, call, declared, operations>>

--------------------------------------------------------------------------------
IssueStep(c) ==
  \/ RegisterVC(c) \/ MintNft(c) \/ SaveMint(c) \/ UnfreezeNft(c) \/ CheckNft(c)
  \/ AssociateNft(c) \/ TransferNft(c) \/ SaveDelivered(c) \/ FreezeNft(c)
  \/ SaveActive(c)

ChangeStep(c) ==
  \/ PutStatus(c) \/ ReadStatus(c) \/ Thaw(c) \/ WipeNft(c) \/ SaveBurned(c)
  \/ Refreeze(c) \/ SaveFrozen(c) \/ SaveStatus(c)

Next ==
  \/ \E c \in Callers : FindCredential(c) \/ IssueStep(c) \/ ChangeStep(c) \/ CallFails(c)
  \/ \E c \in Callers, i \in 1..MaxCredentials, target \in Targets, w \in BOOLEAN :
       FindById(c, i, target, w)
  \/ \E serial \in 1..MaxSerials : SeizeNft(serial)
  \/ UnfreezeAccounts \/ AssociateToken \/ DissociateToken
  \/ Crash

Spec == Init /\ [][Next]_vars

\* A call that has started goes on, and its client repeats it when it fails.
FairSpec == Spec /\ \A c \in Callers : WF_vars(FindCredential(c) \/ IssueStep(c))

--------------------------------------------------------------------------------
(* Properties. *)

\* Documents, NFTs and calls keep their shapes; every document has a VC.
TypeOK ==
  /\ creds \in Seq(Credentials) /\ Len(creds) <= MaxCredentials
  /\ vc \in Seq(Chain) /\ Len(vc) = Len(creds)
  /\ nfts \in Seq({"treasury", "wallet", "wiped", "seized"}) /\ Len(nfts) <= MaxSerials
  /\ account \in Accounts
  /\ \A serial \in DOMAIN nfts : nfts[serial] = "wallet" => Associated
  /\ pc \in [Callers -> Rest \cup Issuing \cup Changing]
  /\ call \in [Callers -> CallData]
  /\ declared \subseteq DOMAIN creds
  /\ operations \in 0..MaxOperations
  /\ faults \in 0..MaxFaults

InWallet(cred) == Place(cred.serial) = "wallet"
Live(cred) == cred.chain \in {"active", "resumed"}
              /\ cred.internal \in {"delivered", "active", "resumed"}

\* "send the nft to the user wallet": a credential that is delivered or active has
\* its NFT in the wallet whenever no call is working on it, unless a status change has
\* declared it active, the token service has taken the NFT, or a revocation failed
\* between its wipe and its last save.
ActiveHasNft ==
  \A i \in DOMAIN creds :
    /\ creds[i].internal \in {"delivered", "active"} /\ i \notin declared
    /\ \A c \in Running : call[c].id # i
    => \/ Place(creds[i].serial) \in {"wallet", "seized"}
       \/ Place(creds[i].serial) = "wiped" /\ faults > 0

\* A retry never mints for a credential that has its NFT: the serial number that a
\* document has stored is the one it keeps, so the NFT is not lost to it.
SerialIsKept ==
  [][\A i \in DOMAIN creds :
       creds[i].serial # NoNft => creds'[i].serial = creds[i].serial]_vars

\* What the answer to a status change says of the VC is what the ledger says.  (A
\* call with wipeNFT leaves the ledger alone and records the status it was given.)
AnswerMatchesLedger ==
  [][\A c \in Callers :
       pc[c] = "saveStatus" /\ pc'[c] = "answered" /\ ~call[c].wipeOnly =>
         creds'[call[c].id].chain = vc[call[c].id]]_vars

\* "unfreeze and burn the NFT": when a revocation has been answered the NFT is gone,
\* and the account, which may hold the NFT of another credential, is frozen, unless
\* the token endpoints have unfrozen it, or have dissociated and associated it, since,
\* or the owner has other wallets and one of those was looked at.
RevocationIsComplete ==
  [][\A c \in Callers :
       pc[c] = "saveStatus" /\ pc'[c] = "answered" /\ call[c].target = "revoked" =>
         /\ Place(creds[call[c].id].serial) = "wiped"
         /\ account.freeze \in {"FROZEN", "released"}
              \cup (IF OtherWallets THEN {"missed"} ELSE {})
         /\ creds'[call[c].id].internal = "revoked"]_vars

\* "so to allow the recovery of a failed VC": however a call that started to issue
\* a credential ends, repeating it leads to an active one that stays delivered, and
\* frozen too if no more than one thing failed, as long as neither a status change nor
\* a token endpoint acts on it.  A second failure may hit a call that resumes a pending
\* credential after it has saved it as active and gone on to unfreeze it again: no
\* later call freezes it.
RetryRecovers ==
  \A c \in Callers :
    pc[c] = "register" ~>
      [](\/ operations > 0
         \/ \E i \in DOMAIN creds :
              /\ creds[i].internal = "active" /\ InWallet(creds[i])
              /\ account.freeze \in {"FROZEN", "missed"} \/ faults > 1)

\* "if the user already has an active credential, we throw an error": of two
\* credentials that are good at once a status change has resumed one, which hides it
\* from the search, or set one to active; calls that do not overlap never issue a
\* second one otherwise.
OneLiveUnlessReinstated ==
  \A i, j \in DOMAIN creds :
    Live(creds[i]) /\ Live(creds[j]) /\ i # j =>
      "resumed" \in {creds[i].chain, creds[j].chain} \/ {i, j} \cap declared # {}

================================================================================
