--------------------------- MODULE AuthTokensProofs ---------------------------
(***************************************************************************)
(* Theorems of AuthTokens for any accounts, browsers and requests, any     *)
(* number of tokens and any number of faults.                              *)
(***************************************************************************)
EXTENDS AuthTokens, TLAPS

USE NobodyRegisters, BoundsAreNat

\* What is stored of a user is the start of one of the user's own tokens.
HashInv == \A a \in Accounts : hash[a] \in {NoHash, [sub |-> a]}

\* A request that has passed its checks is about a user that exists ...
CallInv(r) ==
  LET q == call[r] IN
  /\ q.kind \in {"login", "refresh", "logout"} /\ q.step # "denied" => q.user \in users
  /\ q.kind = "refresh" /\ q.step = "find" => q.token \in Tokens /\ q.token.sub = q.user
  \* ... what it is about to answer is a token that works, unless a logout has come
  \* in between ...
  /\ q.kind \in {"login", "refresh"} /\ q.step = "answer" =>
       /\ q.token \in Tokens /\ q.token.sub = q.user /\ q.token.n <= issued
       /\ q.token \notin voided => hash[q.user] = [sub |-> q.user]
  \* ... and it knows of every logout since it has compared its token.
  /\ q.kind = "refresh" /\ q.step = "store" => hash[q.user] # NoHash \/ r \in crossed

CookieInv ==
  \A c \in Clients : cookie[c] \in Tokens =>
    /\ cookie[c].sub \in users
    /\ cookie[c].n <= issued
    /\ cookie[c] \notin voided => hash[cookie[c].sub] = [sub |-> cookie[c].sub]

TokenInv ==
  /\ TypeOK
  /\ HashInv
  /\ \A r \in Requests : CallInv(r)
  /\ CookieInv

--------------------------------------------------------------------------------
(* Shapes that the steps of the proof need over and over. *)

LEMMA NoneIsDistinct ==
  /\ NoCall \notin Calls
  /\ NoToken \notin Tokens
  /\ \A a \in Accounts : NoHash # [sub |-> a]
  /\ Nobody \notin Accounts
<1>1. NoCall \notin Calls
  <2>1. ASSUME NoCall \in Calls PROVE FALSE
    <3>1. DOMAIN NoCall = {"kind", "client", "user", "token", "step"}
      BY <2>1 DEF Calls
    <3>2. DOMAIN NoCall = {"kind"}
      BY DEF NoCall
    <3>3. QED
      BY <3>1, <3>2
  <2>2. QED
    BY <2>1
<1>2. NoToken \notin Tokens
  BY DEF NoToken, Tokens
<1>3. \A a \in Accounts : NoHash # [sub |-> a]
  <2>1. SUFFICES ASSUME NEW a \in Accounts, NoHash = [sub |-> a] PROVE FALSE
    OBVIOUS
  <2>2. NoHash.sub = a
    BY <2>1
  <2>3. QED
    BY <2>2 DEF NoHash
<1>4. QED
  BY <1>1, <1>2, <1>3 DEF Nobody

LEMMA TokenInvInit == Init => TokenInv
<1>1. SUFFICES ASSUME Init PROVE TokenInv
  OBVIOUS
<1>2. TypeOK
  BY <1>1 DEF Init, TypeOK
<1>3. HashInv
  BY <1>1 DEF Init, HashInv
<1>4. \A r \in Requests : CallInv(r)
  BY <1>1 DEF Init, CallInv, NoCall
<1>5. CookieInv
  BY <1>1, NoneIsDistinct DEF Init, CookieInv
<1>6. QED
  BY <1>2, <1>3, <1>4, <1>5 DEF TokenInv

--------------------------------------------------------------------------------
(* One step.  Only StoreHash and ClearHash touch what is stored of a user. *)

LEMMA CallExists ==
  ASSUME TypeOK, NEW r \in Requests, call[r] # NoCall
  PROVE  call[r] \in Calls
BY DEF TypeOK

\* A request that starts changes only its own entry, and what it is about has been
\* checked.
LEMMA StartKeeps ==
  ASSUME TokenInv, NEW r \in Requests, NEW kind \in Kinds, NEW c \in Clients,
         NEW a \in Accounts, NEW token \in Tokens \cup {NoToken}, NEW step \in Steps,
         Start(r, kind, c, a, token, step),
         UNCHANGED <<stored, browsers, voided, faults>>,
         kind \in {"login", "refresh", "logout"} /\ step # "denied" => a \in users,
         kind = "refresh" => step = "find" /\ token \in Tokens /\ token.sub = a,
         kind = "login" => step \in {"store", "denied"}
  PROVE  TokenInv'
<1> USE DEF TokenInv, stored, browsers, Start
<1>1. [kind |-> kind, client |-> c, user |-> a, token |-> token, step |-> step] \in Calls
  BY DEF Calls
<1>2. TypeOK'
  BY <1>1 DEF TypeOK
<1>3. HashInv' /\ CookieInv'
  BY DEF HashInv, CookieInv
<1>4. ASSUME NEW q \in Requests PROVE CallInv(q)'
  <2>1. CASE q = r
    BY <2>1 DEF CallInv, TypeOK
  <2>2. CASE q # r
    <3>1. call'[q] = call[q] /\ (q \in crossed <=> q \in crossed')
      BY <2>2 DEF TypeOK
    <3>2. CallInv(q)
      OBVIOUS
    <3>3. QED
      BY <3>1, <3>2 DEF CallInv
  <2>3. QED
    BY <2>1, <2>2
<1>5. QED
  BY <1>2, <1>3, <1>4

LEMMA BeginKeeps ==
  ASSUME TokenInv, NEW r \in Requests, NEW c \in Clients,
         \/ Refresh(r, c)
         \/ Logout(r, c)
         \/ \E a \in Accounts : Register(r, c, a) \/ Login(r, c, a)
  PROVE  TokenInv'
<1> USE DEF Steps, Kinds
<1>1. CASE Refresh(r, c)
  <2>1. cookie[c] \in Tokens /\ cookie[c].sub \in Accounts /\ cookie[c].sub \in users
    BY <1>1 DEF Refresh, TokenInv, TypeOK, CookieInv, Tokens
  <2>2. QED
    BY <1>1, <2>1, StartKeeps DEF Refresh
<1>2. CASE Logout(r, c)
  <2>1. JwtUser(c) \in users /\ JwtUser(c) \in Accounts
    BY <1>2 DEF Logout, CanActivate, TokenInv, TypeOK
  <2>2. QED
    BY <1>2, <2>1, StartKeeps DEF Logout
<1>3. ASSUME NEW a \in Accounts, Register(r, c, a)
      PROVE  TokenInv'
  <2>1. PICK step \in {"denied", "insert"} : Start(r, "register", c, a, NoToken, step)
    BY <1>3 DEF Register
  <2>2. QED
    BY <1>3, <2>1, StartKeeps DEF Register
<1>4. ASSUME NEW a \in Accounts, Login(r, c, a)
      PROVE  TokenInv'
  <2>1. PICK step \in {"denied", "store"} :
          Start(r, "login", c, a, NoToken, step) /\ (step = "store" => a \in users)
    BY <1>4 DEF Login, ValidateUser
  <2>2. QED
    BY <1>4, <2>1, StartKeeps DEF Login
<1>5. QED
  BY <1>1, <1>2, <1>3, <1>4

LEMMA StoreKeeps ==
  ASSUME TokenInv, NEW r \in Requests, StoreHash(r)
  PROVE  TokenInv'
<1> DEFINE u == call[r].user
           token == [sub |-> u, n |-> issued + 1]
<1>1. call[r] \in Calls /\ call[r].kind \in {"login", "refresh"} /\ call[r].step = "store"
  BY CallExists DEF StoreHash, At, TokenInv, NoCall
<1>2. u \in users /\ u \in Accounts /\ token \in Tokens
  <2>1. u \in Accounts
    BY <1>1 DEF Calls
  <2>2. u \in users
    BY <1>1 DEF TokenInv, CallInv
  <2>3. issued + 1 \in 1..MaxTokens
    BY DEF TokenInv, TypeOK, StoreHash
  <2>4. QED
    BY <2>1, <2>2, <2>3 DEF Tokens
<1>3. /\ call' = [call EXCEPT ![r].step = "answer", ![r].token = token]
      /\ hash' = [hash EXCEPT ![u] = [sub |-> u]]
      /\ issued' = issued + 1 /\ issued < MaxTokens
      /\ UNCHANGED <<users, cookie, bearer, voided, crossed, faults>>
  BY DEF StoreHash, Hash, browsers, history
<1> HIDE DEF u, token
<1>4. call'[r] \in Calls
  BY <1>1, <1>2, <1>3 DEF Calls, Steps, TokenInv, TypeOK
<1>5. Hash(token) = [sub |-> u]
  BY DEF Hash, token
<1>6. TypeOK'
  BY <1>2, <1>3, <1>4, <1>5 DEF TokenInv, TypeOK
<1>7. HashInv'
  BY <1>2, <1>3 DEF TokenInv, TypeOK, HashInv
<1>8. CookieInv'
  BY <1>2, <1>3 DEF TokenInv, TypeOK, CookieInv, Tokens
<1>9. ASSUME NEW q \in Requests PROVE CallInv(q)'
  <2>1. CASE q = r
    <3>1. /\ call'[q].kind = call[r].kind /\ call'[q].user = u
          /\ call'[q].step = "answer" /\ call'[q].token = token
      BY <1>1, <1>3, <2>1 DEF TokenInv, TypeOK, u, Calls
    <3>2. token.sub = u /\ token.n = issued'
      BY <1>3 DEF token
    <3>3. hash'[u] = [sub |-> u]
      BY <1>2, <1>3 DEF TokenInv, TypeOK
    <3>4. users' = users /\ issued' \in Nat
      BY <1>3 DEF TokenInv, TypeOK
    <3>5. QED
      BY <1>2, <3>1, <3>2, <3>3, <3>4 DEF CallInv
  <2>2. CASE q # r
    <3>1. call'[q] = call[q] /\ CallInv(q)
      BY <1>3, <2>2 DEF TokenInv, TypeOK
    <3>2. ASSUME NEW a \in Accounts
          PROVE  hash'[a] = hash[a] \/ (hash'[a] = [sub |-> a] /\ hash'[a] # NoHash)
      BY <1>2, <1>3, NoneIsDistinct DEF TokenInv, TypeOK
    <3>3. call[q] # NoCall => call[q].user \in Accounts
      BY CallExists DEF TokenInv, Calls
    <3>4. call[q].kind \in {"login", "refresh"} => call[q] # NoCall
      BY DEF NoCall
    <3>5. call[q].token \in Tokens => call[q].token.n \in Nat
      BY DEF Tokens
    <3>6. UNCHANGED <<users, voided, crossed>> /\ issued \in Nat /\ issued' = issued + 1
      BY <1>3 DEF TokenInv, TypeOK
    <3>7. QED
      BY <3>1, <3>2, <3>3, <3>4, <3>5, <3>6 DEF CallInv
  <2>3. QED
    BY <2>1, <2>2
<1>10. QED
  BY <1>6, <1>7, <1>8, <1>9 DEF TokenInv

LEMMA ClearKeeps ==
  ASSUME TokenInv, NEW r \in Requests, ClearHash(r)
  PROVE  TokenInv'
<1> DEFINE u == call[r].user
<1>1. call[r] \in Calls /\ call[r].kind = "logout" /\ call[r].step = "store"
  BY CallExists DEF ClearHash, At, TokenInv, NoCall
<1>2. u \in Accounts
  BY <1>1 DEF Calls
<1>3. /\ call' = [call EXCEPT ![r].step = "answer"]
      /\ hash' = [hash EXCEPT ![u] = NoHash]
      /\ voided' = voided \cup {t \in Tokens : t.sub = u /\ t.n <= issued}
      /\ crossed' = crossed \cup {q \in Requests : call[q] # NoCall /\ call[q].user = u}
      /\ UNCHANGED <<users, issued, cookie, bearer, faults>>
  BY DEF ClearHash, Continue, browsers
<1> HIDE DEF u
<1>4. call'[r] \in Calls /\ call'[r].kind = "logout" /\ call'[r].step = "answer"
      /\ call'[r].user = call[r].user
  BY <1>1, <1>3 DEF Calls, Steps, TokenInv, TypeOK
<1>5. TypeOK'
  BY <1>2, <1>3, <1>4 DEF TokenInv, TypeOK
<1>6. HashInv'
  BY <1>2, <1>3 DEF TokenInv, TypeOK, HashInv
<1>7. CookieInv'
  BY <1>2, <1>3 DEF TokenInv, TypeOK, CookieInv
<1>8. ASSUME NEW q \in Requests PROVE CallInv(q)'
  <2>1. CASE q = r
    BY <1>1, <1>3, <1>4, <2>1 DEF CallInv, TokenInv, TypeOK
  <2>2. CASE q # r
    <3>1. call'[q] = call[q] /\ CallInv(q)
      BY <1>3, <2>2 DEF TokenInv, TypeOK
    <3>2. call[q].kind \in {"login", "refresh"} => call[q] \in Calls /\ call[q] # NoCall
      BY CallExists DEF NoCall, TokenInv
    <3>3. call[q].kind \in {"login", "refresh"} /\ call[q].user # u =>
            hash'[call[q].user] = hash[call[q].user]
      BY <1>2, <1>3, <3>2 DEF TokenInv, TypeOK, Calls
    <3>4. CASE call[q].user = u
      <4>1. call[q].kind = "refresh" => q \in crossed'
        BY <1>3, <3>2, <3>4
      <4>2. call[q].token \in Tokens /\ call[q].token.sub = u /\ call[q].token.n <= issued
            => call[q].token \in voided'
        BY <1>3
      <4>3. UNCHANGED <<users, issued>>
        BY <1>3
      <4>4. QED
        BY <3>1, <3>4, <4>1, <4>2, <4>3 DEF CallInv
    <3>5. CASE call[q].user # u
      <4>1. voided \subseteq voided' /\ crossed \subseteq crossed' /\ UNCHANGED <<users, issued>>
        BY <1>3
      <4>2. QED
        BY <3>1, <3>3, <3>5, <4>1 DEF CallInv
    <3>6. QED
      BY <3>4, <3>5
  <2>3. QED
    BY <2>1, <2>2
<1>9. QED
  BY <1>5, <1>6, <1>7, <1>8 DEF TokenInv

\* The other steps leave the stored hashes alone and move one request on, or end it.
LEMMA MoveKeeps ==
  ASSUME TokenInv, NEW r \in Requests, call[r] # NoCall,
         UNCHANGED <<hash, issued, voided, crossed>>,
         users \subseteq users',
         \E q \in Calls \cup {NoCall} : call' = [call EXCEPT ![r] = q],
         TypeOK', CookieInv', CallInv(r)'
  PROVE  TokenInv'
<1>1. HashInv'
  BY DEF TokenInv, HashInv
<1>2. ASSUME NEW q \in Requests, q # r PROVE CallInv(q)'
  <2>1. call'[q] = call[q] /\ CallInv(q)
    BY <1>2 DEF TokenInv, TypeOK
  <2>2. QED
    BY <2>1 DEF CallInv
<1>3. QED
  BY <1>1, <1>2 DEF TokenInv

LEMMA SaveUserKeeps ==
  ASSUME TokenInv, NEW r \in Requests, SaveUser(r)
  PROVE  TokenInv'
<1>1. call[r] \in Calls /\ call[r].kind = "register" /\ call[r] # NoCall
  BY CallExists DEF SaveUser, At, TokenInv, NoCall
<1>2. PICK step \in {"denied", "answer"} :
        /\ call' = [call EXCEPT ![r] = [call[r] EXCEPT !.step = step]]
        /\ users' = users \/ (users' = users \cup {call[r].user}
                              /\ \A b \in users : ~Taken(call[r].user, b))
        /\ UNCHANGED <<hash, issued, cookie, bearer, voided, crossed, faults>>
  BY DEF SaveUser, Continue, browsers, history
<1>3. call'[r] \in Calls /\ call'[r].kind = "register"
      /\ [call[r] EXCEPT !.step = step] \in Calls
  BY <1>1, <1>2 DEF Calls, Steps, TokenInv, TypeOK
<1>4. call[r].user \in Accounts
  BY <1>1 DEF Calls
<1>5. users \subseteq users' /\ users' \subseteq Accounts
  BY <1>2, <1>4 DEF TokenInv, TypeOK
<1>6. \A a, b \in users' : Taken(a, b) => a = b
  BY <1>2, <1>4, TakenIsSymmetric DEF TokenInv, TypeOK
<1>7. TypeOK'
  BY <1>2, <1>3, <1>5, <1>6 DEF TokenInv, TypeOK
<1>8. CookieInv'
  BY <1>2, <1>5 DEF TokenInv, CookieInv
<1>9. CallInv(r)'
  BY <1>3 DEF CallInv
<1>10. QED
  BY <1>1, <1>2, <1>3, <1>5, <1>7, <1>8, <1>9, MoveKeeps

LEMMA FindKeeps ==
  ASSUME TokenInv, NEW r \in Requests, FindHash(r)
  PROVE  TokenInv'
<1>1. call[r] \in Calls /\ call[r].kind = "refresh" /\ call[r].step = "find"
      /\ call[r] # NoCall
  BY CallExists DEF FindHash, At, TokenInv, NoCall
<1>2. PICK step \in {"denied", "store"} :
        /\ call' = [call EXCEPT ![r] = [call[r] EXCEPT !.step = step]]
        /\ step = "store" => hash[call[r].user] # NoHash
        /\ UNCHANGED <<users, hash, issued, cookie, bearer, voided, crossed, faults>>
  BY DEF FindHash, Continue, stored, browsers, history
<1>3. [call[r] EXCEPT !.step = step] \in Calls
  BY <1>1 DEF Calls, Steps
<1>4. /\ call'[r] \in Calls /\ call'[r].kind = "refresh" /\ call'[r].step = step
      /\ call'[r].user = call[r].user
  BY <1>1, <1>2, <1>3 DEF Calls, TokenInv, TypeOK
<1>5. TypeOK'
  BY <1>2, <1>3 DEF TokenInv, TypeOK
<1>6. CookieInv'
  BY <1>2 DEF TokenInv, CookieInv
<1>7. call[r].user \in users
  BY <1>1 DEF TokenInv, CallInv
<1>8. CallInv(r)'
  BY <1>2, <1>4, <1>7 DEF CallInv
<1>9. QED
  BY <1>1, <1>2, <1>3, <1>5, <1>6, <1>8, MoveKeeps

\* A request that ends leaves nothing behind in the server.
LEMMA EndKeeps ==
  ASSUME TokenInv, NEW r \in Requests, call[r] # NoCall,
         call' = [call EXCEPT ![r] = NoCall],
         UNCHANGED <<users, hash, issued, voided, crossed>>,
         CookieInv', bearer' \in [Clients -> users \cup {Nobody}],
         cookie' \in [Clients -> Tokens \cup {NoToken}], faults' \in 0..MaxFaults
  PROVE  TokenInv'
<1>1. TypeOK'
  BY DEF TokenInv, TypeOK
<1>2. CallInv(r)'
  BY DEF TokenInv, TypeOK, CallInv, NoCall
<1>3. QED
  BY <1>1, <1>2, MoveKeeps

LEMMA AnswerKeeps ==
  ASSUME TokenInv, NEW r \in Requests,
         AnswerTokens(r) \/ AnswerLogout(r) \/ AnswerOther(r) \/ Fail(r)
  PROVE  TokenInv'
<1>1. call[r] # NoCall /\ call' = [call EXCEPT ![r] = NoCall]
      /\ UNCHANGED <<users, hash, issued, voided, crossed>>
  BY DEF AnswerTokens, AnswerLogout, AnswerOther, Fail, At, NoCall, stored, history
<1>2. call[r] \in Calls
  BY <1>1, CallExists DEF TokenInv
<1>3. call[r].client \in Clients /\ call[r].user \in Accounts
  BY <1>2 DEF Calls
<1>4. CASE AnswerTokens(r)
  <2>1. call[r].kind \in {"login", "refresh"} /\ call[r].step = "answer"
    BY <1>4 DEF AnswerTokens, At
  <2>2. /\ call[r].user \in users /\ call[r].token \in Tokens
        /\ call[r].token.sub = call[r].user /\ call[r].token.n <= issued
        /\ call[r].token \notin voided => hash[call[r].user] = [sub |-> call[r].user]
    BY <2>1 DEF TokenInv, CallInv
  <2>3. /\ cookie' = [cookie EXCEPT ![call[r].client] = call[r].token]
        /\ bearer' = [bearer EXCEPT ![call[r].client] = call[r].user]
        /\ faults' = faults
    BY <1>4 DEF AnswerTokens
  <2>4. CookieInv'
    BY <1>1, <1>3, <2>2, <2>3 DEF TokenInv, TypeOK, CookieInv
  <2>5. bearer' \in [Clients -> users \cup {Nobody}]
        /\ cookie' \in [Clients -> Tokens \cup {NoToken}] /\ faults' \in 0..MaxFaults
    BY <2>2, <2>3 DEF TokenInv, TypeOK
  <2>6. QED
    BY <1>1, <2>4, <2>5, EndKeeps
<1>5. CASE AnswerLogout(r)
  <2>1. cookie' = [cookie EXCEPT ![call[r].client] = NoToken] /\ UNCHANGED <<bearer, faults>>
    BY <1>5 DEF AnswerLogout
  <2>2. CookieInv'
    BY <1>1, <1>3, <2>1, NoneIsDistinct DEF TokenInv, TypeOK, CookieInv
  <2>3. QED
    BY <1>1, <2>1, <2>2, EndKeeps DEF TokenInv, TypeOK
<1>6. CASE AnswerOther(r) \/ Fail(r)
  <2>1. UNCHANGED <<cookie, bearer>> /\ faults' \in 0..MaxFaults
    BY <1>6 DEF AnswerOther, Fail, browsers, TokenInv, TypeOK
  <2>2. CookieInv'
    BY <1>1, <2>1 DEF TokenInv, CookieInv
  <2>3. QED
    BY <1>1, <2>1, <2>2, EndKeeps DEF TokenInv, TypeOK
<1>7. QED
  BY <1>4, <1>5, <1>6

LEMMA TokenInvStep == TokenInv /\ [Next]_vars => TokenInv'
<1>1. SUFFICES ASSUME TokenInv, [Next]_vars PROVE TokenInv'
  OBVIOUS
<1>2. ASSUME NEW r \in Requests, RequestStep(r) \/ Fail(r) PROVE TokenInv'
  BY <1>1, <1>2, SaveUserKeeps, FindKeeps, StoreKeeps, ClearKeeps, AnswerKeeps DEF RequestStep
<1>3. CASE UNCHANGED vars
  BY <1>1, <1>3 DEF vars, TokenInv, TypeOK, HashInv, CallInv, CookieInv
<1>4. QED
  BY <1>1, <1>2, <1>3, BeginKeeps DEF Next

--------------------------------------------------------------------------------
LEMMA TokenInvariant == Spec => []TokenInv
BY TokenInvInit, TokenInvStep, PTL DEF Spec

\* Documents, tokens and requests keep their shapes, with any number of registrations
\* of one email and of logins, refreshes and logouts at once.
THEOREM TypesKeep == Spec => []TypeOK
<1>1. TokenInv => TypeOK
  BY DEF TokenInv
<1>2. QED
  BY TokenInvariant, <1>1, PTL

\* A browser is never left with a cookie that the server refuses, unless its user has
\* logged out: for any number of browsers, requests and lost answers.
THEOREM CookiesKeepWorking == Spec => []KeptCookieWorks
<1>1. TokenInv => KeptCookieWorks
  BY DEF TokenInv, CookieInv, KeptCookieWorks, Hash
<1>2. QED
  BY TokenInvariant, <1>1, PTL

\* Nothing that starts after a logout stores a token, but a login: a refresh that does
\* has compared its token before.
THEOREM LogoutsHold == Spec => LogoutHolds
<1> DEFINE Revived(a) == \E r \in Requests :
             /\ call[r].kind = "login" \/ (call[r].kind = "refresh" /\ r \in crossed)
             /\ call[r].user = a /\ call[r].step = "store" /\ call'[r].step = "answer"
<1>1. ASSUME TokenInv, [Next]_vars, NEW a \in Accounts,
             hash[a] = NoHash, hash'[a] # NoHash
      PROVE  Revived(a)
  <2>1. ASSUME NEW r \in Requests, StoreHash(r) PROVE Revived(a)
    <3>1. call[r] \in Calls /\ call[r].step = "store" /\ call[r].kind \in {"login", "refresh"}
      BY <1>1, <2>1, CallExists DEF StoreHash, At, TokenInv, NoCall
    <3>2. call[r].user = a
      BY <1>1, <2>1, <3>1 DEF StoreHash, TokenInv, TypeOK, Calls
    <3>3. call'[r].step = "answer"
      BY <1>1, <2>1, <3>1 DEF StoreHash, TokenInv, TypeOK, Calls
    <3>4. call[r].kind = "refresh" => r \in crossed
      BY <1>1, <3>1, <3>2 DEF TokenInv, CallInv
    <3>5. QED
      BY <3>1, <3>2, <3>3, <3>4
  <2>2. ASSUME NEW r \in Requests, ClearHash(r) PROVE FALSE
    <3>1. call[r].user \in Accounts
      BY <1>1, <2>2, CallExists DEF ClearHash, At, TokenInv, NoCall, Calls
    <3>2. QED
      BY <1>1, <2>2, <3>1 DEF ClearHash, TokenInv, TypeOK
  <2>3. ASSUME NEW r \in Requests,
               SaveUser(r) \/ FindHash(r) \/ AnswerTokens(r) \/ AnswerLogout(r)
                 \/ AnswerOther(r) \/ Fail(r)
        PROVE  FALSE
    BY <1>1, <2>3 DEF SaveUser, FindHash, AnswerTokens, AnswerLogout, AnswerOther, Fail, stored
  <2>4. ASSUME NEW r \in Requests, NEW c \in Clients,
               \/ Refresh(r, c)
               \/ Logout(r, c)
               \/ \E b \in Accounts : Register(r, c, b) \/ Login(r, c, b)
        PROVE  FALSE
    BY <1>1, <2>4 DEF Refresh, Logout, Register, Login, stored
  <2>5. QED
    BY <1>1, <2>1, <2>2, <2>3, <2>4 DEF Next, RequestStep, vars
<1>2. TokenInv /\ [Next]_vars =>
        [\A a \in Accounts : hash[a] = NoHash /\ hash'[a] # NoHash => Revived(a)]_vars
  BY <1>1
<1>3. QED
  BY TokenInvariant, <1>2, PTL DEF Spec, LogoutHolds
===============================================================================
