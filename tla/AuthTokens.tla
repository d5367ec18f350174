------------------------------ MODULE AuthTokens ------------------------------
(***************************************************************************)
(* Registration, login, refresh and logout: the one hashed refresh token   *)
(* that the server keeps of a user, and the tokens its clients hold.       *)
(*                                                                         *)
(* Source: auth/auth.service.ts and auth.controller.ts, the strategies in  *)
(* auth/strategies, common/guards/global-auth.guard.ts.  Every await on    *)
(* the database is a step; hashing and signing, which share nothing, are   *)
(* part of the step they precede.                                          *)
(***************************************************************************)
EXTENDS Naturals

CONSTANTS
  Accounts,  \* people who may register: each has an email and a username
  Taken(_, _), \* two accounts share the email or the username
  Clients,   \* browsers: each keeps a cookie and an access token
  Requests,  \* HTTP requests that may be in progress at once
  MaxTokens, \* bound: refresh tokens stored
  MaxFaults  \* bound: requests that fail or whose answer is lost

ASSUME TakenIsSymmetric ==
  \A a, b \in Accounts : Taken(a, b) \in BOOLEAN /\ Taken(a, a) /\ (Taken(a, b) => Taken(b, a))
ASSUME NobodyRegisters == {"none", "nobody"} \cap Accounts = {}
ASSUME BoundsAreNat == MaxTokens \in Nat /\ MaxFaults \in Nat

VARIABLES
  users,   \* the User documents
  hash,    \* currentHashedRefreshToken of each
  issued,  \* refresh tokens stored so far
  cookie,  \* the refreshToken cookie of each client
  bearer,  \* the user that the access token of each client names
  call,    \* what each request is and where
  voided,  \* history: tokens that a logout of their user has invalidated
  crossed, \* history: requests during which their user was logged out
  faults   \* faults so far

vars == <<users, hash, issued, cookie, bearer, call, voided, crossed, faults>>
stored == <<users, hash, issued>>
browsers == <<cookie, bearer>>
history == <<voided, crossed>>

NoHash == [sub |-> "none"]
NoToken == [sub |-> "none", n |-> 0]
Nobody == "nobody"
Tokens == [sub : Accounts, n : 1..MaxTokens]
NoCall == [kind |-> "none"]
Steps == {"insert", "find", "store", "answer", "denied"}
Kinds == {"register", "login", "refresh", "logout"}
Calls == [kind : Kinds, client : Clients, user : Accounts, token : Tokens \cup {NoToken},
          step : Steps]

Init ==
  /\ users = {}
  /\ hash = [a \in Accounts |-> NoHash]
  /\ issued = 0
  /\ cookie = [c \in Clients |-> NoToken]
  /\ bearer = [c \in Clients |-> Nobody]
  /\ call = [r \in Requests |-> NoCall]
  /\ voided = {}
  /\ crossed = {}
  /\ faults = 0

\* Mutant of Hash: every byte of a token counts.
HashWhole(token) == token

\* bcrypt reads 72 bytes.  Those of a refresh token are its header and the start of
\* {"sub":"<user id>..., the same in every token of one user.
Hash(token) == [sub |-> token.sub]

At(r, kind, step) == call[r].kind = kind /\ call[r].step = step
Start(r, kind, c, a, token, step) ==
  /\ call[r] = NoCall
  /\ call' = [call EXCEPT ![r] = [kind |-> kind, client |-> c, user |-> a,
                                  token |-> token, step |-> step]]
  /\ crossed' = crossed \ {r}
Continue(r, step) == call' = [call EXCEPT ![r].step = step]

\* JwtStrategy: the user is the sub of the access token ...
JwtUser(c) == bearer[c]

\* ... and GlobalAuthGuard looks it up.
CanActivate(c) == JwtUser(c) \in users

--------------------------------------------------------------------------------
(* Mutants: what the actions below would be with a plausible bug. *)

\* SaveUser: the schema has no unique index.
SaveUserAnyway(r) ==
  /\ At(r, "register", "insert")
  /\ Continue(r, "answer")
  /\ users' = users \cup {call[r].user}
  /\ UNCHANGED <<hash, issued, browsers, history, faults>>

\* FindHash: that nothing is stored is not looked at.
FindHashOrNone(r) ==
  /\ At(r, "refresh", "find")
  /\ Continue(r, IF hash[call[r].user] \in {NoHash, Hash(call[r].token)}
                 THEN "store" ELSE "denied")
  /\ UNCHANGED <<stored, browsers, history, faults>>

--------------------------------------------------------------------------------
(* Registration. *)

\* register: nobody has the email or the username ...
Register(r, c, a) ==
  /\ Start(r, "register", c, a, NoToken,
           IF \E b \in users : Taken(a, b) THEN "denied" ELSE "insert")
  /\ UNCHANGED <<stored, browsers, voided, faults>>

\* ... and the document is saved after the password has been hashed.  Both fields
\* have a unique index.
SaveUser(r) ==
  /\ At(r, "register", "insert")
  /\ LET a == call[r].user IN
       IF \E b \in users : Taken(a, b)
       THEN Continue(r, "denied") /\ UNCHANGED users
       ELSE Continue(r, "answer") /\ users' = users \cup {a}
  /\ UNCHANGED <<hash, issued, browsers, history, faults>>

--------------------------------------------------------------------------------
(* Login, refresh and logout. *)

\* validateUser: findOne, by email or by username, and compare.
ValidateUser(a, rightPassword) == a \in users /\ rightPassword

\* LocalStrategy answers 401 unless the user is validated.
Login(r, c, a) ==
  /\ \E rightPassword \in BOOLEAN :
       Start(r, "login", c, a, NoToken,
             IF ValidateUser(a, rightPassword) THEN "store" ELSE "denied")
  /\ UNCHANGED <<stored, browsers, voided, faults>>

\* POST refresh passes both guards: the cookie carries a token of the server's own.
Refresh(r, c) ==
  /\ CanActivate(c)
  /\ cookie[c] # NoToken
  /\ Start(r, "refresh", c, cookie[c].sub, cookie[c], "find")
  /\ UNCHANGED <<stored, browsers, voided, faults>>

\* refreshTokens: findById, and compare with what it found.
FindHash(r) ==
  /\ At(r, "refresh", "find")
  /\ LET found == hash[call[r].user] IN
       Continue(r, IF found # NoHash /\ Hash(call[r].token) = found
                   THEN "store" ELSE "denied")
  /\ UNCHANGED <<stored, browsers, history, faults>>

\* updateRefreshToken with the token that getTokens has signed.
StoreHash(r) ==
  /\ \/ At(r, "login", "store")
     \/ At(r, "refresh", "store")
  /\ issued < MaxTokens
  /\ LET token == [sub |-> call[r].user, n |-> issued + 1] IN
       /\ call' = [call EXCEPT ![r].step = "answer", ![r].token = token]
       /\ hash' = [hash EXCEPT ![call[r].user] = Hash(token)]
  /\ issued' = issued + 1
  /\ UNCHANGED <<users, browsers, history, faults>>

\* logout is for the user of the access token.
Logout(r, c) ==
  /\ CanActivate(c)
  /\ Start(r, "logout", c, JwtUser(c), NoToken, "store")
  /\ UNCHANGED <<stored, browsers, voided, faults>>

ClearHash(r) ==
  /\ At(r, "logout", "store")
  /\ Continue(r, "answer")
  /\ hash' = [hash EXCEPT ![call[r].user] = NoHash]
  /\ voided' = voided \cup {t \in Tokens : t.sub = call[r].user /\ t.n <= issued}
  /\ crossed' = crossed \cup {q \in Requests : call[q] # NoCall /\ call[q].user = call[r].user}
  /\ UNCHANGED <<users, issued, browsers, faults>>

--------------------------------------------------------------------------------
(* Answers. *)

\* The cookie and the access token of an answer replace those of the client.
AnswerTokens(r) ==
  /\ \/ At(r, "login", "answer")
     \/ At(r, "refresh", "answer")
  /\ cookie' = [cookie EXCEPT ![call[r].client] = call[r].token]
  /\ bearer' = [bearer EXCEPT ![call[r].client] = call[r].user]
  /\ call' = [call EXCEPT ![r] = NoCall]
  /\ UNCHANGED <<stored, history, faults>>

\* clearCookie; the access token is the client's to forget.
AnswerLogout(r) ==
  /\ At(r, "logout", "answer")
  /\ cookie' = [cookie EXCEPT ![call[r].client] = NoToken]
  /\ call' = [call EXCEPT ![r] = NoCall]
  /\ UNCHANGED <<stored, bearer, history, faults>>

\* An account that was created, or an error.
AnswerOther(r) ==
  /\ \/ At(r, "register", "answer")
     \/ call[r] # NoCall /\ call[r].step = "denied"
  /\ call' = [call EXCEPT ![r] = NoCall]
  /\ UNCHANGED <<stored, browsers, history, faults>>

\* The database or the server fails, or the answer is lost on its way.
Fail(r) ==
  /\ faults < MaxFaults
  /\ faults' = faults + 1
  /\ call[r] # NoCall
  /\ call' = [call EXCEPT ![r] = NoCall]
  /\ UNCHANGED <<stored, browsers, history>>

--------------------------------------------------------------------------------
RequestStep(r) ==
  \/ SaveUser(r) \/ FindHash(r) \/ StoreHash(r) \/ ClearHash(r)
  \/ AnswerTokens(r) \/ AnswerLogout(r) \/ AnswerOther(r)

Next ==
  \/ \E r \in Requests : RequestStep(r) \/ Fail(r)
  \/ \E r \in Requests, c \in Clients : Refresh(r, c) \/ Logout(r, c)
  \/ \E r \in Requests, c \in Clients, a \in Accounts : Register(r, c, a) \/ Login(r, c, a)

Spec == Init /\ [][Next]_vars

--------------------------------------------------------------------------------
(* Properties. *)

\* Documents, tokens and requests keep their shapes, and only a user has a token.
TypeOK ==
  /\ users \subseteq Accounts
  /\ \A a, b \in users : Taken(a, b) => a = b
  /\ hash \in [Accounts -> {NoHash} \cup {Hash(t) : t \in Tokens}]
  /\ \A a \in Accounts \ users : hash[a] = NoHash
  /\ issued \in 0..MaxTokens
  /\ cookie \in [Clients -> Tokens \cup {NoToken}]
  /\ bearer \in [Clients -> users \cup {Nobody}]
  /\ call \in [Requests -> Calls \cup {NoCall}]
  /\ voided \subseteq Tokens
  /\ crossed \subseteq Requests
  /\ faults \in 0..MaxFaults

\* Whatever answers are lost, however many tabs and devices refresh at once and in
\* whatever order their answers arrive, the cookie that a client holds is one that
\* the server accepts, as long as the user has not logged out since it was stored.
KeptCookieWorks ==
  \A c \in Clients :
    cookie[c] \in Tokens \ voided => hash[cookie[c].sub] = Hash(cookie[c])

\* "Refresh token invalidated": after a logout a token is stored again only by a
\* login, or by a refresh that was in progress when the logout took effect.
LogoutHolds ==
  [][\A a \in Accounts :
       hash[a] = NoHash /\ hash'[a] # NoHash =>
         \E r \in Requests :
           /\ call[r].kind = "login" \/ (call[r].kind = "refresh" /\ r \in crossed)
           /\ call[r].user = a /\ call[r].step = "store" /\ call'[r].step = "answer"]_vars

================================================================================
