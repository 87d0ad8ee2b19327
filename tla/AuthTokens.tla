----------------------------- MODULE AuthTokens -----------------------------
(***************************************************************************)
(* Accounts and JSON web tokens: AuthService and JwtAuthGuard of the API.   *)
(* A process that accepts its environment (Configuration) serves register,  *)
(* login, refresh and guarded calls over the table User; every awaited      *)
(* query and every signing is a step.  A request runs once and names the    *)
(* user it inserts.                                                         *)
(*                                                                          *)
(* A token is its claims, its expiry and the secret that signed it.  The    *)
(* secrets and life times are what the configuration holds: two secrets     *)
(* that are equal, the published secret of the other kind of token, or a    *)
(* life time that jsonwebtoken cannot read, are accepted by it.  bcrypt     *)
(* reads the first 72 bytes of a password: longer ones can have one hash.   *)
(***************************************************************************)
EXTENDS Configuration, Integers

CONSTANTS
  Environments,  \* bound: the environments a process may be started in
  Requests,      \* bound: the requests of a run
  Spellings,     \* e-mail addresses as clients write them
  Lower(_),      \* toLowerCase, after trimming
  Passwords,     \* of 8 characters at least, which is what login asks
  Registrable,   \* those of at most 128, which register accepts
  Hashed(_),     \* what bcrypt reads of a password: its first 72 bytes
  NoToken,
  TimeSpan(_),   \* what jsonwebtoken makes of expiresIn, "-1d" included
  NoSpan,        \* and when it throws
  TimeBound      \* bound on the clock

ASSUME AuthTokensAssumption ==
  /\ \A s \in Spellings : Lower(s) \in Spellings /\ Lower(Lower(s)) = Lower(s)
  /\ Spellings # {} /\ Passwords # {} /\ Registrable \subseteq Passwords
  /\ TimeBound \in Nat
  /\ Environments \subseteq EnvironmentVariables
  /\ \A e \in Environments :
       LET accepted == validateEnvironment(e)
       IN  accepted # Refused =>
             {TimeSpan(accepted.JWT_ACCESS_EXPIRES_IN), TimeSpan(accepted.JWT_REFRESH_EXPIRES_IN)}
               \subseteq Int \cup {NoSpan}
  /\ \A n \in DOMAIN SecretFallback : SecretFallback[n] \in STRING

VARIABLES
  conf,   \* what validateEnvironment returned
  users,  \* table User: id -> e-mail and hash of the password
  now,    \* the clock that signs and verifies
  req     \* what each request is doing

vars == <<conf, users, now, req>>

Ops == {"none", "register", "login", "refresh", "call"}
Stages == {"new", "insert", "find", "compare", "sign", "answered"}
Statuses == {0, 200, 201, 401, 409, 500}

Tokens == [sub : Requests, type : {"access", "refresh"}, secret : STRING, exp : Int]
RequestStates ==
  [pc : Stages, op : Ops, email : Spellings, password : Passwords,
   token : Tokens \cup {NoToken}, user : Requests, owned : SUBSET Requests,
   at : 0 .. TimeBound, status : Statuses]

NewRequest(r) ==
  [pc |-> "new", op |-> "none", email |-> CHOOSE s \in Spellings : TRUE,
   password |-> CHOOSE p \in Passwords : TRUE, token |-> NoToken, user |-> r,
   owned |-> {}, at |-> 0, status |-> 0]

Init ==
  /\ conf \in {validateEnvironment(e) : e \in Environments}
  /\ users = [i \in {} |-> 0]
  /\ now = 0
  /\ req = [r \in Requests |-> NewRequest(r)]

At(r, pc)         == req[r].pc = pc
Answer(r, status) == req' = [req EXCEPT ![r].pc = "answered", ![r].status = status]
New(r)            == At(r, "new") /\ conf # Refused

-----------------------------------------------------------------------------
(* Tokens. *)

\* signTokens: both are signed at the same moment.
Access(u, at) ==
  [sub |-> u, type |-> "access", secret |-> conf.JWT_ACCESS_SECRET,
   exp |-> at + TimeSpan(conf.JWT_ACCESS_EXPIRES_IN)]
Refresh(u, at) ==
  [sub |-> u, type |-> "refresh", secret |-> conf.JWT_REFRESH_SECRET,
   exp |-> at + TimeSpan(conf.JWT_REFRESH_EXPIRES_IN)]

SignedIn == {r \in Requests : req[r].op # "call" /\ req[r].status \in {200, 201}}
AccessTokens  == {Access(req[r].user, req[r].at) : r \in SignedIn}
RefreshTokens == {Refresh(req[r].user, req[r].at) : r \in SignedIn}

\* Tokens of other deployments that run with a published development secret, for
\* either type of token, and happen to have a user of the same id.
ForeignTokens ==
  [sub : DOMAIN users, type : {"access", "refresh"},
   secret : {SecretFallback[n] : n \in DOMAIN SecretFallback}, exp : {TimeBound + 1}]

Verifies(token, secret) == token.secret = secret /\ now < token.exp

BadIsRefreshToken(token) == Verifies(token, conf.JWT_REFRESH_SECRET)
IsRefreshToken(token) ==
  Verifies(token, conf.JWT_REFRESH_SECRET) /\ token.type = "refresh"

BadIsAccessToken(token) == Verifies(token, conf.JWT_ACCESS_SECRET)
IsAccessToken(token) ==
  Verifies(token, conf.JWT_ACCESS_SECRET) /\ token.type = "access"

-----------------------------------------------------------------------------
\* Time passes; a user is removed by someone else, which the code is prepared for.
Tick ==
  /\ now < TimeBound
  /\ now' = now + 1
  /\ UNCHANGED <<conf, users, req>>

RemoveUser(u) ==
  /\ u \in DOMAIN users
  /\ users' = [i \in DOMAIN users \ {u} |-> users[i]]
  /\ UNCHANGED <<conf, now, req>>

\* E-mail addresses are trimmed and lower-cased by the DTO, and again here.
BadAddress(s) == s
Address(s)    == Lower(s)

Accounts(email) == {u \in DOMAIN users : users[u].email = email}

Register(r) ==
  /\ New(r)
  /\ \E s \in Spellings, p \in Registrable :
       req' = [req EXCEPT ![r].pc = "insert", ![r].op = "register",
                          ![r].email = Address(s), ![r].password = p]
  /\ UNCHANGED <<conf, users, now>>

Inserted(r) ==
  [i \in DOMAIN users \cup {r} |->
     IF i = r THEN [email |-> req[r].email, passwordHash |-> Hashed(req[r].password)]
              ELSE users[i]]

\* The unique index on e-mail refuses a second account.
InsertUser(r) ==
  /\ At(r, "insert")
  /\ IF Accounts(req[r].email) # {}
       THEN users' = users /\ Answer(r, 409)
       ELSE users' = Inserted(r) /\ req' = [req EXCEPT ![r].pc = "sign"]
  /\ UNCHANGED <<conf, now>>

\* owned: the account that is there, with the hash of this password, as the client asks.
Login(r) ==
  /\ New(r)
  /\ \E s \in Spellings, p \in Passwords :
       req' = [req EXCEPT ![r].pc = "find", ![r].op = "login", ![r].email = Address(s),
                          ![r].password = p,
                          ![r].owned = {u \in DOMAIN users :
                             /\ Lower(users[u].email) = Lower(s)
                             /\ users[u].passwordHash = Hashed(p)}]
  /\ UNCHANGED <<conf, users, now>>

\* refresh verifies the token, then looks its user up.
RefreshSession(r) ==
  /\ New(r)
  /\ \E token \in AccessTokens \cup RefreshTokens \cup ForeignTokens :
       LET call == [req[r] EXCEPT !.op = "refresh", !.token = token,
                                  !.user = token.sub, !.at = now]
       IN  req' = [req EXCEPT ![r] =
             IF IsRefreshToken(token)
               THEN [call EXCEPT !.pc = "find"]
               ELSE [call EXCEPT !.pc = "answered", !.status = 401]]
  /\ UNCHANGED <<conf, users, now>>

\* JwtAuthGuard, in front of every other call.  Without a bearer token it is 401.
Call(r) ==
  /\ New(r)
  /\ \E token \in AccessTokens \cup RefreshTokens \cup ForeignTokens :
       LET call == [req[r] EXCEPT !.op = "call", !.token = token,
                                  !.user = token.sub, !.at = now]
       IN  req' = [req EXCEPT ![r] =
             IF IsAccessToken(token)
               THEN [call EXCEPT !.pc = "find"]
               ELSE [call EXCEPT !.pc = "answered", !.status = 401]]
  /\ UNCHANGED <<conf, users, now>>

\* findUnique, by e-mail for a login, else by the token's subject.
Found(r) ==
  IF req[r].op = "login" THEN Accounts(req[r].email) ELSE {req[r].user} \cap DOMAIN users
AfterFind(op) == [login |-> "compare", refresh |-> "sign", call |-> "answered"][op]
FindUser(r) ==
  /\ At(r, "find")
  /\ IF Found(r) = {}
       THEN Answer(r, 401)
       ELSE \E u \in Found(r) :
              req' = [req EXCEPT ![r].pc = AfterFind(req[r].op), ![r].user = u,
                                 ![r].status = IF req[r].op = "call" THEN 200 ELSE 0]
  /\ UNCHANGED <<conf, users, now>>

\* bcrypt.compare with the hash that was read: of the password that the user
\* registered with.
BadMatches(r) == TRUE
Matches(r)    == Hashed(req[r].password) = Hashed(req[req[r].user].password)
ComparePassword(r) ==
  /\ At(r, "compare")
  /\ IF Matches(r) THEN req' = [req EXCEPT ![r].pc = "sign"] ELSE Answer(r, 401)
  /\ UNCHANGED <<conf, users, now>>

\* buildAuthResponse.  A life time that cannot be read fails both promises.
Signs == /\ TimeSpan(conf.JWT_ACCESS_EXPIRES_IN) # NoSpan
         /\ TimeSpan(conf.JWT_REFRESH_EXPIRES_IN) # NoSpan
SignTokens(r) ==
  /\ At(r, "sign")
  /\ req' = [req EXCEPT ![r].pc = "answered", ![r].at = now,
                        ![r].status = IF ~Signs THEN 500
                                      ELSE IF req[r].op = "register" THEN 201 ELSE 200]
  /\ UNCHANGED <<conf, users, now>>

\* A query fails, with its effect or without.
QueryFails(r) ==
  /\ req[r].pc \in {"insert", "find"}
  /\ \/ users' = users
     \/ At(r, "insert") /\ Accounts(req[r].email) = {} /\ users' = Inserted(r)
  /\ Answer(r, 500)
  /\ UNCHANGED <<conf, now>>

Step(r) ==
  \/ Register(r) \/ InsertUser(r)
  \/ Login(r) \/ ComparePassword(r)
  \/ RefreshSession(r) \/ Call(r)
  \/ FindUser(r) \/ SignTokens(r) \/ QueryFails(r)

Next ==
  \/ Tick
  \/ \E u \in Requests : RemoveUser(u)
  \/ \E r \in Requests : Step(r)

Spec == Init /\ [][Next]_vars

-----------------------------------------------------------------------------
(* Properties. *)

\* Accounts and requests are well formed, and an address, however it is spelled,
\* has one account.
TypeOK ==
  /\ conf # Refused => conf.NODE_ENV \in supportedEnvironments
  /\ DOMAIN users \subseteq Requests
  /\ \A u \in DOMAIN users :
       users[u] \in [email : Spellings, passwordHash : {Hashed(p) : p \in Registrable}]
  /\ \A u, v \in DOMAIN users : Lower(users[u].email) = Lower(users[v].email) => u = v
  /\ now \in 0 .. TimeBound
  /\ req \in [Requests -> RequestStates]

Production == conf # Refused /\ conf.NODE_ENV = "production"

\* readSecret refuses a secret's own published fallback, not that of the other secret:
\* these two are true unless an operator set one secret to the other's.
AccessSecretIsPrivate  == conf.JWT_ACCESS_SECRET # SecretFallback.JWT_REFRESH_SECRET
RefreshSecretIsPrivate == conf.JWT_REFRESH_SECRET # SecretFallback.JWT_ACCESS_SECRET

\* In production, unless the access secret is the published refresh secret, a guarded
\* call is let in only with an access token that this service gave to the same user no
\* longer ago than such a token lives; and, unless the refresh secret is the published
\* access secret, only when that user once proved the password: also when both secrets
\* are the same, which validateEnvironment allows.
AdmissionIsEarned ==
  Production /\ AccessSecretIsPrivate =>
    \A r \in Requests : req[r].op = "call" /\ req[r].status = 200 =>
      /\ \E q \in SignedIn :
           /\ req[q].user = req[r].user
           /\ req[r].token = Access(req[q].user, req[q].at)
           /\ req[r].at < req[q].at + TimeSpan(conf.JWT_ACCESS_EXPIRES_IN)
      /\ RefreshSecretIsPrivate =>
           \E q \in SignedIn :
             req[q].op \in {"register", "login"} /\ req[q].user = req[r].user

\* In production, unless the refresh secret is the published access secret, new tokens
\* are given for a refresh token of this service only: a short-lived access token
\* cannot be renewed again and again, whatever secrets the two types share.
RefreshNeedsRefreshToken ==
  Production /\ RefreshSecretIsPrivate =>
    \A r \in SignedIn : req[r].op = "refresh" => req[r].token \in RefreshTokens

\* A login is let into the account of its address whose password has the same first 72
\* bytes, and is told that it is wrong only where no such account was there all the
\* time: also when the registration that made the account was answered with an error
\* after the insert, raced others, or spelled the address otherwise.
SignInIsExact ==
  \A r \in Requests : req[r].op = "login" =>
    /\ req[r].status = 401 => req[r].owned \cap DOMAIN users = {}
    /\ req[r].status = 200 =>
         /\ Hashed(req[req[r].user].password) = Hashed(req[r].password)
         /\ Lower(req[req[r].user].email) = Lower(req[r].email)
=============================================================================
