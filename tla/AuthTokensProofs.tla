-------------------------- MODULE AuthTokensProofs --------------------------
(***************************************************************************)
(* For any environments, users, spellings, life times and requests: in      *)
(* production calls are let in and sessions renewed for what the service    *)
(* gave out only, unless a secret is the published one of the other kind,   *)
(* and logins are exact up to what bcrypt reads.                            *)
(*                                                                          *)
(* Accounts come and go, while the registration that made one is over and   *)
(* never changes; so the invariant ties logins to registrations, and every  *)
(* accepted token to the request that was answered with it.                 *)
(***************************************************************************)
EXTENDS AuthTokens, TLAPS

\* User u's registration wrote its e-mail and password, which do not change again.
Made(u) == req[u].op = "register" /\ req[u].pc \in {"sign", "answered"}

\* The stages an operation goes through and the answers it gives.
InLife(s) ==
  \/ s.op = "none" /\ s.pc = "new" /\ s.status = 0
  \/ s.op = "register" /\ s.pc \in {"insert", "sign"} /\ s.status = 0
  \/ s.op = "register" /\ s.pc = "answered" /\ s.status \in {201, 409, 500}
  \/ s.op = "login" /\ s.pc \in {"find", "compare", "sign"} /\ s.status = 0
  \/ s.op = "login" /\ s.pc = "answered" /\ s.status \in {200, 401, 500}
  \/ s.op = "refresh" /\ s.pc \in {"find", "sign"} /\ s.status = 0
  \/ s.op = "refresh" /\ s.pc = "answered" /\ s.status \in {200, 401, 500}
  \/ s.op = "call" /\ s.pc = "find" /\ s.status = 0
  \/ s.op = "call" /\ s.pc = "answered" /\ s.status \in {200, 401, 500}

\* Addresses are normalised, a registration's password is one that register accepts, the
\* accounts a client owns are for what it entered, and the account a login found is for
\* its address and, once compared, its password's hash.
KnowsAccount(s) ==
  /\ s.op \in {"register", "login"} => Lower(s.email) = s.email
  /\ s.op = "register" => s.password \in Registrable
  /\ s.op = "login" =>
       /\ \A u \in s.owned :
            /\ Made(u) /\ req[u].email = s.email
            /\ Hashed(req[u].password) = Hashed(s.password)
       /\ s.pc \in {"compare", "sign"} \/ s.status = 200 =>
            Made(s.user) /\ req[s.user].email = s.email
       /\ s.pc = "sign" \/ s.status = 200 =>
            Hashed(req[s.user].password) = Hashed(s.password)

\* Who signs in has been served by a process that signs.
Served(r, s) ==
  /\ s.op \in {"none", "register"} => s.user = r
  /\ s.op # "none" => conf # Refused
  /\ s.op # "call" /\ s.status \in {200, 201} => Signs

Fits(r, s) == s \in RequestStates /\ InLife(s) /\ KnowsAccount(s) /\ Served(r, s)
RequestsFit == \A r \in Requests : Fits(r, req[r])

\* A user is what its registration wrote.
AccountsFit ==
  \A u \in DOMAIN users :
    /\ Made(u) /\ users[u].email = req[u].email
    /\ users[u].passwordHash = Hashed(req[u].password)

\* Of the accounts a client owns, only the one that was found can still be there, and
\* none when it is turned away.
Turned(s) ==
  s.op = "login" =>
    /\ s.pc = "compare" => s.owned \cap DOMAIN users \subseteq {s.user}
    /\ s.status = 401 => s.owned \cap DOMAIN users = {}
LoginsFit == \A r \in Requests : Turned(req[r])

\* A token that was accepted was given to its user, which holds in production where the
\* secret that signs such tokens is not a published one.
Admitted(s) ==
  s.op = "call" /\ (s.pc = "find" \/ s.status = 200) =>
    \E q \in SignedIn :
      /\ req[q].user = s.user /\ s.token = Access(req[q].user, req[q].at)
      /\ s.at < req[q].at + TimeSpan(conf.JWT_ACCESS_EXPIRES_IN)
Renewed(s) ==
  s.op = "refresh" /\ (s.pc \in {"find", "sign"} \/ s.status = 200) =>
    \E q \in SignedIn : req[q].user = s.user /\ s.token = Refresh(req[q].user, req[q].at)
\* User u signed in with a password.
Proved(u) ==
  \E q \in SignedIn : req[q].op \in {"register", "login"} /\ req[q].user = u
SessionsFit ==
  Production =>
    /\ AccessSecretIsPrivate => \A r \in Requests : Admitted(req[r])
    /\ RefreshSecretIsPrivate =>
         (\A r \in Requests : Renewed(req[r])) /\ (\A q \in SignedIn : Proved(req[q].user))

\* What an accepted environment gives.
ConfigurationFits ==
  conf # Refused =>
    /\ conf.NODE_ENV \in supportedEnvironments
    /\ conf.JWT_ACCESS_SECRET \in STRING /\ conf.JWT_REFRESH_SECRET \in STRING
    /\ conf.NODE_ENV = "production" =>
         /\ conf.JWT_ACCESS_SECRET # SecretFallback.JWT_ACCESS_SECRET
         /\ conf.JWT_REFRESH_SECRET # SecretFallback.JWT_REFRESH_SECRET
    /\ TimeSpan(conf.JWT_ACCESS_EXPIRES_IN) \in Int \cup {NoSpan}
    /\ TimeSpan(conf.JWT_REFRESH_EXPIRES_IN) \in Int \cup {NoSpan}

IndInv ==
  /\ TypeOK /\ ConfigurationFits
  /\ RequestsFit
  /\ AccountsFit
  /\ LoginsFit
  /\ SessionsFit

-----------------------------------------------------------------------------
(* The environment. *)

\* A reader's secret is the one set or, outside production, the published one.
LEMMA SecretRead ==
  ASSUME NEW raw \in RawValues, NEW environment, NEW fallback \in STRING,
         ~Failed(readSecret(raw, environment, fallback))
  PROVE  /\ readSecret(raw, environment, fallback).value \in STRING
         /\ environment = "production" =>
              readSecret(raw, environment, fallback).value # fallback
<1>1. \/ /\ environment # "production"
         /\ readSecret(raw, environment, fallback) = Read(fallback)
      \/ /\ environment = "production" => raw.text # fallback
         /\ readSecret(raw, environment, fallback) = Read(raw.text)
  BY DEF readSecret, readString, Failed
<1>2. raw.text \in STRING
  BY DEF RawValues
<1> QED  BY <1>1, <1>2 DEF Read

\* The names of the secrets, and that no other reader reads them.
LEMMA SecretNames ==
  /\ DOMAIN SecretFallback = {"JWT_ACCESS_SECRET", "JWT_REFRESH_SECRET"}
  /\ \A n \in DOMAIN SecretFallback :
       /\ n \in Names \ {"NODE_ENV", "PORT"} /\ SecretFallback[n] \in STRING
       /\ \A e, environment :
            readVariable(e, environment, n) = readSecret(e[n], environment, SecretFallback[n])
<1>1. DOMAIN SecretFallback = {"JWT_ACCESS_SECRET", "JWT_REFRESH_SECRET"}
  BY DEF SecretFallback
<1>2. \A n \in DOMAIN SecretFallback : SecretFallback[n] \in STRING
  BY AuthTokensAssumption
<1>3. \A n \in DOMAIN SecretFallback : n \notin DOMAIN StringFallback
  BY <1>1 DEF StringFallback
<1>4. \A n \in DOMAIN SecretFallback : n \notin DOMAIN PortFallback \cup DOMAIN NumberFallback
  BY <1>1 DEF PortFallback, NumberFallback
<1>5. ASSUME NEW n \in DOMAIN SecretFallback, NEW e, NEW environment
      PROVE  readVariable(e, environment, n)
               = readSecret(e[n], environment, SecretFallback[n])
  BY <1>3, <1>4 DEF readVariable
<1>6. \A n \in DOMAIN SecretFallback : n \in Names \ {"NODE_ENV", "PORT"}
  BY <1>1 DEF Names
<1> QED  BY <1>1, <1>2, <1>5, <1>6

\* What an accepted environment gives.
LEMMA AcceptedValues ==
  ASSUME NEW e, validateEnvironment(e) # Refused
  PROVE  \E environment \in supportedEnvironments :
           /\ validateEnvironment(e)["NODE_ENV"] = environment
           /\ \A n \in Names \ {"NODE_ENV", "PORT"} :
                /\ ~Failed(readVariable(e, environment, n))
                /\ validateEnvironment(e)[n] = readVariable(e, environment, n).value
<1> DEFINE environment == readString(e["NODE_ENV"], "development")
           results == [n \in Names \ {"NODE_ENV", "PORT"} |->
                         readVariable(e, environment.value, n)]
<1>1. validateEnvironment(e) =
        IF Failed(environment) \/ environment.value \notin supportedEnvironments
             \/ \E n \in DOMAIN results : Failed(results[n])
          THEN Refused
          ELSE [n \in DOMAIN results \cup {"NODE_ENV"} |->
                  IF n = "NODE_ENV" THEN environment.value ELSE results[n].value]
  BY DEF validateEnvironment
<1>2. PICK v : v = environment.value
  OBVIOUS
<1>3. /\ DOMAIN results = Names \ {"NODE_ENV", "PORT"}
      /\ \A n \in Names \ {"NODE_ENV", "PORT"} : results[n] = readVariable(e, v, n)
  BY <1>2
<1> HIDE DEF environment, results
<1>4. /\ v \in supportedEnvironments /\ \A n \in DOMAIN results : ~Failed(results[n])
      /\ validateEnvironment(e) = [n \in DOMAIN results \cup {"NODE_ENV"} |->
                                     IF n = "NODE_ENV" THEN v ELSE results[n].value]
  BY <1>1, <1>2
<1>5. /\ validateEnvironment(e)["NODE_ENV"] = v
      /\ \A n \in Names \ {"NODE_ENV", "PORT"} :
           validateEnvironment(e)[n] = results[n].value
  BY <1>3, <1>4
<1> QED  BY <1>3, <1>4, <1>5

\* A process that runs has an environment's values, and secrets of its own in production.
LEMMA InitConfiguration == Init => ConfigurationFits
<1> SUFFICES ASSUME Init, conf # Refused PROVE ConfigurationFits
  BY DEF ConfigurationFits
<1>1. PICK e \in Environments : conf = validateEnvironment(e) /\ e \in EnvironmentVariables
  BY AuthTokensAssumption DEF Init
<1>2. PICK environment \in supportedEnvironments :
        /\ conf["NODE_ENV"] = environment
        /\ \A n \in Names \ {"NODE_ENV", "PORT"} :
             /\ ~Failed(readVariable(e, environment, n))
             /\ conf[n] = readVariable(e, environment, n).value
  BY <1>1, AcceptedValues
<1>3. ASSUME NEW n \in DOMAIN SecretFallback
      PROVE  /\ conf[n] \in STRING
             /\ environment = "production" => conf[n] # SecretFallback[n]
  <2>1. e[n] \in RawValues
    BY <1>1, SecretNames DEF EnvironmentVariables
  <2>2. /\ ~Failed(readSecret(e[n], environment, SecretFallback[n]))
        /\ conf[n] = readSecret(e[n], environment, SecretFallback[n]).value
    BY <1>2, SecretNames
  <2>3. SecretFallback[n] \in STRING
    BY SecretNames
  <2> QED  BY <2>1, <2>2, <2>3, SecretRead
<1>4. /\ TimeSpan(conf.JWT_ACCESS_EXPIRES_IN) \in Int \cup {NoSpan}
      /\ TimeSpan(conf.JWT_REFRESH_EXPIRES_IN) \in Int \cup {NoSpan}
  <2>1. \A f \in Environments :
          LET accepted == validateEnvironment(f)
          IN  accepted # Refused =>
                {TimeSpan(accepted.JWT_ACCESS_EXPIRES_IN),
                 TimeSpan(accepted.JWT_REFRESH_EXPIRES_IN)} \subseteq Int \cup {NoSpan}
    BY Zenon, AuthTokensAssumption
  <2>2. validateEnvironment(e) # Refused =>
          {TimeSpan(validateEnvironment(e).JWT_ACCESS_EXPIRES_IN),
           TimeSpan(validateEnvironment(e).JWT_REFRESH_EXPIRES_IN)} \subseteq Int \cup {NoSpan}
    BY Zenon, <2>1
  <2> QED  BY Zenon, <1>1, <2>2
<1>5. {"JWT_ACCESS_SECRET", "JWT_REFRESH_SECRET"} = DOMAIN SecretFallback
  BY SecretNames
<1> QED  BY <1>2, <1>3, <1>4, <1>5 DEF ConfigurationFits

-----------------------------------------------------------------------------
(* One request moves. *)

\* A registration that has written keeps what it wrote, and answers are final.
Carries(r, s) ==
  /\ ~At(r, "answered")
  /\ Made(r) => /\ s.op = "register" /\ s.pc \in {"sign", "answered"}
                /\ s.email = req[r].email /\ s.password = req[r].password

\* What is accepted and given out in production goes back to a password.
Proper(s) ==
  Production =>
    /\ AccessSecretIsPrivate => Admitted(s)
    /\ RefreshSecretIsPrivate =>
         /\ Renewed(s)
         /\ s.op # "call" /\ s.status \in {200, 201} =>
              s.op \in {"register", "login"} \/ Proved(s.user)

\* Request r moves to state s as the invariant needs it.
Moves(r, s) ==
  /\ Fits(r, s) /\ Carries(r, s) /\ Proper(s)
  /\ req' = [req EXCEPT ![r] = s] /\ conf' = conf

\* The facts about a request that a step starts from.
LEMMA AtWork ==
  ASSUME IndInv, NEW r \in Requests
  PROVE  /\ req \in [Requests -> RequestStates] /\ req[r] \in RequestStates
         /\ Fits(r, req[r])
BY DEF IndInv, TypeOK, RequestsFit, Fits

\* Only the request that moves changes; who is registered or signed in stays so.
LEMMA RequestMoves ==
  ASSUME IndInv, NEW r \in Requests, NEW s, Moves(r, s)
  PROVE  /\ req' \in [Requests -> RequestStates]
         /\ req'[r] = s /\ \A q \in Requests : q # r => req'[q] = req[q]
         /\ \A u \in Requests : Made(u) =>
              Made(u)' /\ req'[u].email = req[u].email /\ req'[u].password = req[u].password
         /\ \A q \in SignedIn : q \in Requests /\ q \in SignedIn' /\ req'[q] = req[q]
         /\ \A q \in SignedIn' :
              q \in SignedIn \/ (q = r /\ s.op # "call" /\ s.status \in {200, 201})
<1>1. req \in [Requests -> RequestStates] /\ s \in RequestStates
      /\ Carries(r, s) /\ req' = [req EXCEPT ![r] = s]
  BY DEF IndInv, TypeOK, Moves, Fits
<1>2. /\ req' \in [Requests -> RequestStates]
      /\ req'[r] = s /\ \A q \in Requests : q # r => req'[q] = req[q]
  BY <1>1
<1>3. \A u \in Requests : Made(u) =>
        Made(u)' /\ req'[u].email = req[u].email /\ req'[u].password = req[u].password
  BY <1>1, <1>2 DEF Carries, Made
<1>4. \A q \in SignedIn : q \in Requests /\ q # r
  BY <1>1, AtWork DEF SignedIn, Fits, InLife, Carries, At
<1>5. \A q \in SignedIn : q \in SignedIn' /\ req'[q] = req[q]
  BY <1>2, <1>4 DEF SignedIn
<1>6. \A q \in SignedIn' : q \in SignedIn \/ (q = r /\ s.op # "call" /\ s.status \in {200, 201})
  BY <1>2 DEF SignedIn
<1> QED  BY <1>2, <1>3, <1>4, <1>5, <1>6

\* The requests fit again when the new state does.
LEMMA RequestsStillFit ==
  ASSUME IndInv, NEW r \in Requests, NEW s, Moves(r, s)
  PROVE  RequestsFit'
<1>1. /\ req'[r] = s /\ \A q \in Requests : q # r => req'[q] = req[q]
      /\ \A u \in Requests : Made(u) =>
           Made(u)' /\ req'[u].email = req[u].email /\ req'[u].password = req[u].password
  BY RequestMoves
<1>2. Fits(r, s) /\ conf' = conf
  BY DEF Moves
<1>3. ASSUME NEW q \in Requests PROVE Fits(q, req[q])'
  <2>1. PICK x : x = req'[q]
    OBVIOUS
  <2>2. Fits(q, x)
    BY <1>1, <1>2, <2>1, AtWork
  <2>3. x.user \in Requests /\ x.owned \subseteq Requests
    BY <2>2 DEF Fits, RequestStates
  <2>4. KnowsAccount(req[q])'
    BY <1>1, <2>1, <2>2, <2>3 DEF Fits, KnowsAccount
  <2>5. Served(q, req[q])'
    BY <1>2, <2>1, <2>2 DEF Fits, Served, Signs
  <2> QED  BY <2>1, <2>2, <2>4, <2>5 DEF Fits, InLife
<1> QED  BY <1>3 DEF RequestsFit

\* A token that was given stays given: what is accepted stays accounted for.
LEMMA SessionsStillFit ==
  ASSUME IndInv, NEW r \in Requests, NEW s, Moves(r, s)
  PROVE  SessionsFit'
<1>1. /\ req'[r] = s /\ \A q \in Requests : q # r => req'[q] = req[q]
      /\ \A q \in SignedIn : q \in Requests /\ q \in SignedIn' /\ req'[q] = req[q]
      /\ \A q \in SignedIn' :
           q \in SignedIn \/ (q = r /\ s.op # "call" /\ s.status \in {200, 201})
  BY RequestMoves
<1>2. /\ conf' = conf /\ (Production' <=> Production) /\ Proper(s)
      /\ AccessSecretIsPrivate' <=> AccessSecretIsPrivate
      /\ RefreshSecretIsPrivate' <=> RefreshSecretIsPrivate
  BY DEF Moves, Production, AccessSecretIsPrivate, RefreshSecretIsPrivate
<1>3. \A x : /\ Admitted(x) => Admitted(x)'
             /\ Renewed(x) => Renewed(x)'
  <2>1. \A u, at : Access(u, at)' = Access(u, at) /\ Refresh(u, at)' = Refresh(u, at)
    BY <1>2 DEF Access, Refresh
  <2> QED  BY <1>1, <1>2, <2>1 DEF Admitted, Renewed
<1>4. \A u : Proved(u) => Proved(u)'
  BY <1>1 DEF Proved
<1>5. ASSUME Production, NEW q \in Requests
      PROVE  /\ AccessSecretIsPrivate => Admitted(req[q])'
             /\ RefreshSecretIsPrivate => Renewed(req[q])'
  <2>1. PICK x : x = req'[q]
    OBVIOUS
  <2>2. /\ AccessSecretIsPrivate => Admitted(x)
        /\ RefreshSecretIsPrivate => Renewed(x)
    BY <1>1, <1>2, <1>5, <2>1 DEF Proper, IndInv, SessionsFit
  <2>3. /\ AccessSecretIsPrivate => Admitted(x)'
        /\ RefreshSecretIsPrivate => Renewed(x)'
    BY <1>3, <2>2
  <2> QED  BY <2>1, <2>3 DEF Admitted, Renewed
<1>6. ASSUME Production, RefreshSecretIsPrivate, NEW q \in SignedIn'
      PROVE  Proved(req[q].user)'
  <2>1. CASE q \in SignedIn
    <3>1. Proved(req[q].user)
      BY <1>6, <2>1 DEF IndInv, SessionsFit
    <3> QED  BY <1>1, <2>1, <3>1 DEF Proved
  <2>2. CASE q = r /\ s.op # "call" /\ s.status \in {200, 201}
    <3>1. s.op \in {"register", "login"} \/ Proved(s.user)
      BY <1>2, <1>6, <2>2 DEF Proper
    <3> QED  BY <1>1, <1>6, <2>2, <3>1 DEF Proved
  <2> QED  BY <1>1, <2>1, <2>2
<1> QED  BY <1>2, <1>5, <1>6 DEF SessionsFit

\* A step without a write.
LEMMA NoUserIsWritten ==
  ASSUME IndInv, NEW r \in Requests, NEW s, Moves(r, s), Turned(s), users' = users, now' = now
  PROVE  IndInv'
<1>1. /\ req' \in [Requests -> RequestStates]
      /\ req'[r] = s /\ \A q \in Requests : q # r => req'[q] = req[q]
      /\ \A u \in Requests : Made(u) =>
           Made(u)' /\ req'[u].email = req[u].email /\ req'[u].password = req[u].password
  BY RequestMoves
<1>2. conf' = conf
  BY DEF Moves
<1>3. TypeOK' /\ ConfigurationFits'
  BY <1>1, <1>2 DEF IndInv, TypeOK, ConfigurationFits
<1>4. AccountsFit'
  BY <1>1 DEF IndInv, TypeOK, AccountsFit
<1>5. LoginsFit'
  BY <1>1 DEF IndInv, LoginsFit, Turned
<1> QED  BY <1>3, <1>4, <1>5, RequestsStillFit, SessionsStillFit DEF IndInv

\* An insert of an address that has no account.
LEMMA InsertedInd ==
  ASSUME IndInv, NEW r \in Requests, NEW s, At(r, "insert"), Moves(r, s),
         s.op = "register", s.pc \in {"sign", "answered"},
         s.email = req[r].email, s.password = req[r].password,
         Accounts(req[r].email) = {}, users' = Inserted(r), now' = now
  PROVE  IndInv'
<1>1. /\ req' \in [Requests -> RequestStates]
      /\ req'[r] = s /\ \A q \in Requests : q # r => req'[q] = req[q]
      /\ \A u \in Requests : Made(u) =>
           Made(u)' /\ req'[u].email = req[u].email /\ req'[u].password = req[u].password
  BY RequestMoves
<1>2. conf' = conf /\ Fits(r, s)
  BY DEF Moves
<1>3. ~Made(r) /\ r \notin DOMAIN users
  BY DEF Made, At, IndInv, AccountsFit
<1>4. /\ DOMAIN users' = DOMAIN users \cup {r}
      /\ users'[r] = [email |-> req[r].email, passwordHash |-> Hashed(req[r].password)]
      /\ \A u \in DOMAIN users : users'[u] = users[u]
  BY <1>3 DEF Inserted
<1>5. req[r].email \in Spellings /\ req[r].password \in Registrable
      /\ Lower(req[r].email) = req[r].email
  BY AtWork DEF RequestStates, Fits, InLife, KnowsAccount, At
<1>6. \A u \in DOMAIN users : /\ u \in Requests /\ Lower(users[u].email) = users[u].email
                              /\ users[u].email # req[r].email
  <2>1. ASSUME NEW u \in DOMAIN users
        PROVE  u \in Requests /\ Lower(users[u].email) = users[u].email
    <3>1. u \in Requests /\ Made(u) /\ users[u].email = req[u].email
      BY DEF IndInv, TypeOK, AccountsFit
    <3> QED  BY <3>1, AtWork DEF Fits, KnowsAccount, Made
  <2> QED  BY <2>1 DEF Accounts
<1>7. TypeOK'
  <2>1. DOMAIN users' \subseteq Requests
    BY <1>4, <1>6
  <2>2. \A u \in DOMAIN users' :
          users'[u] \in [email : Spellings, passwordHash : {Hashed(p) : p \in Registrable}]
    BY <1>4, <1>5 DEF IndInv, TypeOK
  <2>3. \A u, v \in DOMAIN users' : Lower(users'[u].email) = Lower(users'[v].email) => u = v
    <3>1. users'[r].email = req[r].email
      BY <1>4
    <3>2. \A u, v \in DOMAIN users : Lower(users[u].email) = Lower(users[v].email) => u = v
      BY DEF IndInv, TypeOK
    <3> QED  BY <1>4, <1>5, <1>6, <3>1, <3>2
  <2>4. (conf # Refused => conf.NODE_ENV \in supportedEnvironments) /\ now \in 0 .. TimeBound
    BY DEF IndInv, TypeOK
  <2> QED  BY <1>1, <1>2, <2>1, <2>2, <2>3, <2>4 DEF TypeOK
<1>8. AccountsFit'
  <2>1. /\ Made(r)' /\ users'[r].email = req'[r].email
        /\ users'[r].passwordHash = Hashed(req'[r].password)
    BY <1>1, <1>4 DEF Made
  <2>2. ASSUME NEW u \in DOMAIN users
        PROVE  /\ Made(u)' /\ users'[u].email = req'[u].email
               /\ users'[u].passwordHash = Hashed(req'[u].password)
    BY <1>1, <1>4, <1>6 DEF IndInv, AccountsFit
  <2> QED  BY <1>4, <2>1, <2>2 DEF AccountsFit
<1>9. LoginsFit'
  <2>1. ASSUME NEW q \in Requests PROVE Turned(req[q])'
    <3>1. CASE q = r
      BY <1>1, <3>1 DEF Turned
    <3>2. CASE q # r
      <4>1. req'[q] = req[q] /\ Turned(req[q])
        BY <1>1, <3>2 DEF IndInv, LoginsFit
      <4>2. req[q].op = "login" => r \notin req[q].owned
        BY <1>3, AtWork DEF Fits, KnowsAccount
      <4> QED  BY <1>4, <4>1, <4>2 DEF Turned
    <3> QED  BY <3>1, <3>2
  <2> QED  BY <2>1 DEF LoginsFit
<1>10. ConfigurationFits'
  BY <1>2 DEF IndInv, ConfigurationFits
<1> QED  BY <1>7, <1>8, <1>9, <1>10, RequestsStillFit, SessionsStillFit DEF IndInv

\* Time passes, or a user is removed, which leaves nobody with an account he owns.
LEMMA EnvironmentInd ==
  ASSUME IndInv, Tick \/ \E u \in Requests : RemoveUser(u)
  PROVE  IndInv'
<1>1. /\ req' = req /\ conf' = conf /\ now' \in 0 .. TimeBound
      /\ DOMAIN users' \subseteq DOMAIN users
      /\ \A u \in DOMAIN users' : users'[u] = users[u]
  <2>1. now \in 0 .. TimeBound /\ TimeBound \in Nat
    BY AuthTokensAssumption DEF IndInv, TypeOK
  <2>2. CASE Tick
    BY <2>1, <2>2 DEF Tick
  <2>3. CASE \E u \in Requests : RemoveUser(u)
    BY <2>1, <2>3 DEF RemoveUser
  <2> QED  BY <2>2, <2>3
<1>2. TypeOK' /\ ConfigurationFits' /\ AccountsFit'
  BY <1>1 DEF IndInv, TypeOK, ConfigurationFits, AccountsFit, Made
<1>3. RequestsFit'
  BY <1>1 DEF IndInv, RequestsFit, Fits, InLife, KnowsAccount, Served, Signs, Made
<1>4. LoginsFit'
  <2>1. ASSUME NEW q \in Requests PROVE Turned(req[q])'
    BY <1>1 DEF IndInv, LoginsFit, Turned
  <2> QED  BY <2>1 DEF LoginsFit
<1>5. SessionsFit'
  BY <1>1 DEF IndInv, SessionsFit, Production, AccessSecretIsPrivate,
              RefreshSecretIsPrivate, Admitted, Renewed, Proved, SignedIn, Access, Refresh
<1> QED  BY <1>2, <1>3, <1>4, <1>5 DEF IndInv

\* Nothing happens.
LEMMA StutterInd == ASSUME IndInv, UNCHANGED vars PROVE IndInv'
<1>1. req' = req /\ conf' = conf /\ users' = users /\ now' = now
  BY DEF vars
<1>2. TypeOK' /\ ConfigurationFits' /\ AccountsFit'
  BY <1>1 DEF IndInv, TypeOK, ConfigurationFits, AccountsFit, Made
<1>3. LoginsFit'
  BY <1>1 DEF IndInv, LoginsFit, Turned
<1>4. RequestsFit'
  BY <1>1 DEF IndInv, RequestsFit, Fits, InLife, KnowsAccount, Served, Signs, Made
<1>5. SessionsFit'
  BY <1>1 DEF IndInv, SessionsFit, Production, AccessSecretIsPrivate,
              RefreshSecretIsPrivate, Admitted, Renewed, Proved, SignedIn, Access, Refresh
<1> QED  BY <1>2, <1>3, <1>4, <1>5 DEF IndInv

\* At first there is nobody.
LEMMA InitInd == Init => IndInv
<1> SUFFICES ASSUME Init PROVE IndInv
  OBVIOUS
<1>1. /\ users = [i \in {} |-> 0] /\ now = 0
      /\ req = [r \in Requests |-> NewRequest(r)]
  BY DEF Init
<1>2. /\ (CHOOSE s \in Spellings : TRUE) \in Spellings
      /\ (CHOOSE p \in Passwords : TRUE) \in Passwords
  BY AuthTokensAssumption
<1>3. ASSUME NEW r \in Requests
      PROVE  /\ req[r] \in RequestStates /\ req[r].op = "none" /\ req[r].pc = "new"
             /\ req[r].status = 0 /\ req[r].user = r
  <2>1. NewRequest(r) \in RequestStates
    <3>1. 0 \in 0 .. TimeBound
      BY AuthTokensAssumption
    <3> QED  BY <1>2, <3>1 DEF NewRequest, RequestStates, Stages, Ops, Statuses
  <2> QED  BY <1>1, <2>1 DEF NewRequest
<1>4. ConfigurationFits
  BY InitConfiguration
<1>5. TypeOK
  <2>1. now \in 0 .. TimeBound
    BY <1>1, AuthTokensAssumption
  <2>2. req \in [Requests -> RequestStates] /\ DOMAIN users = {}
    BY <1>1, <1>3
  <2>3. conf # Refused => conf.NODE_ENV \in supportedEnvironments
    BY <1>4 DEF ConfigurationFits
  <2> QED  BY <2>1, <2>2, <2>3 DEF TypeOK
<1>6. RequestsFit
  BY <1>3 DEF RequestsFit, Fits, InLife, KnowsAccount, Served
<1>7. AccountsFit /\ LoginsFit
  BY <1>1, <1>3 DEF AccountsFit, LoginsFit, Turned
<1>8. SessionsFit
  BY <1>3 DEF SessionsFit, Admitted, Renewed, SignedIn
<1> QED  BY <1>4, <1>5, <1>6, <1>7, <1>8 DEF IndInv

-----------------------------------------------------------------------------
(* The steps. *)

\* State s is an answer to request r, which changes nothing else of it.
Ends(r, s) ==
  /\ s.pc = "answered" /\ s.op = req[r].op /\ s.email = req[r].email
  /\ s.password = req[r].password /\ s.user = req[r].user /\ s.owned = req[r].owned

\* What a request becomes with an answer: two fields change.
Answered(q, status) == [q EXCEPT !.pc = "answered", !.status = status]

\* An answer is a move to that state.
LEMMA AnswerIsMove ==
  ASSUME NEW r \in Requests, NEW status, Answer(r, status),
         req \in [Requests -> RequestStates]
  PROVE  req' = [req EXCEPT ![r] = Answered(req[r], status)]
BY DEF Answer, Answered

\* That state is one of a request's, and the other fields are as they were.
LEMMA AnswerState ==
  ASSUME NEW q \in RequestStates, NEW status \in Statuses
  PROVE  /\ Answered(q, status) \in RequestStates
         /\ Answered(q, status).pc = "answered" /\ Answered(q, status).status = status
         /\ Answered(q, status).op = q.op /\ Answered(q, status).email = q.email
         /\ Answered(q, status).password = q.password /\ Answered(q, status).user = q.user
         /\ Answered(q, status).owned = q.owned
<1>1. "answered" \in Stages
  BY DEF Stages
<1>2. Answered(q, status) \in RequestStates
  BY <1>1 DEF Answered, RequestStates
<1>3. /\ Answered(q, status).pc = "answered" /\ Answered(q, status).status = status
      /\ Answered(q, status).op = q.op /\ Answered(q, status).email = q.email
      /\ Answered(q, status).password = q.password /\ Answered(q, status).user = q.user
      /\ Answered(q, status).owned = q.owned
  BY DEF Answered, RequestStates
<1> QED  BY <1>2, <1>3

\* An answer that refuses or fails fits.
LEMMA AnswerFits ==
  ASSUME IndInv, NEW r \in Requests, NEW status, Answer(r, status), conf' = conf,
         ~At(r, "answered"),
         \/ req[r].op = "register" /\ status \in {409, 500}
         \/ req[r].op \in {"login", "refresh", "call"} /\ status \in {401, 500}
  PROVE  \E s : Moves(r, s) /\ Ends(r, s) /\ s.status = status
<1>0. PICK s : s = Answered(req[r], status)
  OBVIOUS
<1>1. /\ req \in [Requests -> RequestStates] /\ req[r] \in RequestStates
      /\ Fits(r, req[r])
  BY AtWork
<1>2. req' = [req EXCEPT ![r] = s]
  BY <1>0, <1>1, AnswerIsMove
<1>3. /\ s \in RequestStates /\ s.pc = "answered" /\ s.status = status
      /\ s.op = req[r].op /\ s.email = req[r].email /\ s.password = req[r].password
      /\ s.user = req[r].user /\ s.owned = req[r].owned
  <2>1. status \in Statuses
    BY DEF Statuses
  <2> QED  BY <1>0, <1>1, <2>1, AnswerState
<1>4. InLife(s)
  BY <1>3 DEF InLife
<1>5. KnowsAccount(s)
  BY <1>1, <1>3 DEF Fits, KnowsAccount
<1>6. Served(r, s)
  BY <1>1, <1>3 DEF Fits, Served
<1>7. Carries(r, s) /\ Proper(s)
  BY <1>3 DEF Carries, Made, Proper, Admitted, Renewed
<1> QED  BY <1>2, <1>3, <1>4, <1>5, <1>6, <1>7 DEF Fits, Moves, Ends

\* An answer without a write, other than 401 to a login.
LEMMA PlainAnswer ==
  ASSUME IndInv, NEW r \in Requests, NEW status, Answer(r, status),
         UNCHANGED <<conf, users, now>>, ~At(r, "answered"),
         \/ req[r].op = "register" /\ status \in {409, 500}
         \/ req[r].op = "login" /\ status = 500
         \/ req[r].op \in {"refresh", "call"} /\ status \in {401, 500}
  PROVE  IndInv'
<1>1. PICK s : Moves(r, s) /\ Ends(r, s) /\ s.status = status
  BY AnswerFits
<1>2. Turned(s)
  BY <1>1 DEF Turned, Ends
<1> QED  BY <1>1, <1>2, NoUserIsWritten

\* A client registers.
LEMMA RegisterInd ==
  ASSUME IndInv, NEW r \in Requests, Register(r)
  PROVE  IndInv'
<1>1. At(r, "new") /\ conf # Refused /\ UNCHANGED <<conf, users, now>>
  BY DEF Register, New
<1>2. PICK e \in Spellings, p \in Registrable :
        /\ req' = [req EXCEPT ![r].pc = "insert", ![r].op = "register",
                              ![r].email = e, ![r].password = p]
        /\ Lower(e) = e /\ p \in Passwords
  BY AuthTokensAssumption DEF Register, Address
<1> DEFINE s == [req[r] EXCEPT !.pc = "insert", !.op = "register", !.email = e, !.password = p]
<1>3. req \in [Requests -> RequestStates] /\ req[r] \in RequestStates /\ Fits(r, req[r])
  BY AtWork
<1>4. req[r].op = "none" /\ req[r].status = 0 /\ req[r].user = r
  BY <1>1, <1>3 DEF Fits, InLife, Served, At
<1>5. req' = [req EXCEPT ![r] = s]
  BY <1>2, <1>3
<1>6. /\ s \in RequestStates /\ s.pc = "insert" /\ s.op = "register" /\ s.email = e
      /\ s.password = p /\ s.status = 0 /\ s.user = r
  BY <1>2, <1>3, <1>4 DEF RequestStates, Stages, Ops
<1> HIDE DEF s
<1>7. Fits(r, s)
  BY <1>1, <1>2, <1>6 DEF Fits, InLife, KnowsAccount, Served
<1>8. Carries(r, s) /\ Proper(s) /\ Turned(s)
  BY <1>1, <1>4, <1>6 DEF Carries, Made, At, Proper, Admitted, Renewed, Turned
<1> QED  BY <1>1, <1>5, <1>7, <1>8, NoUserIsWritten DEF Moves

\* A client logs in; the accounts it owns are those there with its password's hash.
LEMMA LoginInd ==
  ASSUME IndInv, NEW r \in Requests, Login(r)
  PROVE  IndInv'
<1>1. At(r, "new") /\ conf # Refused /\ UNCHANGED <<conf, users, now>>
  BY DEF Login, New
<1>2. PICK e \in Spellings, p \in Passwords, owned \in SUBSET DOMAIN users :
        /\ req' = [req EXCEPT ![r].pc = "find", ![r].op = "login", ![r].email = e,
                              ![r].password = p, ![r].owned = owned]
        /\ Lower(e) = e
        /\ \A u \in owned : Lower(users[u].email) = e /\ users[u].passwordHash = Hashed(p)
  <2>1. PICK e \in Spellings, p \in Passwords :
          req' = [req EXCEPT ![r].pc = "find", ![r].op = "login", ![r].email = Lower(e),
                             ![r].password = p,
                             ![r].owned = {u \in DOMAIN users :
                                /\ Lower(users[u].email) = Lower(e)
                                /\ users[u].passwordHash = Hashed(p)}]
    BY DEF Login, Address
  <2>2. Lower(e) \in Spellings /\ Lower(Lower(e)) = Lower(e)
    BY AuthTokensAssumption
  <2>3. PICK owned : owned = {u \in DOMAIN users :
                                /\ Lower(users[u].email) = Lower(e)
                                /\ users[u].passwordHash = Hashed(p)}
    OBVIOUS
  <2>4. /\ owned \in SUBSET DOMAIN users
        /\ \A u \in owned :
             Lower(users[u].email) = Lower(e) /\ users[u].passwordHash = Hashed(p)
    BY <2>3
  <2>5. req' = [req EXCEPT ![r].pc = "find", ![r].op = "login", ![r].email = Lower(e),
                           ![r].password = p, ![r].owned = owned]
    BY <2>1, <2>3
  <2> QED  BY <2>2, <2>4, <2>5
<1> DEFINE s == [req[r] EXCEPT !.pc = "find", !.op = "login", !.email = e, !.password = p,
                               !.owned = owned]
<1>3. req \in [Requests -> RequestStates] /\ req[r] \in RequestStates /\ Fits(r, req[r])
      /\ DOMAIN users \subseteq Requests
  BY AtWork DEF IndInv, TypeOK
<1>4. req[r].op = "none" /\ req[r].status = 0
  BY <1>1, <1>3 DEF Fits, InLife, At
<1>5. req' = [req EXCEPT ![r] = s]
  BY <1>2, <1>3
<1>6. /\ s \in RequestStates /\ s.pc = "find" /\ s.op = "login" /\ s.email = e
      /\ s.password = p /\ s.owned = owned /\ s.status = 0
  BY <1>3, <1>4 DEF RequestStates, Stages, Ops
<1> HIDE DEF s
<1>7. \A u \in owned : Made(u) /\ req[u].email = e /\ Hashed(req[u].password) = Hashed(p)
  <2>1. ASSUME NEW u \in owned
        PROVE  Made(u) /\ req[u].email = e /\ Hashed(req[u].password) = Hashed(p)
    <3>1. /\ u \in Requests /\ Made(u) /\ users[u].email = req[u].email
          /\ users[u].passwordHash = Hashed(req[u].password)
      BY <1>3 DEF IndInv, AccountsFit
    <3>2. Lower(req[u].email) = req[u].email
      BY <3>1, AtWork DEF Fits, KnowsAccount, Made
    <3> QED  BY <1>2, <3>1, <3>2
  <2> QED  BY <2>1
<1>8. Fits(r, s)
  BY <1>1, <1>2, <1>6, <1>7 DEF Fits, InLife, KnowsAccount, Served
<1>9. Carries(r, s) /\ Proper(s) /\ Turned(s)
  BY <1>1, <1>4, <1>6 DEF Carries, Made, At, Proper, Admitted, Renewed, Turned
<1> QED  BY <1>1, <1>5, <1>8, <1>9, NoUserIsWritten DEF Moves

\* A registration is refused, or makes an account under an address that has none.
LEMMA InsertUserInd ==
  ASSUME IndInv, NEW r \in Requests, InsertUser(r)
  PROVE  IndInv'
<1>1. At(r, "insert") /\ ~At(r, "answered") /\ UNCHANGED <<conf, now>>
      /\ req[r].op = "register"
  BY AtWork DEF InsertUser, Fits, InLife, At
<1>2. CASE Accounts(req[r].email) # {}
  <2>1. Answer(r, 409) /\ users' = users
    BY <1>2 DEF InsertUser
  <2> QED  BY <1>1, <2>1, PlainAnswer
<1>3. CASE Accounts(req[r].email) = {}
  <2>1. users' = Inserted(r) /\ req' = [req EXCEPT ![r].pc = "sign"]
    BY <1>3 DEF InsertUser
  <2> DEFINE s == [req[r] EXCEPT !.pc = "sign"]
  <2>2. req \in [Requests -> RequestStates] /\ req[r] \in RequestStates /\ Fits(r, req[r])
        /\ req[r].status = 0
    BY <1>1, AtWork DEF Fits, InLife, At
  <2>3. req' = [req EXCEPT ![r] = s]
    BY <2>1, <2>2
  <2>4. /\ s \in RequestStates /\ s.pc = "sign" /\ s.op = "register" /\ s.status = 0
        /\ s.email = req[r].email /\ s.password = req[r].password /\ s.user = req[r].user
    BY <1>1, <2>2 DEF RequestStates, Stages
  <2> HIDE DEF s
  <2>5. Fits(r, s)
    BY <1>1, <2>2, <2>4 DEF Fits, InLife, KnowsAccount, Served
  <2>6. Carries(r, s) /\ Proper(s)
    BY <1>1, <2>4 DEF Carries, Proper, Admitted, Renewed
  <2>7. Moves(r, s)
    BY <1>1, <2>3, <2>5, <2>6 DEF Moves
  <2> QED  BY <1>1, <1>3, <2>1, <2>4, <2>7, InsertedInd
<1> QED  BY <1>2, <1>3

-----------------------------------------------------------------------------
(* Tokens. *)

\* The tokens that a process gave out.
LEMMA GivenTokens ==
  ASSUME IndInv, NEW q \in SignedIn
  PROVE  /\ Access(req[q].user, req[q].at) \in Tokens
         /\ Refresh(req[q].user, req[q].at) \in Tokens
<1>1. /\ q \in Requests /\ req[q].op # "call" /\ req[q].op # "none"
      /\ req[q].status \in {200, 201} /\ Fits(q, req[q])
  BY AtWork DEF SignedIn, Fits, InLife
<1>2. conf # Refused /\ Signs /\ req[q].user \in Requests /\ req[q].at \in 0 .. TimeBound
  BY <1>1 DEF Fits, Served, RequestStates
<1>3. /\ conf.JWT_ACCESS_SECRET \in STRING /\ conf.JWT_REFRESH_SECRET \in STRING
      /\ TimeSpan(conf.JWT_ACCESS_EXPIRES_IN) \in Int
      /\ TimeSpan(conf.JWT_REFRESH_EXPIRES_IN) \in Int
  BY <1>2 DEF IndInv, ConfigurationFits, Signs
<1>4. req[q].at \in Int
  BY <1>2, AuthTokensAssumption
<1>5. /\ req[q].at + TimeSpan(conf.JWT_ACCESS_EXPIRES_IN) \in Int
      /\ req[q].at + TimeSpan(conf.JWT_REFRESH_EXPIRES_IN) \in Int
  BY <1>3, <1>4
<1> QED  BY <1>2, <1>3, <1>5 DEF Access, Refresh, Tokens

\* Any token a client presents, and where one comes from that production accepts.
LEMMA PresentedTokens ==
  ASSUME IndInv, conf # Refused, NEW token \in AccessTokens \cup RefreshTokens \cup ForeignTokens
  PROVE  /\ token \in Tokens
         /\ Production /\ RefreshSecretIsPrivate /\ IsRefreshToken(token) =>
              \E q \in SignedIn : req[q].user = token.sub
                                  /\ token = Refresh(req[q].user, req[q].at)
         /\ Production /\ AccessSecretIsPrivate /\ IsAccessToken(token) =>
              \E q \in SignedIn :
                /\ req[q].user = token.sub /\ token = Access(req[q].user, req[q].at)
                /\ now < req[q].at + TimeSpan(conf.JWT_ACCESS_EXPIRES_IN)
<1>1. ASSUME NEW q \in SignedIn, token = Access(req[q].user, req[q].at)
      PROVE  /\ token \in Tokens /\ token.type = "access" /\ token.sub = req[q].user
             /\ token.exp = req[q].at + TimeSpan(conf.JWT_ACCESS_EXPIRES_IN)
  <2>1. token \in Tokens
    BY <1>1, GivenTokens
  <2> QED  BY <1>1, <2>1 DEF Access
<1>2. ASSUME NEW q \in SignedIn, token = Refresh(req[q].user, req[q].at)
      PROVE  token \in Tokens /\ token.type = "refresh" /\ token.sub = req[q].user
  <2>1. token \in Tokens
    BY <1>2, GivenTokens
  <2> QED  BY <1>2, <2>1 DEF Refresh
<1>3. ASSUME token \in ForeignTokens
      PROVE  /\ token \in Tokens
             /\ token.secret \in {SecretFallback[n] : n \in DOMAIN SecretFallback}
  <2>1. DOMAIN users \subseteq Requests
    BY DEF IndInv, TypeOK
  <2>2. \A n \in DOMAIN SecretFallback : SecretFallback[n] \in STRING
    BY AuthTokensAssumption
  <2>3. TimeBound + 1 \in Int
    BY AuthTokensAssumption
  <2> QED  BY <1>3, <2>1, <2>2, <2>3 DEF ForeignTokens, Tokens
<1>4. \/ \E q \in SignedIn : token = Access(req[q].user, req[q].at)
      \/ \E q \in SignedIn : token = Refresh(req[q].user, req[q].at)
      \/ token \in ForeignTokens
  BY DEF AccessTokens, RefreshTokens
<1>5. token \in Tokens
  BY <1>1, <1>2, <1>3, <1>4
<1>6. ASSUME Production, NEW n \in DOMAIN SecretFallback
      PROVE  /\ AccessSecretIsPrivate => conf.JWT_ACCESS_SECRET # SecretFallback[n]
             /\ RefreshSecretIsPrivate => conf.JWT_REFRESH_SECRET # SecretFallback[n]
  <2>1. n \in {"JWT_ACCESS_SECRET", "JWT_REFRESH_SECRET"}
    BY SecretNames
  <2>2. /\ conf.JWT_ACCESS_SECRET # SecretFallback.JWT_ACCESS_SECRET
        /\ conf.JWT_REFRESH_SECRET # SecretFallback.JWT_REFRESH_SECRET
    BY <1>6 DEF Production, IndInv, ConfigurationFits
  <2> QED  BY <2>1, <2>2 DEF AccessSecretIsPrivate, RefreshSecretIsPrivate
<1>7. ASSUME Production, RefreshSecretIsPrivate, IsRefreshToken(token)
      PROVE  \E q \in SignedIn : req[q].user = token.sub
                                 /\ token = Refresh(req[q].user, req[q].at)
  <2>1. token.type = "refresh" /\ token.secret = conf.JWT_REFRESH_SECRET
    BY <1>7 DEF IsRefreshToken, Verifies
  <2>2. PICK q \in SignedIn : token = Refresh(req[q].user, req[q].at)
    BY <1>1, <1>3, <1>4, <1>6, <1>7, <2>1
  <2> QED  BY <1>2, <2>2
<1>8. ASSUME Production, AccessSecretIsPrivate, IsAccessToken(token)
      PROVE  \E q \in SignedIn :
               /\ req[q].user = token.sub /\ token = Access(req[q].user, req[q].at)
               /\ now < req[q].at + TimeSpan(conf.JWT_ACCESS_EXPIRES_IN)
  <2>1. token.type = "access" /\ token.secret = conf.JWT_ACCESS_SECRET /\ now < token.exp
    BY <1>8 DEF IsAccessToken, Verifies
  <2>2. PICK q \in SignedIn : token = Access(req[q].user, req[q].at)
    BY <1>2, <1>3, <1>4, <1>6, <1>8, <2>1
  <2> QED  BY <1>1, <2>1, <2>2
<1> QED  BY <1>5, <1>7, <1>8

\* Request r presents a token for op, and goes on to pc or gets its answer.
Presents(r, token, op, pc, status) ==
  /\ token \in AccessTokens \cup RefreshTokens \cup ForeignTokens
  /\ op \in {"refresh", "call"}
  /\ \/ pc = "find" /\ status = 0
     \/ pc = "answered" /\ status = 401
  /\ req' = [req EXCEPT ![r] =
       [req[r] EXCEPT !.op = op, !.token = token, !.user = token.sub, !.at = now,
                      !.pc = pc, !.status = status]]
  /\ op = "refresh" /\ pc = "find" => IsRefreshToken(token)
  /\ op = "call" /\ pc = "find" => IsAccessToken(token)

\* A call or a refresh starts with a token, which is accepted or refused at once.
LEMMA PresentInd ==
  ASSUME IndInv, NEW r \in Requests, RefreshSession(r) \/ Call(r)
  PROVE  IndInv'
<1>1. At(r, "new") /\ conf # Refused /\ UNCHANGED <<conf, users, now>>
  <2>1. New(r) /\ UNCHANGED <<conf, users, now>>
    <3>1. CASE RefreshSession(r)
      BY <3>1 DEF RefreshSession
    <3>2. CASE Call(r)
      BY <3>2 DEF Call
    <3> QED  BY <3>1, <3>2
  <2> QED  BY <2>1 DEF New
<1>2. PICK token, op, pc, status : Presents(r, token, op, pc, status)
  <2>1. req[r] \in RequestStates /\ Fits(r, req[r]) /\ req[r].status = 0
    BY <1>1, AtWork DEF Fits, InLife, At
  <2>2. CASE RefreshSession(r)
    <3>1. PICK token \in AccessTokens \cup RefreshTokens \cup ForeignTokens :
            req' = [req EXCEPT ![r] =
              IF IsRefreshToken(token)
                THEN [[req[r] EXCEPT !.op = "refresh", !.token = token,
                                     !.user = token.sub, !.at = now] EXCEPT !.pc = "find"]
                ELSE [[req[r] EXCEPT !.op = "refresh", !.token = token,
                                     !.user = token.sub, !.at = now]
                        EXCEPT !.pc = "answered", !.status = 401]]
      BY <2>2 DEF RefreshSession
    <3>2. CASE IsRefreshToken(token)
      <4>1. req' = [req EXCEPT ![r] =
              [req[r] EXCEPT !.op = "refresh", !.token = token, !.user = token.sub,
                             !.at = now, !.pc = "find", !.status = 0]]
        BY <2>1, <3>1, <3>2 DEF RequestStates
      <4>2. Presents(r, token, "refresh", "find", 0)
        BY <3>2, <4>1 DEF Presents
      <4> QED  BY <4>2
    <3>3. CASE ~IsRefreshToken(token)
      <4>1. req' = [req EXCEPT ![r] =
              [req[r] EXCEPT !.op = "refresh", !.token = token, !.user = token.sub,
                             !.at = now, !.pc = "answered", !.status = 401]]
        BY <2>1, <3>1, <3>3 DEF RequestStates
      <4>2. Presents(r, token, "refresh", "answered", 401)
        BY <4>1 DEF Presents
      <4> QED  BY <4>2
    <3> QED  BY <3>2, <3>3
  <2>3. CASE Call(r)
    <3>1. PICK token \in AccessTokens \cup RefreshTokens \cup ForeignTokens :
            req' = [req EXCEPT ![r] =
              IF IsAccessToken(token)
                THEN [[req[r] EXCEPT !.op = "call", !.token = token,
                                     !.user = token.sub, !.at = now] EXCEPT !.pc = "find"]
                ELSE [[req[r] EXCEPT !.op = "call", !.token = token,
                                     !.user = token.sub, !.at = now]
                        EXCEPT !.pc = "answered", !.status = 401]]
      BY <2>3 DEF Call
    <3>2. CASE IsAccessToken(token)
      <4>1. req' = [req EXCEPT ![r] =
              [req[r] EXCEPT !.op = "call", !.token = token, !.user = token.sub,
                             !.at = now, !.pc = "find", !.status = 0]]
        BY <2>1, <3>1, <3>2 DEF RequestStates
      <4>2. Presents(r, token, "call", "find", 0)
        BY <3>2, <4>1 DEF Presents
      <4> QED  BY <4>2
    <3>3. CASE ~IsAccessToken(token)
      <4>1. req' = [req EXCEPT ![r] =
              [req[r] EXCEPT !.op = "call", !.token = token, !.user = token.sub,
                             !.at = now, !.pc = "answered", !.status = 401]]
        BY <2>1, <3>1, <3>3 DEF RequestStates
      <4>2. Presents(r, token, "call", "answered", 401)
        BY <4>1 DEF Presents
      <4> QED  BY <4>2
    <3> QED  BY <3>2, <3>3
  <2> QED  BY <2>2, <2>3
<1>3. /\ token \in AccessTokens \cup RefreshTokens \cup ForeignTokens
      /\ op \in {"refresh", "call"}
      /\ \/ pc = "find" /\ status = 0
         \/ pc = "answered" /\ status = 401
      /\ req' = [req EXCEPT ![r] =
           [req[r] EXCEPT !.op = op, !.token = token, !.user = token.sub, !.at = now,
                          !.pc = pc, !.status = status]]
      /\ op = "refresh" /\ pc = "find" => IsRefreshToken(token)
      /\ op = "call" /\ pc = "find" => IsAccessToken(token)
  BY <1>2 DEF Presents
<1>4. /\ req \in [Requests -> RequestStates] /\ req[r] \in RequestStates
      /\ req[r].op = "none" /\ now \in 0 .. TimeBound
  BY <1>1, AtWork DEF Fits, InLife, At, IndInv, TypeOK
<1>5. token \in Tokens /\ token.sub \in Requests
  BY <1>1, <1>3, PresentedTokens DEF Tokens
<1>6. PICK s : s = [req[r] EXCEPT !.op = op, !.token = token, !.user = token.sub, !.at = now,
                                  !.pc = pc, !.status = status]
  OBVIOUS
<1>7. /\ s \in RequestStates /\ s.op = op /\ s.token = token /\ s.user = token.sub
      /\ s.at = now /\ s.pc = pc /\ s.status = status
  <2>1. op \in Ops /\ pc \in Stages /\ status \in Statuses
    BY <1>3 DEF Ops, Stages, Statuses
  <2> QED  BY <1>4, <1>5, <1>6, <2>1 DEF RequestStates
<1>8. Fits(r, s)
  BY <1>1, <1>3, <1>7 DEF Fits, InLife, KnowsAccount, Served
<1>9. Carries(r, s) /\ Turned(s)
  BY <1>1, <1>3, <1>4, <1>7 DEF Carries, Made, At, Turned
<1>10. Proper(s)
  <2>1. ASSUME Production, RefreshSecretIsPrivate, s.pc = "find", s.op = "refresh"
        PROVE  \E q \in SignedIn : req[q].user = s.user /\ s.token = Refresh(req[q].user, req[q].at)
    BY <1>1, <1>3, <1>7, <2>1, PresentedTokens
  <2>2. ASSUME Production, AccessSecretIsPrivate, s.pc = "find", s.op = "call"
        PROVE  \E q \in SignedIn :
                 /\ req[q].user = s.user /\ s.token = Access(req[q].user, req[q].at)
                 /\ s.at < req[q].at + TimeSpan(conf.JWT_ACCESS_EXPIRES_IN)
    BY <1>1, <1>3, <1>7, <2>2, PresentedTokens
  <2>3. s.pc # "sign" /\ s.status # 200 /\ s.status # 201
    BY <1>3, <1>7
  <2> QED  BY <2>1, <2>2, <2>3 DEF Proper, Admitted, Renewed
<1>11. users' = users /\ now' = now /\ conf' = conf
  BY <1>1
<1>12. Moves(r, s)
  <2>1. req' = [req EXCEPT ![r] = s]
    BY <1>3, <1>6
  <2> QED  BY <1>8, <1>9, <1>10, <1>11, <2>1 DEF Moves
<1> QED  BY <1>9, <1>11, <1>12, NoUserIsWritten

-----------------------------------------------------------------------------
(* Looking a user up, and the answers. *)

\* The accounts a client owns are found under the address it gave.
LEMMA OwnedAreFound ==
  ASSUME IndInv, NEW r \in Requests, req[r].op = "login"
  PROVE  req[r].owned \cap DOMAIN users \subseteq Accounts(req[r].email)
<1>1. ASSUME NEW u \in req[r].owned, u \in DOMAIN users
      PROVE  users[u].email = req[r].email
  <2>1. req[u].email = req[r].email
    BY AtWork DEF Fits, KnowsAccount
  <2>2. users[u].email = req[u].email
    BY <1>1 DEF IndInv, AccountsFit
  <2> QED  BY <2>1, <2>2
<1> QED  BY <1>1 DEF Accounts

\* An address has one account, which is what its registration wrote.
LEMMA OneAccount ==
  ASSUME IndInv, NEW email
  PROVE  /\ \A u \in Accounts(email) : u \in Requests /\ Made(u) /\ req[u].email = email
         /\ \A u, v \in Accounts(email) : u = v
<1>1. \A u \in Accounts(email) : u \in DOMAIN users /\ users[u].email = email
  BY DEF Accounts
<1>2. \A u \in Accounts(email) : u \in Requests /\ Made(u) /\ req[u].email = email
  BY <1>1 DEF IndInv, TypeOK, AccountsFit
<1>3. \A u, v \in Accounts(email) : u = v
  BY <1>1 DEF IndInv, TypeOK
<1> QED  BY <1>2, <1>3

\* A request goes on to pc with user u, or ends with a status.
GoesOn(q, pc, u, status) == [q EXCEPT !.pc = pc, !.user = u, !.status = status]

\* It keeps what the client gave.
Keeps(s, q) ==
  /\ s.op = q.op /\ s.email = q.email /\ s.password = q.password
  /\ s.owned = q.owned /\ s.token = q.token /\ s.at = q.at

\* Such a state is one of a request's, and the other fields are as they were.
LEMMA MovedState ==
  ASSUME NEW q \in RequestStates, NEW pc \in Stages, NEW u \in Requests,
         NEW status \in Statuses
  PROVE  /\ GoesOn(q, pc, u, status) \in RequestStates
         /\ GoesOn(q, pc, u, status).pc = pc /\ GoesOn(q, pc, u, status).user = u
         /\ GoesOn(q, pc, u, status).status = status
         /\ Keeps(GoesOn(q, pc, u, status), q)
<1>1. GoesOn(q, pc, u, status) \in RequestStates
  BY DEF GoesOn, RequestStates
<1>2. /\ GoesOn(q, pc, u, status).pc = pc /\ GoesOn(q, pc, u, status).user = u
      /\ GoesOn(q, pc, u, status).status = status
  BY DEF GoesOn, RequestStates
<1>3. Keeps(GoesOn(q, pc, u, status), q)
  BY DEF GoesOn, Keeps, RequestStates
<1> QED  BY <1>1, <1>2, <1>3

\* The state a request moves to when its user is found.
FoundState(r, u) ==
  GoesOn(req[r], AfterFind(req[r].op), u, IF req[r].op = "call" THEN 200 ELSE 0)

\* A user is found: the login goes on with it, the token was its own.
LEMMA FoundInd ==
  ASSUME IndInv, NEW r \in Requests, At(r, "find"), UNCHANGED <<conf, users, now>>,
         NEW u \in Found(r), req' = [req EXCEPT ![r] = FoundState(r, u)]
  PROVE  IndInv'
<1>1. /\ req \in [Requests -> RequestStates] /\ req[r] \in RequestStates /\ Fits(r, req[r])
      /\ req[r].op \in {"login", "refresh", "call"} /\ req[r].status = 0
      /\ conf # Refused
  BY AtWork DEF Fits, InLife, Served, At
<1>2. /\ req[r].op = "login" => u \in Accounts(req[r].email)
      /\ req[r].op # "login" => u = req[r].user
  BY DEF Found
<1>3. u \in Requests
  BY <1>1, <1>2, OneAccount DEF RequestStates
<1>4. PICK s : s = FoundState(r, u)
  OBVIOUS
<1>5. /\ AfterFind(req[r].op) \in Stages
      /\ req[r].op = "login" => AfterFind(req[r].op) = "compare"
      /\ req[r].op = "refresh" => AfterFind(req[r].op) = "sign"
      /\ req[r].op = "call" => AfterFind(req[r].op) = "answered"
  BY <1>1 DEF AfterFind, Stages
<1>6. /\ s \in RequestStates /\ s.pc = AfterFind(req[r].op) /\ s.user = u
      /\ s.status = IF req[r].op = "call" THEN 200 ELSE 0
      /\ s.op = req[r].op /\ s.email = req[r].email /\ s.password = req[r].password
      /\ s.owned = req[r].owned /\ s.token = req[r].token /\ s.at = req[r].at
  <2>1. PICK status \in Statuses : status = IF req[r].op = "call" THEN 200 ELSE 0
    BY DEF Statuses
  <2>2. PICK pc \in Stages : pc = AfterFind(req[r].op)
    BY <1>5
  <2>3. s = GoesOn(req[r], pc, u, status)
    BY <1>4, <2>1, <2>2 DEF FoundState
  <2>4. req[r] \in RequestStates /\ u \in Requests
    BY <1>1, <1>3
  <2>5. /\ s \in RequestStates /\ s.pc = pc /\ s.user = u /\ s.status = status
        /\ Keeps(s, req[r])
    BY <2>3, <2>4, MovedState
  <2> QED  BY <2>1, <2>2, <2>5 DEF Keeps
<1>7. Fits(r, s)
  <2>1. InLife(s) /\ Served(r, s)
    BY <1>1, <1>5, <1>6 DEF InLife, Served
  <2>2. KnowsAccount(s)
    BY <1>1, <1>2, <1>5, <1>6, OneAccount DEF Fits, KnowsAccount
  <2> QED  BY <1>6, <2>1, <2>2 DEF Fits
<1>8. Carries(r, s)
  BY <1>1 DEF Carries, Made, At
<1>9. Proper(s)
  <2>1. ASSUME Production
        PROVE  /\ AccessSecretIsPrivate => Admitted(s)
               /\ RefreshSecretIsPrivate => Renewed(s)
    <3>1. /\ AccessSecretIsPrivate => Admitted(req[r])
          /\ RefreshSecretIsPrivate => Renewed(req[r])
          /\ req[r].pc = "find"
      BY <2>1 DEF IndInv, SessionsFit, At
    <3>2. CASE req[r].op = "login"
      BY <1>6, <3>2 DEF Admitted, Renewed
    <3>3. CASE req[r].op # "login"
      BY <1>2, <1>6, <3>1, <3>3 DEF Admitted, Renewed
    <3> QED  BY <3>2, <3>3
  <2> QED  BY <1>6, <2>1 DEF Proper
<1>10. Turned(s)
  <2>1. CASE req[r].op = "login"
    <3>1. req[r].owned \cap DOMAIN users \subseteq {u}
      BY <1>2, <2>1, OwnedAreFound, OneAccount
    <3>2. s.owned = req[r].owned /\ s.user = u /\ s.status = 0
      BY <1>6, <2>1
    <3> QED  BY <3>1, <3>2 DEF Turned
  <2>2. CASE req[r].op # "login"
    BY <1>6, <2>2 DEF Turned
  <2> QED  BY <2>1, <2>2
<1> QED  BY <1>4, <1>7, <1>8, <1>9, <1>10, NoUserIsWritten DEF Moves

\* The user is looked up; a login that finds none turns away nobody who has an account.
LEMMA FindUserInd ==
  ASSUME IndInv, NEW r \in Requests, FindUser(r)
  PROVE  IndInv'
<1>1. /\ At(r, "find") /\ ~At(r, "answered") /\ UNCHANGED <<conf, users, now>>
      /\ req[r].op \in {"login", "refresh", "call"}
      /\ req \in [Requests -> RequestStates]
  <2>1. At(r, "find") /\ UNCHANGED <<conf, users, now>>
    BY DEF FindUser
  <2>2. Fits(r, req[r]) /\ req \in [Requests -> RequestStates]
    BY AtWork
  <2> QED  BY <2>1, <2>2 DEF Fits, InLife, At
<1>2. CASE Found(r) = {}
  <2>1. Answer(r, 401)
    BY <1>2 DEF FindUser
  <2>2. CASE req[r].op = "login"
    <3>1. PICK s : Moves(r, s) /\ Ends(r, s) /\ s.status = 401
      BY <1>1, <2>1, <2>2, AnswerFits
    <3>2. Turned(s)
      BY <1>2, <2>2, <3>1, OwnedAreFound DEF Turned, Ends, Found
    <3> QED  BY <1>1, <3>1, <3>2, NoUserIsWritten
  <2>3. CASE req[r].op # "login"
    BY <1>1, <2>1, <2>3, PlainAnswer
  <2> QED  BY <2>2, <2>3
<1>3. CASE Found(r) # {}
  <2>1. PICK u \in Found(r) :
          req' = [req EXCEPT ![r].pc = AfterFind(req[r].op), ![r].user = u,
                             ![r].status = IF req[r].op = "call" THEN 200 ELSE 0]
    BY <1>3 DEF FindUser
  <2>2. req' = [req EXCEPT ![r] = FoundState(r, u)]
    BY <1>1, <2>1 DEF FoundState, GoesOn
  <2> QED  BY <1>1, <2>2, FoundInd
<1> QED  BY <1>2, <1>3

\* A password is compared: when it does not match, the account that was found is not
\* the client's, and there is no other.
LEMMA ComparePasswordInd ==
  ASSUME IndInv, NEW r \in Requests, ComparePassword(r)
  PROVE  IndInv'
<1>1. /\ At(r, "compare") /\ ~At(r, "answered") /\ UNCHANGED <<conf, users, now>>
      /\ req[r].op = "login" /\ req[r].status = 0 /\ conf # Refused
      /\ req \in [Requests -> RequestStates] /\ req[r] \in RequestStates /\ Fits(r, req[r])
  BY AtWork DEF ComparePassword, Fits, InLife, Served, At
<1>2. CASE Matches(r)
  <2>1. req' = [req EXCEPT ![r].pc = "sign"]
    BY <1>2 DEF ComparePassword
  <2>2. PICK s : s = [req[r] EXCEPT !.pc = "sign"]
    OBVIOUS
  <2>3. req' = [req EXCEPT ![r] = s]
    BY <1>1, <2>1, <2>2
  <2>4. /\ s \in RequestStates /\ s.pc = "sign" /\ s.op = "login" /\ s.status = 0
        /\ s.email = req[r].email /\ s.password = req[r].password /\ s.user = req[r].user
        /\ s.owned = req[r].owned
    BY <1>1, <2>2 DEF RequestStates, Stages
  <2>5. KnowsAccount(s)
    BY <1>1, <1>2, <2>4 DEF Fits, KnowsAccount, At, Matches
  <2>6. Fits(r, s)
    BY <1>1, <2>4, <2>5 DEF Fits, InLife, Served
  <2>7. Carries(r, s) /\ Proper(s) /\ Turned(s)
    BY <1>1, <2>4 DEF Carries, Made, Proper, Admitted, Renewed, Turned
  <2> QED  BY <1>1, <2>3, <2>6, <2>7, NoUserIsWritten DEF Moves
<1>3. CASE ~Matches(r)
  <2>1. Answer(r, 401)
    BY <1>3 DEF ComparePassword
  <2>2. PICK s : Moves(r, s) /\ Ends(r, s) /\ s.status = 401
    BY <1>1, <2>1, AnswerFits
  <2>3. req[r].user \notin req[r].owned
    BY <1>1, <1>3 DEF Fits, KnowsAccount, Matches
  <2>4. req[r].owned \cap DOMAIN users \subseteq {req[r].user}
    BY <1>1 DEF IndInv, LoginsFit, Turned, At
  <2>5. Turned(s)
    BY <2>2, <2>3, <2>4 DEF Turned, Ends
  <2> QED  BY <1>1, <2>2, <2>5, NoUserIsWritten
<1> QED  BY <1>2, <1>3

\* Tokens are signed for a user who has just proved the password or did so before.
LEMMA SignTokensInd ==
  ASSUME IndInv, NEW r \in Requests, SignTokens(r)
  PROVE  IndInv'
<1>1. /\ At(r, "sign") /\ UNCHANGED <<conf, users, now>>
      /\ req[r].op \in {"register", "login", "refresh"} /\ conf # Refused
      /\ req \in [Requests -> RequestStates] /\ req[r] \in RequestStates /\ Fits(r, req[r])
      /\ now \in 0 .. TimeBound
  BY AtWork DEF SignTokens, Fits, InLife, Served, At, IndInv, TypeOK
<1>2. PICK status : status = IF ~Signs THEN 500
                             ELSE IF req[r].op = "register" THEN 201 ELSE 200
  OBVIOUS
<1>3. req' = [req EXCEPT ![r].pc = "answered", ![r].at = now, ![r].status = status]
  BY <1>2 DEF SignTokens
<1>4. PICK s : s = [req[r] EXCEPT !.pc = "answered", !.at = now, !.status = status]
  OBVIOUS
<1>5. req' = [req EXCEPT ![r] = s]
  BY <1>1, <1>3, <1>4
<1>6. /\ status \in {200, 201, 500} /\ status \in {200, 201} => Signs
      /\ req[r].op = "register" => status \in {201, 500}
      /\ req[r].op # "register" => status \in {200, 500}
  BY <1>2
<1>7. /\ s \in RequestStates /\ s.pc = "answered" /\ s.status = status
      /\ s.op = req[r].op /\ s.email = req[r].email /\ s.password = req[r].password
      /\ s.user = req[r].user /\ s.owned = req[r].owned /\ s.token = req[r].token
  <2>1. "answered" \in Stages /\ status \in Statuses
    BY <1>6 DEF Stages, Statuses
  <2> QED  BY <1>1, <1>4, <2>1 DEF RequestStates
<1>8. Fits(r, s)
  <2>1. InLife(s) /\ Served(r, s)
    BY <1>1, <1>6, <1>7 DEF InLife, Fits, Served
  <2>2. KnowsAccount(s)
    BY <1>1, <1>6, <1>7 DEF Fits, KnowsAccount, At
  <2> QED  BY <1>7, <2>1, <2>2 DEF Fits
<1>9. Carries(r, s) /\ Turned(s)
  BY <1>1, <1>6, <1>7 DEF Carries, Made, At, Turned
<1>10. Proper(s)
  <2> SUFFICES ASSUME Production, RefreshSecretIsPrivate
               PROVE  Renewed(s) /\ (s.op \in {"register", "login"} \/ Proved(s.user))
    BY <1>1, <1>7 DEF Proper, Admitted
  <2>1. CASE req[r].op # "refresh"
    BY <1>1, <1>7, <2>1 DEF Renewed
  <2>2. CASE req[r].op = "refresh"
    <3>1. Renewed(req[r]) /\ \A q \in SignedIn : Proved(req[q].user)
      BY DEF IndInv, SessionsFit
    <3>2. PICK q \in SignedIn :
            req[q].user = req[r].user /\ req[r].token = Refresh(req[q].user, req[q].at)
      BY <1>1, <2>2, <3>1 DEF Renewed, At
    <3> QED  BY <1>7, <2>2, <3>1, <3>2 DEF Renewed
  <2> QED  BY <2>1, <2>2
<1> QED  BY <1>1, <1>5, <1>8, <1>9, <1>10, NoUserIsWritten DEF Moves

\* A query fails; an insert may have happened all the same.
LEMMA QueryFailsInd ==
  ASSUME IndInv, NEW r \in Requests, QueryFails(r)
  PROVE  IndInv'
<1>1. /\ ~At(r, "answered") /\ Answer(r, 500) /\ UNCHANGED <<conf, now>>
      /\ req[r].op \in {"register", "login", "refresh", "call"}
  BY AtWork DEF QueryFails, Fits, InLife, At
<1>2. CASE users' = users
  BY <1>1, <1>2, PlainAnswer
<1>3. CASE At(r, "insert") /\ Accounts(req[r].email) = {} /\ users' = Inserted(r)
  <2>1. req[r].op = "register"
    BY <1>3, AtWork DEF Fits, InLife, At
  <2>2. PICK s : Moves(r, s) /\ Ends(r, s) /\ s.status = 500
    BY <1>1, <2>1, AnswerFits
  <2> QED  BY <1>1, <1>3, <2>1, <2>2, InsertedInd DEF Ends
<1> QED  BY <1>2, <1>3 DEF QueryFails

-----------------------------------------------------------------------------
(* The theorems. *)

\* Every step of the specification preserves the invariant.
LEMMA NextInd == ASSUME IndInv, [Next]_vars PROVE IndInv'
<1>1. CASE Tick \/ \E u \in Requests : RemoveUser(u)
  BY <1>1, EnvironmentInd
<1>2. ASSUME NEW r \in Requests, Step(r) PROVE IndInv'
  BY <1>2, RegisterInd, InsertUserInd, LoginInd, ComparePasswordInd, PresentInd, FindUserInd,
     SignTokensInd, QueryFailsInd DEF Step
<1>3. CASE UNCHANGED vars
  BY <1>3, StutterInd
<1> QED  BY <1>1, <1>2, <1>3 DEF Next

\* The invariant holds in every reachable state, for any number of users and requests.
THEOREM Invariance == Spec => []IndInv
<1> QED  BY InitInd, NextInd, PTL DEF Spec

\* Accounts and requests stay well formed, and an address never has two accounts.
THEOREM TypeCorrect == Spec => []TypeOK
<1>1. IndInv => TypeOK
  BY DEF IndInv
<1> QED  BY <1>1, Invariance, PTL

\* In production, with secrets that are not the published one of the other kind,
\* JwtAuthGuard lets a call in only with an access token that was given to that user and
\* has not run out, and only when the user proved the password.
THEOREM CallsAreEarned == Spec => []AdmissionIsEarned
<1>1. IndInv => AdmissionIsEarned
  <2> SUFFICES ASSUME IndInv, Production, AccessSecretIsPrivate, NEW r \in Requests,
                      req[r].op = "call", req[r].status = 200
               PROVE  /\ \E q \in SignedIn :
                           /\ req[q].user = req[r].user
                           /\ req[r].token = Access(req[q].user, req[q].at)
                           /\ req[r].at < req[q].at + TimeSpan(conf.JWT_ACCESS_EXPIRES_IN)
                      /\ RefreshSecretIsPrivate =>
                           \E q \in SignedIn : /\ req[q].op \in {"register", "login"}
                                               /\ req[q].user = req[r].user
    BY DEF AdmissionIsEarned
  <2>1. PICK q \in SignedIn :
          /\ req[q].user = req[r].user
          /\ req[r].token = Access(req[q].user, req[q].at)
          /\ req[r].at < req[q].at + TimeSpan(conf.JWT_ACCESS_EXPIRES_IN)
    BY DEF IndInv, SessionsFit, Admitted
  <2>2. RefreshSecretIsPrivate => Proved(req[q].user)
    BY DEF IndInv, SessionsFit
  <2> QED  BY <2>1, <2>2 DEF Proved
<1> QED  BY <1>1, Invariance, PTL

\* In production, with a refresh secret that is not the published access secret, only a
\* refresh token that this service gave out renews a session: an access token, or one of
\* another deployment, never does.
THEOREM RenewalIsEarned == Spec => []RefreshNeedsRefreshToken
<1>1. IndInv => RefreshNeedsRefreshToken
  <2> SUFFICES ASSUME IndInv, Production, RefreshSecretIsPrivate, NEW r \in SignedIn,
                      req[r].op = "refresh"
               PROVE  req[r].token \in RefreshTokens
    BY DEF RefreshNeedsRefreshToken
  <2>1. r \in Requests /\ req[r].status = 200 /\ Renewed(req[r])
    BY AtWork DEF SignedIn, IndInv, SessionsFit, Fits, InLife
  <2> QED  BY <2>1 DEF Renewed, RefreshTokens
<1> QED  BY <1>1, Invariance, PTL

\* A login is let into the account of its address whose password bcrypt reads as the same,
\* and is told that it is wrong only where there is no such account.
THEOREM LoginsAreExact == Spec => []SignInIsExact
<1>1. IndInv => SignInIsExact
  <2> SUFFICES ASSUME IndInv, NEW r \in Requests, req[r].op = "login"
               PROVE  /\ req[r].status = 401 => req[r].owned \cap DOMAIN users = {}
                      /\ req[r].status = 200 =>
                           /\ Hashed(req[req[r].user].password) = Hashed(req[r].password)
                           /\ Lower(req[req[r].user].email) = Lower(req[r].email)
    BY DEF SignInIsExact
  <2>1. req[r].status = 401 => req[r].owned \cap DOMAIN users = {}
    BY DEF IndInv, LoginsFit, Turned
  <2>2. KnowsAccount(req[r])
    BY AtWork DEF Fits
  <2> QED  BY <2>1, <2>2 DEF KnowsAccount
<1> QED  BY <1>1, Invariance, PTL
=============================================================================
