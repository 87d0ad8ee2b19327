------------------------------- MODULE ApiKeys -------------------------------
(***************************************************************************)
(* API keys: ApiKeysService of the API creates and revokes them, and        *)
(* ApiKeyService of the ingestion service validates them, over the table    *)
(* ApiKey.  A row is found by the key's prefix, which few bits tell apart,  *)
(* and the key is then compared with the row's hash.  Every awaited query,  *)
(* with the code up to the next one, is a step.  A request runs once and    *)
(* names the row it creates.                                                *)
(*                                                                          *)
(* Keys are opaque.  Two different keys may share a prefix, and a hash      *)
(* matches its own key only (bcrypt).  Times are ticks of a clock that all  *)
(* processes read, from 1; Never is the column's null.                      *)
(***************************************************************************)
EXTENDS Naturals, FiniteSets

CONSTANTS
  Requests,     \* bound: the requests of a run
  Projects,
  NoProject,
  Drawable,     \* bound: the keys generateApiKey draws, no key twice
  Guesses,      \* well-formed keys that nobody issued
  NoKey,        \* a header that isApiKeyFormatValid rejects
  PrefixOf(_),  \* extractApiKeyLookupPrefix
  MaxAttempts,  \* draws of generateUniqueApiKey
  TimeBound     \* bound on the clock

Strings == Drawable \cup Guesses

ASSUME ApiKeysAssumption ==
  /\ MaxAttempts \in Nat \ {0}
  /\ TimeBound \in Nat \ {0}
  /\ NoProject \notin Projects
  /\ NoKey \notin Strings
  /\ Drawable \cap Guesses = {}

VARIABLES
  rows,      \* table ApiKey: id -> project, key (for prefix and hash), times
  projects,  \* ids in table Project
  drawn,     \* keys drawn so far
  now,       \* new Date()
  req        \* what each request is doing

vars == <<rows, projects, drawn, now, req>>

Never == 0
Times == 0 .. TimeBound

Ops == {"none", "create", "revoke", "validate"}
Stages == {"new", "role", "draw", "insert", "find", "update", "lookup", "compare",
           "touch", "answered"}
\* 404 stands for 403 too: the member has no role that allows the call.
Statuses == {0, 200, 201, 204, 401, 404, 500, 503}

Rows == [project : Projects, key : Drawable, lastUsedAt : Times, revokedAt : Times]
RequestStates ==
  [pc : Stages, op : Ops, project : Projects \cup {NoProject},
   key : Strings \cup {NoKey}, row : Requests, tries : 0 .. MaxAttempts,
   at : Times, status : Statuses]

NewRequest(r) ==
  [pc |-> "new", op |-> "none", project |-> NoProject, key |-> NoKey, row |-> r,
   tries |-> 0, at |-> Never, status |-> 0]

Init ==
  /\ rows = [i \in {} |-> 0]
  /\ projects = Projects
  /\ drawn = {}
  /\ now = 1
  /\ req = [r \in Requests |-> NewRequest(r)]

At(r, pc)         == req[r].pc = pc
Go(r, pc)         == req' = [req EXCEPT ![r].pc = pc]
Answer(r, status) == req' = [req EXCEPT ![r].pc = "answered", ![r].status = status]

RowsWith(prefix) == {i \in DOMAIN rows : PrefixOf(rows[i].key) = prefix}
Only(S) == CHOOSE x \in S : TRUE

-----------------------------------------------------------------------------
\* Time passes; the control plane deletes a project with its keys.
Tick ==
  /\ now < TimeBound
  /\ now' = now + 1
  /\ UNCHANGED <<rows, projects, drawn, req>>

DeleteProject(p) ==
  /\ p \in projects
  /\ projects' = projects \ {p}
  /\ rows' = [i \in {j \in DOMAIN rows : rows[j].project # p} |-> rows[i]]
  /\ UNCHANGED <<drawn, now, req>>

\* requireProjectRole: whether the caller has the role is the control plane's
\* business; of a project that is gone nobody is a member.
RequireProjectRole(r) ==
  /\ At(r, "role")
  /\ \/ /\ req[r].project \in projects
        /\ Go(r, IF req[r].op = "create" THEN "draw" ELSE "find")
     \/ Answer(r, 404)
  /\ UNCHANGED <<rows, projects, drawn, now>>

-----------------------------------------------------------------------------
(* createApiKey. *)

CreateApiKey(r) ==
  /\ At(r, "new")
  /\ \E p \in Projects :
       req' = [req EXCEPT ![r].pc = "role", ![r].op = "create", ![r].project = p]
  /\ UNCHANGED <<rows, projects, drawn, now>>

\* One round of generateUniqueApiKey: a key is drawn and its prefix looked up.
DrawApiKey(r) ==
  /\ At(r, "draw")
  /\ \E k \in Drawable \ drawn :
       /\ drawn' = drawn \cup {k}
       /\ IF RowsWith(PrefixOf(k)) = {}
            THEN req' = [req EXCEPT ![r].pc = "insert", ![r].key = k]
            ELSE IF req[r].tries + 1 < MaxAttempts
                   THEN req' = [req EXCEPT ![r].tries = @ + 1]
                   ELSE Answer(r, 503)
  /\ UNCHANGED <<rows, projects, now>>

NewRow(r) == [project |-> req[r].project, key |-> req[r].key,
              lastUsedAt |-> Never, revokedAt |-> Never]
Inserted(r) == [i \in DOMAIN rows \cup {r} |-> IF i = r THEN NewRow(r) ELSE rows[i]]

\* The unique index refuses a prefix taken since it was looked up, and the
\* foreign key a project that is gone.
BadRefusesInsert(r) == req[r].project \notin projects
RefusesInsert(r) ==
  \/ RowsWith(PrefixOf(req[r].key)) # {}
  \/ req[r].project \notin projects

InsertApiKey(r) ==
  /\ At(r, "insert")
  /\ IF RefusesInsert(r)
       THEN rows' = rows /\ Answer(r, 500)
       ELSE rows' = Inserted(r) /\ Answer(r, 201)
  /\ UNCHANGED <<projects, drawn, now>>

-----------------------------------------------------------------------------
(* revokeApiKey. *)

RevokeApiKey(r) ==
  /\ At(r, "new")
  /\ \E p \in Projects, i \in DOMAIN rows :
       req' = [req EXCEPT ![r].pc = "role", ![r].op = "revoke", ![r].project = p,
                          ![r].row = i]
  /\ UNCHANGED <<rows, projects, drawn, now>>

\* findFirst by id and project.  The time to write is taken when it answers.
OwnRow(r) == req[r].row \in DOMAIN rows /\ rows[req[r].row].project = req[r].project

FindApiKey(r) ==
  /\ At(r, "find")
  /\ IF ~OwnRow(r) THEN Answer(r, 404)
     ELSE IF rows[req[r].row].revokedAt # Never THEN Answer(r, 204)
     ELSE req' = [req EXCEPT ![r].pc = "update", ![r].at = now]
  /\ UNCHANGED <<rows, projects, drawn, now>>

BadRevoked(r) ==
  [rows EXCEPT ![req[r].row].revokedAt = IF @ = Never THEN req[r].at ELSE Never]
Revoked(r) == [rows EXCEPT ![req[r].row].revokedAt = req[r].at]

\* update by id alone: of two that found the key unrevoked, the later one's
\* time stays.
UpdateRevokedAt(r) ==
  /\ At(r, "update")
  /\ IF req[r].row \in DOMAIN rows
       THEN rows' = Revoked(r) /\ Answer(r, 204)
       ELSE rows' = rows /\ Answer(r, 500)
  /\ UNCHANGED <<projects, drawn, now>>

-----------------------------------------------------------------------------
(* validate, of the ingestion service. *)

HandedOut == {req[r].key : r \in {q \in Requests : req[q].status = 201}}

Validate(r) ==
  /\ At(r, "new")
  /\ \/ \E k \in HandedOut \cup Guesses :
          req' = [req EXCEPT ![r].pc = "lookup", ![r].op = "validate", ![r].key = k]
     \/ req' = [req EXCEPT ![r].pc = "answered", ![r].op = "validate", ![r].status = 401]
  /\ UNCHANGED <<rows, projects, drawn, now>>

\* findUnique by prefix, with the project.
Usable(i) == rows[i].revokedAt = Never
LookUp(r) ==
  /\ At(r, "lookup")
  /\ LET found == {i \in RowsWith(PrefixOf(req[r].key)) : Usable(i)}
     IN  IF found = {}
           THEN Answer(r, 401)
           ELSE req' = [req EXCEPT ![r].pc = "compare", ![r].row = Only(found),
                                   ![r].project = rows[Only(found)].project]
  /\ UNCHANGED <<rows, projects, drawn, now>>

\* bcrypt.compare with the hash that was read; row r holds the key request r
\* drew.  The time to write is taken when it answers.
BadMatches(r) == TRUE
Matches(r)    == req[r].key = req[req[r].row].key
Compare(r) ==
  /\ At(r, "compare")
  /\ IF Matches(r)
       THEN req' = [req EXCEPT ![r].pc = "touch", ![r].at = now]
       ELSE Answer(r, 401)
  /\ UNCHANGED <<rows, projects, drawn, now>>

BadTouched(r) == rows
Touched(r)    == [rows EXCEPT ![req[r].row].lastUsedAt = req[r].at]
UpdateLastUsedAt(r) ==
  /\ At(r, "touch")
  /\ IF req[r].row \in DOMAIN rows
       THEN rows' = Touched(r) /\ Answer(r, 200)
       ELSE rows' = rows /\ Answer(r, 500)
  /\ UNCHANGED <<projects, drawn, now>>

-----------------------------------------------------------------------------
\* A query fails, with its effect or without; or its answer comes too late.
QueryFails(r) ==
  /\ req[r].pc \notin {"new", "compare", "answered"}
  /\ \/ rows' = rows
     \/ At(r, "insert") /\ ~RefusesInsert(r) /\ rows' = Inserted(r)
     \/ At(r, "update") /\ req[r].row \in DOMAIN rows /\ rows' = Revoked(r)
     \/ At(r, "touch") /\ req[r].row \in DOMAIN rows /\ rows' = Touched(r)
  /\ Answer(r, 500)
  /\ UNCHANGED <<projects, drawn, now>>

Step(r) ==
  \/ CreateApiKey(r) \/ RevokeApiKey(r) \/ Validate(r)
  \/ RequireProjectRole(r)
  \/ DrawApiKey(r) \/ InsertApiKey(r)
  \/ FindApiKey(r) \/ UpdateRevokedAt(r)
  \/ LookUp(r) \/ Compare(r) \/ UpdateLastUsedAt(r)
  \/ QueryFails(r)

Next ==
  \/ Tick
  \/ \E p \in Projects : DeleteProject(p)
  \/ \E r \in Requests : Step(r)

Spec == Init /\ [][Next]_vars

-----------------------------------------------------------------------------
(* The promise that is implemented. *)

Live(k) == {i \in DOMAIN rows : rows[i].key = k /\ rows[i].revokedAt = Never}
holderBar ==
  [k \in Strings |-> IF Live(k) = {} THEN NoProject ELSE rows[Only(Live(k))].project]

\* A key drawn is as good as issued, or wasted, unless its insert is to come.
issuedBar == drawn \ {req[r].key : r \in {q \in Requests : At(q, "insert")}}

Validating(r) == req[r].op = "validate" /\ req[r].key # NoKey
Presents(r, i) == Validating(r) /\ req[r].row = i /\ req[r].key = req[i].key
CallOf(r) ==
  IF ~Validating(r) THEN [pc |-> "idle"]
  ELSE CASE At(r, "lookup")   -> [pc |-> "asked", key |-> req[r].key]
         [] req[r].pc \in {"compare", "touch"} ->
              [pc |-> "decided", key |-> req[r].key,
               project |-> IF Presents(r, req[r].row) THEN req[r].project
                                                      ELSE NoProject]
         [] req[r].status = 200 ->
              [pc |-> "granted", key |-> req[r].key, project |-> req[r].project]
         [] req[r].status = 401 -> [pc |-> "refused", key |-> req[r].key]
         [] req[r].status = 500 -> [pc |-> "failed", key |-> req[r].key]
callBar == [r \in Requests |-> CallOf(r)]

Authority == INSTANCE KeyAuthority
  WITH Keys <- Strings, Calls <- Requests,
       holder <- holderBar, issued <- issuedBar, call <- callBar

-----------------------------------------------------------------------------
(* Properties. *)

\* Rows and requests are well formed, and no two rows share a prefix.
TypeOK ==
  /\ DOMAIN rows \subseteq Requests
  /\ \A i \in DOMAIN rows : rows[i] \in Rows
  /\ \A i, j \in DOMAIN rows : PrefixOf(rows[i].key) = PrefixOf(rows[j].key) => i = j
  /\ projects \subseteq Projects
  /\ drawn \subseteq Drawable
  /\ now \in Times
  /\ req \in [Requests -> RequestStates]

\* Look-up by prefix, comparison by hash and the races of creation, revocation,
\* project deletion and validation come to this: a call is granted the project of
\* exactly the key it presents, when that key is live at one moment of the call,
\* and a key that was handed out and is live is never refused, although others
\* with its prefix are drawn and presented.
ImplementsKeyAuthority == Authority!Spec

\* "Per-key usage tracking": a key that authenticated a call shows a last use, and
\* the use it shows is of a call that presented this very key, whatever calls
\* overtake each other.
UsageIsTracked ==
  \A i \in DOMAIN rows :
    /\ (\E r \in Requests : Presents(r, i) /\ req[r].status = 200)
         => rows[i].lastUsedAt # Never
    /\ rows[i].lastUsedAt # Never
         => \E r \in Requests : Presents(r, i) /\ req[r].at = rows[i].lastUsedAt

\* A revocation that was confirmed stays in force, whatever other revocations were
\* under way and whichever of them wrote its time last, and concerned a key of the
\* caller's project.
RevocationHolds ==
  \A r \in Requests :
    req[r].op = "revoke" /\ req[r].status = 204 /\ req[r].row \in DOMAIN rows =>
      /\ rows[req[r].row].revokedAt # Never
      /\ rows[req[r].row].project = req[r].project
=============================================================================
