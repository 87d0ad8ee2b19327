---------------------------- MODULE ControlPlane ----------------------------
(***************************************************************************)
(* Projects, memberships and API keys: ProjectsService and ApiKeysService   *)
(* of apps/api over the PostgreSQL tables of prisma/schema.prisma.  Every   *)
(* awaited query is one step of its request, so checks and the writes they  *)
(* guard interleave with the queries of all other requests.  A request runs *)
(* once; the uuids it mints (a project and its owner row, a member row or a *)
(* key row) are named by the request itself.  A statement may fail, which   *)
(* ends the request and rolls its transaction back.                         *)
(*                                                                          *)
(* The tables keep the unique and foreign key constraints of the schema at  *)
(* READ COMMITTED: rows deleted by an open transaction are locked, still    *)
(* visible, and gone when it commits.                                       *)
(***************************************************************************)
EXTENDS Naturals

CONSTANTS
  Users,         \* registered users, never deleted
  Requests,      \* bound: the requests of a run
  Bases,         \* slugified project names
  SlugOf(_, _),  \* SlugOf(base, n): base for n = 1, base-n from the second try on
  AskedRoles     \* the roles clients ask for in member requests

VARIABLES
  projects,  \* table Project: id -> owner and slug
  members,   \* table ProjectMember: id -> user, project and role
  keys,      \* table ApiKey: id -> project and whether revokedAt is set
  req        \* what each request is doing

vars == <<projects, members, keys, req>>
tables == <<projects, members, keys>>

Roles      == {"OWNER", "ADMIN", "DEVELOPER", "VIEWER"}
Managers   == {"OWNER", "ADMIN"}               \* PROJECT_MUTATION_ROLES
Assignable == {"ADMIN", "DEVELOPER", "VIEWER"} \* ASSIGNABLE_MEMBER_ROLES

ASSUME ControlPlaneAssumption == Bases # {} /\ AskedRoles \subseteq Roles

Ops == {"create", "rename", "delete", "add", "update", "remove",
        "createKey", "revokeKey"}
Stages == {"role", "slug", "existing", "find", "keys", "members", "write"}

New  == [pc |-> "new"]
Done == [pc |-> "done"]

\* A request under way: its arguments (those its operation does not take name
\* the request itself), the suffix it tries and the rows it holds deleted.
Running ==
  [pc : Stages, op : Ops, user : Users, project : Requests, target : Users,
   row : Requests, role : Roles, base : Bases, n : Nat \ {0}, rows : SUBSET Requests]
Projects == [owner : Users, base : Bases, n : Nat \ {0}]
Members  == [user : Users, project : Requests, role : Roles]
Keys     == [project : Requests, revoked : BOOLEAN]

NoRows == [i \in {} |-> 0]

Without(table, ids) == [i \in DOMAIN table \ ids |-> table[i]]
With(table, id, row) == [i \in DOMAIN table \cup {id} |->
                           IF i = id THEN row ELSE table[i]]

Slug(p) == SlugOf(projects[p].base, projects[p].n)
Membership(u, p) ==
  {m \in DOMAIN members : members[m].user = u /\ members[m].project = p}
RowsOf(table, p) == {i \in DOMAIN table : table[i].project = p}

Active == {r \in Requests : req[r] \notin {New, Done}}
At(r, pc)  == req[r].pc = pc
Doing(r, pc, op) == At(r, pc) /\ req[r].op = op
Go(r, pc)  == req' = [req EXCEPT ![r].pc = pc]
Finish(r)  == req' = [req EXCEPT ![r] = Done]

\* Rows that an open transaction has deleted but not committed.
Locked(i) == \E r \in Active : i \in req[r].rows

Init ==
  /\ projects = NoRows
  /\ members = NoRows
  /\ keys = NoRows
  /\ req = [r \in Requests |-> New]

-----------------------------------------------------------------------------
(* Requests arrive, and all but createProject are authorized first. *)

\* The first try of a slug has no suffix.
BadFirstTry == 0
FirstTry    == 1

Blank(r, u) ==
  [pc |-> "role", op |-> "delete", user |-> u, project |-> r, target |-> u,
   row |-> r, role |-> "OWNER", base |-> CHOOSE b \in Bases : TRUE,
   n |-> FirstTry, rows |-> {}]

\* A client makes a call: its blank is filled in with projects, members and
\* keys that exist.
Receive(r, call) == req' = [req EXCEPT ![r] = call]
Called(r, blank) ==
  \/ \E b \in Bases :
       Receive(r, [blank EXCEPT !.pc = "slug", !.op = "create", !.base = b])
  \/ \E p \in DOMAIN projects :
       \/ Receive(r, [blank EXCEPT !.op = "delete", !.project = p])
       \/ Receive(r, [blank EXCEPT !.op = "createKey", !.project = p])
       \/ \E b \in Bases :
            Receive(r, [blank EXCEPT !.op = "rename", !.project = p, !.base = b])
       \/ \E t \in Users, role \in AskedRoles :
            Receive(r, [blank EXCEPT !.op = "add", !.project = p,
                                     !.target = t, !.role = role])
       \/ \E m \in DOMAIN members, role \in AskedRoles :
            Receive(r, [blank EXCEPT !.op = "update", !.project = p,
                                     !.row = m, !.role = role])
       \/ \E m \in DOMAIN members :
            Receive(r, [blank EXCEPT !.op = "remove", !.project = p, !.row = m])
       \/ \E k \in DOMAIN keys :
            Receive(r, [blank EXCEPT !.op = "revokeKey", !.project = p, !.row = k])

Begin(r) ==
  /\ req[r] = New
  /\ \E u \in Users : Called(r, Blank(r, u))
  /\ UNCHANGED tables

HasRole(u, p, roles) == \E m \in Membership(u, p) : members[m].role \in roles

BadAllowedRoles(op) == Managers
AllowedRoles(op) == IF op = "delete" THEN {"OWNER"} ELSE Managers

\* assertAssignableRole follows the granted check without another query.
BadRefusesRole(r) == FALSE
RefusesRole(r) == req[r].op \in {"add", "update"} /\ req[r].role \notin Assignable

AfterRole(op) ==
  CASE op = "rename"                            -> "slug"
    [] op = "delete"                            -> "keys"
    [] op = "add"                               -> "existing"
    [] op \in {"update", "remove", "revokeKey"} -> "find"
    [] op \in {"create", "createKey"}           -> "write"

RequireProjectRole(r) ==
  /\ At(r, "role")
  /\ IF HasRole(req[r].user, req[r].project, AllowedRoles(req[r].op))
          /\ ~RefusesRole(r)
       THEN Go(r, AfterRole(req[r].op))
       ELSE Finish(r)
  /\ UNCHANGED tables

-----------------------------------------------------------------------------
(* Projects. *)

\* slugExists: some other project already has the slug.  createProject ignores
\* none, and its own project cannot be there yet.
Ignored(r) == IF req[r].op = "rename" THEN {req[r].project} ELSE {}
SlugTaken(r) ==
  \E p \in DOMAIN projects \ Ignored(r) : Slug(p) = SlugOf(req[r].base, req[r].n)

\* One round of the loop of generateUniqueSlug.
BadNextTry(n) == 2
NextTry(n)    == n + 1
GenerateUniqueSlug(r) ==
  /\ At(r, "slug")
  /\ IF SlugTaken(r) THEN req' = [req EXCEPT ![r].n = NextTry(@)] ELSE Go(r, "write")
  /\ UNCHANGED tables

OwnerRow(r) == [user |-> req[r].user, project |-> r, role |-> "OWNER"]

\* The project and its owner's membership are created in one transaction; the
\* unique index refuses a slug taken since it was looked up.
BadInsertOwner(r) == members
InsertOwner(r)    == With(members, r, OwnerRow(r))
CreateProject(r) ==
  /\ Doing(r, "write", "create")
  /\ IF SlugTaken(r)
       THEN UNCHANGED tables
       ELSE /\ projects' = With(projects, r,
                 [owner |-> req[r].user, base |-> req[r].base, n |-> req[r].n])
            /\ members' = InsertOwner(r)
            /\ UNCHANGED keys
  /\ Finish(r)

UpdateProject(r) ==
  /\ Doing(r, "write", "rename")
  /\ IF req[r].project \notin DOMAIN projects \/ SlugTaken(r)
       THEN UNCHANGED projects
       ELSE projects' = [projects EXCEPT ![req[r].project].base = req[r].base,
                                         ![req[r].project].n = req[r].n]
  /\ Finish(r)
  /\ UNCHANGED <<members, keys>>

\* deleteProject: three statements of one transaction.  A delete of rows waits
\* for the transaction that holds them.
DeleteKeys(r) ==
  /\ At(r, "keys")
  /\ \A k \in RowsOf(keys, req[r].project) : ~Locked(k)
  /\ req' = [req EXCEPT ![r].pc = "members",
                        ![r].rows = RowsOf(keys, req[r].project)]
  /\ UNCHANGED tables

DeleteMembers(r) ==
  /\ At(r, "members")
  /\ \A m \in RowsOf(members, req[r].project) : ~Locked(m)
  /\ req' = [req EXCEPT ![r].pc = "write",
                        ![r].rows = @ \cup RowsOf(members, req[r].project)]
  /\ UNCHANGED tables

\* The project row goes last: the foreign keys refuse it when a row was added
\* meanwhile, and nothing is deleted at all.
Unreferenced(r) ==
  RowsOf(keys, req[r].project) \cup RowsOf(members, req[r].project) \subseteq req[r].rows
DeleteProject(r) ==
  /\ Doing(r, "write", "delete")
  /\ IF req[r].project \in DOMAIN projects /\ Unreferenced(r)
       THEN /\ projects' = Without(projects, {req[r].project})
            /\ members' = Without(members, req[r].rows)
            /\ keys' = Without(keys, req[r].rows)
       ELSE UNCHANGED tables
  /\ Finish(r)

-----------------------------------------------------------------------------
(* Members. *)

FindExistingMember(r) ==
  /\ At(r, "existing")
  /\ IF Membership(req[r].target, req[r].project) = {} THEN Go(r, "write") ELSE Finish(r)
  /\ UNCHANGED tables

\* The insert waits for a row it would duplicate to be deleted for good.
Duplicates(r) == Membership(req[r].target, req[r].project) # {}
AddMember(r) ==
  /\ Doing(r, "write", "add")
  /\ \A m \in Membership(req[r].target, req[r].project) : ~Locked(m)
  /\ IF req[r].project \notin DOMAIN projects \/ Duplicates(r)
       THEN UNCHANGED members
       ELSE members' = With(members, r, [user |-> req[r].target,
                                         project |-> req[r].project,
                                         role |-> req[r].role])
  /\ Finish(r)
  /\ UNCHANGED <<projects, keys>>

\* The row a call names, when it is one of the call's project.
BadFound(table, r) == {req[r].row} \cap DOMAIN table
Found(table, r)    == {req[r].row} \cap RowsOf(table, req[r].project)

\* findProjectMember and assertMutableMember.
BadMutable(m) == TRUE
Mutable(m) == members[m].role # "OWNER"
FindProjectMember(r) ==
  /\ At(r, "find") /\ req[r].op \in {"update", "remove"}
  /\ IF \E m \in Found(members, r) : Mutable(m)
       THEN Go(r, "write")
       ELSE Finish(r)
  /\ UNCHANGED tables

UpdateMember(r) ==
  /\ Doing(r, "write", "update")
  /\ ~Locked(req[r].row)
  /\ members' = IF req[r].row \in DOMAIN members
                  THEN [members EXCEPT ![req[r].row].role = req[r].role]
                  ELSE members
  /\ Finish(r)
  /\ UNCHANGED <<projects, keys>>

RemoveMember(r) ==
  /\ Doing(r, "write", "remove")
  /\ ~Locked(req[r].row)
  /\ members' = Without(members, {req[r].row})
  /\ Finish(r)
  /\ UNCHANGED <<projects, keys>>

-----------------------------------------------------------------------------
(* API keys. *)

CreateApiKey(r) ==
  /\ Doing(r, "write", "createKey")
  /\ keys' = IF req[r].project \in DOMAIN projects
               THEN With(keys, r, [project |-> req[r].project, revoked |-> FALSE])
               ELSE keys
  /\ Finish(r)
  /\ UNCHANGED <<projects, members>>

FindApiKey(r) ==
  /\ Doing(r, "find", "revokeKey")
  /\ IF \E k \in Found(keys, r) : ~keys[k].revoked
       THEN Go(r, "write")
       ELSE Finish(r)
  /\ UNCHANGED tables

RevokeApiKey(r) ==
  /\ Doing(r, "write", "revokeKey")
  /\ ~Locked(req[r].row)
  /\ keys' = IF req[r].row \in DOMAIN keys
               THEN [keys EXCEPT ![req[r].row].revoked = TRUE]
               ELSE keys
  /\ Finish(r)
  /\ UNCHANGED <<projects, members>>

-----------------------------------------------------------------------------
\* A statement fails or the process goes away: an open transaction is undone.
StatementFails(r) ==
  /\ r \in Active
  /\ Finish(r)
  /\ UNCHANGED tables

Step(r) ==
  \/ RequireProjectRole(r)
  \/ GenerateUniqueSlug(r)
  \/ CreateProject(r)
  \/ UpdateProject(r)
  \/ DeleteKeys(r)
  \/ DeleteMembers(r)
  \/ DeleteProject(r)
  \/ FindExistingMember(r)
  \/ AddMember(r)
  \/ FindProjectMember(r)
  \/ UpdateMember(r)
  \/ RemoveMember(r)
  \/ CreateApiKey(r)
  \/ FindApiKey(r)
  \/ RevokeApiKey(r)

Next == \E r \in Requests : Begin(r) \/ Step(r) \/ StatementFails(r)

Spec == Init /\ [][Next]_vars

\* The event loop and the database serve every request that was begun.
FairSpec == Spec /\ \A r \in Requests : WF_vars(Step(r))

-----------------------------------------------------------------------------
(* Properties. *)

\* Every table row and every request is well formed.
TypeOK ==
  /\ DOMAIN projects \subseteq Requests
  /\ \A p \in DOMAIN projects : projects[p] \in Projects
  /\ DOMAIN members \subseteq Requests
  /\ \A m \in DOMAIN members : members[m] \in Members
  /\ DOMAIN keys \subseteq Requests
  /\ \A k \in DOMAIN keys : keys[k] \in Keys
  /\ req \in [Requests -> {New, Done} \cup Running]

\* Every project has exactly one owner membership, its creator's: whatever the
\* member operations read before they write, an interrupted or refused delete
\* or a racing role change never leaves a project without owner or with two.
OwnerIsMember ==
  \A p \in DOMAIN projects :
    /\ p \in DOMAIN members
    /\ {m \in RowsOf(members, p) : members[m].role = "OWNER"} = {p}
    /\ members[p].user = projects[p].owner

\* A call changes rows of the one project for which its role was looked up, although
\* members and keys are then written, and held by a delete, by their ids alone; and it
\* takes rows away only as what it is: one membership that it was asked to remove, or
\* all of a project together with the project.  A delete that is refused, or fails
\* between its statements, has deleted nothing.
SameIn(p) ==
  /\ p \in DOMAIN projects' <=> p \in DOMAIN projects
  /\ p \in DOMAIN projects => projects'[p] = projects[p]
  /\ RowsOf(members, p)' = RowsOf(members, p) /\ RowsOf(keys, p)' = RowsOf(keys, p)
  /\ \A m \in RowsOf(members, p) : members'[m] = members[m]
  /\ \A k \in RowsOf(keys, p) : keys'[k] = keys[k]
Gone == (DOMAIN members \ DOMAIN members') \cup (DOMAIN keys \ DOMAIN keys')
ChangesOwn ==
  \A r \in Active : req'[r] # req[r] =>
    /\ \A p \in Requests \ {req[r].project} : SameIn(p)
    /\ Gone # {} => \/ req[r].op = "remove" /\ Gone = {req[r].row}
                    \/ req[r].op = "delete" /\ req[r].project \notin DOMAIN projects'
ChangesStayInProject == [][ChangesOwn]_vars

\* "The owner membership cannot be modified or removed": as long as the project
\* exists no step changes its owner's row, although member updates write by id
\* what they checked a query earlier.
OwnerRowKept ==
  \A m \in DOMAIN members :
    members[m].role = "OWNER" /\ members[m].project \in DOMAIN projects' =>
      m \in DOMAIN members' /\ members'[m] = members[m]
OwnerRowIsFixed == [][OwnerRowKept]_vars

\* "Deleting a project is owner-only", at the moment it disappears and not only
\* when the role was looked up.
DeletedByOwner ==
  \A p \in DOMAIN projects \ DOMAIN projects' :
    \E r \in Active : /\ Doing(r, "write", "delete") /\ req'[r] = Done
                      /\ req[r].project = p
                      /\ req[r].user = projects[p].owner
OnlyOwnerDeletes == [][DeletedByOwner]_vars

\* Every request is answered: the slug loop ends, and transactions waiting for
\* each other's rows cannot wait for ever.
RequestsFinish ==
  \A r \in Requests : (r \in Active) ~> (req[r] = Done)

\* "Owners and admins can manage members and API keys; developers and viewers
\* have read access": who changes a membership or a key is a manager when the
\* change is made.
OnlyManagersManage ==
  [][\A r \in Active :
       req'[r] = Done /\ <<members, keys>>' # <<members, keys>>
         => \/ req[r].op = "create"
            \/ HasRole(req[r].user, req[r].project, Managers)]_vars
=============================================================================
