------------------------- MODULE ControlPlaneProofs -------------------------
(***************************************************************************)
(* What holds of projects and memberships for any number of users and       *)
(* requests.  The checks and the writes of a request are separate queries,  *)
(* so the inductive invariant says what a request still knows when it       *)
(* writes: ids are never minted twice, a row once found mutable cannot      *)
(* become an owner row, a row found in a project stays in it, a project has *)
(* the owner it was created with, and the rows a delete holds stay what     *)
(* they were.                                                               *)
(***************************************************************************)
EXTENDS ControlPlane, TLAPS

\* Ids in the tables were minted by requests that ended, each of them once.
Minted ==
  /\ \A i \in DOMAIN projects \cup DOMAIN members \cup DOMAIN keys : req[i] = Done
  /\ DOMAIN members \cap DOMAIN keys = {}

\* Foreign keys: members and keys never outlive their project.
NoOrphans ==
  /\ \A m \in DOMAIN members : members[m].project \in DOMAIN projects
  /\ \A k \in DOMAIN keys : keys[k].project \in DOMAIN projects

\* The stages of an operation.
InItsStages(r) ==
  /\ At(r, "slug") => req[r].op \in {"create", "rename"}
  /\ At(r, "existing") => req[r].op = "add"
  /\ At(r, "keys") \/ At(r, "members") => req[r].op = "delete"

\* The rows named in a call are minted; a new project is named by its request.
Names(r) ==
  /\ req[r].op = "create" => req[r].project = r
  /\ req[r].op # "create" => req[req[r].project] = Done
  /\ req[r].op \in {"update", "remove", "revokeKey"} => req[req[r].row] = Done

\* What a request found out before stays true until it writes.
Checked(r) ==
  /\ req[r].op \in {"add", "update"} /\ ~At(r, "role") => req[r].role \in Assignable
  /\ /\ req[r].op = "delete"
     /\ ~At(r, "role")
     /\ req[r].project \in DOMAIN projects
     => req[r].user = projects[req[r].project].owner
  /\ /\ req[r].op \in {"update", "remove"}
     /\ At(r, "write")
     /\ req[r].row \in DOMAIN members
     => req[r].row \in RowsOf(members, req[r].project) /\ Mutable(req[r].row)
  /\ /\ req[r].op = "revokeKey"
     /\ At(r, "write")
     /\ req[r].row \in DOMAIN keys
     => req[r].row \in RowsOf(keys, req[r].project)

\* A delete holds rows of its project.
Holds(r) ==
  req[r].rows \subseteq RowsOf(keys, req[r].project) \cup RowsOf(members, req[r].project)

Knowledge == \A r \in Active : InItsStages(r) /\ Names(r) /\ Checked(r) /\ Holds(r)

LocksDisjoint ==
  \A r, s \in Active : r # s => req[r].rows \cap req[s].rows = {}

Inv == TypeOK /\ Minted /\ NoOrphans /\ OwnerIsMember /\ Knowledge /\ LocksDisjoint

-----------------------------------------------------------------------------
(* How one request moves. *)

\* A request at one of its stages is running.
LEMMA ActiveRuns ==
  ASSUME TypeOK, NEW r \in Requests, req[r].pc \in Stages
  PROVE  r \in Active /\ req[r] \in Running /\ req[r] # Done
BY DEF TypeOK, Active, New, Done, Stages

\* An active request has the shape of a running one.
LEMMA RunningIsActive ==
  ASSUME TypeOK, NEW r \in Active
  PROVE  r \in Requests /\ req[r] \in Running
BY DEF TypeOK, Active

\* Finishing a request ends it and leaves the others alone.
LEMMA FinishMoves ==
  ASSUME TypeOK, NEW r \in Active, Finish(r)
  PROVE  /\ req' \in [Requests -> {New, Done} \cup Running]
         /\ req'[r] = Done
         /\ \A s \in Requests : s # r => req'[s] = req[s]
         /\ Active' = Active \ {r}
BY RunningIsActive DEF TypeOK, Finish, Active

\* A step that stays under way changes its stage, its suffix or its rows.
Stays(r, pc, n, rows) ==
  req' = [req EXCEPT ![r] = [@ EXCEPT !.pc = pc, !.n = n, !.rows = rows]]

\* What such a step leaves alone, and the shape of what it changes.
LEMMA StayMoves ==
  ASSUME TypeOK, NEW r \in Active, NEW pc \in Stages, NEW n \in Nat \ {0},
         NEW rows \in SUBSET Requests, Stays(r, pc, n, rows)
  PROVE  /\ req' \in [Requests -> {New, Done} \cup Running]
         /\ req'[r].pc = pc /\ req'[r].rows = rows
         /\ req'[r].op = req[r].op /\ req'[r].user = req[r].user
         /\ req'[r].project = req[r].project /\ req'[r].row = req[r].row
         /\ req'[r].role = req[r].role
         /\ \A s \in Requests : s # r => req'[s] = req[s]
         /\ Active' = Active
<1>1. r \in Requests /\ req[r] \in Running
  BY RunningIsActive
<1>2. req'[r] = [req[r] EXCEPT !.pc = pc, !.n = n, !.rows = rows]
  BY <1>1 DEF TypeOK, Stays
<1> DEFINE q == req[r]
<1>2a. q = [pc |-> q.pc, op |-> q.op, user |-> q.user, project |-> q.project,
            target |-> q.target, row |-> q.row, role |-> q.role, base |-> q.base,
            n |-> q.n, rows |-> q.rows]
  BY <1>1 DEF Running
<1>2b. req'[r] = [pc |-> pc, op |-> q.op, user |-> q.user, project |-> q.project,
            target |-> q.target, row |-> q.row, role |-> q.role, base |-> q.base,
            n |-> n, rows |-> rows]
  BY <1>2, <1>2a
<1>3. req'[r] \in Running
  BY <1>1, <1>2b DEF Running
<1>4. req'[r].pc = pc /\ pc \notin {"new", "done"}
  BY <1>1, <1>2 DEF Running, Stages
<1>5. req'[r] \notin {New, Done}
  BY <1>4 DEF New, Done
<1>6. \A s \in Requests : s # r => req'[s] = req[s]
  BY <1>1 DEF TypeOK, Stays
<1>7. req' \in [Requests -> {New, Done} \cup Running]
  BY <1>1, <1>3, <1>6 DEF TypeOK, Stays
<1>8. Active' = Active
  BY <1>1, <1>5, <1>6 DEF Active
<1> QED
  BY <1>1, <1>2, <1>3, <1>4, <1>6, <1>7, <1>8 DEF Running

\* Going to another stage is a step of that kind.
LEMMA GoStays ==
  ASSUME TypeOK, NEW r \in Active, NEW pc, Go(r, pc)
  PROVE  Stays(r, pc, req[r].n, req[r].rows)
<1>1. req[r] \in Running
  BY RunningIsActive
<1>2. [req[r] EXCEPT !.pc = pc]
        = [req[r] EXCEPT !.pc = pc, !.n = req[r].n, !.rows = req[r].rows]
  BY <1>1 DEF Running
<1>3. req' = [req EXCEPT ![r] = [req[r] EXCEPT !.pc = pc]]
  BY DEF Go
<1>4. req' = [req EXCEPT ![r] = [req[r] EXCEPT !.pc = pc, !.n = req[r].n, !.rows = req[r].rows]]
  BY <1>2, <1>3
<1> QED
  BY <1>4 DEF Stays

-----------------------------------------------------------------------------
(* Steps that only read. *)

\* A step that ends its request and writes nothing.
LEMMA FinishInd ==
  ASSUME Inv, NEW r \in Active, Finish(r), UNCHANGED tables
  PROVE  Inv'
<1>1. /\ req' \in [Requests -> {New, Done} \cup Running]
      /\ req'[r] = Done
      /\ \A s \in Requests : s # r => req'[s] = req[s]
      /\ Active' = Active \ {r}
  BY FinishMoves DEF Inv
<1>2. \A i \in Requests : req[i] = Done => req'[i] = Done
  BY <1>1
<1>3. TypeOK'
  BY <1>1 DEF Inv, TypeOK, tables
<1>4. Minted'
  BY <1>2 DEF Inv, TypeOK, Minted, tables
<1>5. NoOrphans' /\ OwnerIsMember'
  BY DEF Inv, NoOrphans, OwnerIsMember, RowsOf, tables
<1>6. Knowledge'
  <2> SUFFICES ASSUME NEW s \in Active \ {r}
               PROVE  (InItsStages(s) /\ Names(s) /\ Checked(s) /\ Holds(s))'
    BY <1>1 DEF Knowledge
  <2>1. s \in Requests /\ req[s] \in Running /\ req'[s] = req[s]
    BY <1>1, RunningIsActive DEF Inv
  <2>2. InItsStages(s) /\ Names(s) /\ Checked(s) /\ Holds(s)
    BY DEF Inv, Knowledge
  <2>3. req[s].project \in Requests /\ req[s].row \in Requests
    BY <2>1 DEF Running
  <2> QED
    BY <1>2, <2>1, <2>2, <2>3 DEF InItsStages, Names, Checked, Holds, Mutable, RowsOf, At, tables
<1>7. LocksDisjoint'
  BY <1>1 DEF Inv, LocksDisjoint, Active
<1> QED
  BY <1>3, <1>4, <1>5, <1>6, <1>7 DEF Inv

\* A step that moves its request, knowing what the new stage requires.
LEMMA StayInd ==
  ASSUME Inv, NEW r \in Active, NEW pc \in Stages, NEW n \in Nat \ {0},
         NEW rows \in SUBSET Requests, Stays(r, pc, n, rows), UNCHANGED tables,
         (InItsStages(r) /\ Checked(r) /\ Holds(r))',
         \A s \in Active : s # r => req[s].rows \cap rows = {}
  PROVE  Inv'
<1>1. /\ req' \in [Requests -> {New, Done} \cup Running]
      /\ req'[r].pc = pc /\ req'[r].rows = rows
      /\ req'[r].op = req[r].op /\ req'[r].user = req[r].user
      /\ req'[r].project = req[r].project /\ req'[r].row = req[r].row
      /\ req'[r].role = req[r].role
      /\ \A s \in Requests : s # r => req'[s] = req[s]
      /\ Active' = Active
  BY StayMoves DEF Inv
<1>2. r \in Requests /\ req[r] \in Running
  BY RunningIsActive DEF Inv
<1>3. \A i \in Requests : req[i] = Done => req'[i] = Done
  BY <1>1, <1>2 DEF Active
<1>4. TypeOK'
  BY <1>1 DEF Inv, TypeOK, tables
<1>5. Minted'
  BY <1>3 DEF Inv, TypeOK, Minted, tables
<1>6. NoOrphans' /\ OwnerIsMember'
  BY DEF Inv, NoOrphans, OwnerIsMember, RowsOf, tables
<1>7. Knowledge'
  <2> SUFFICES ASSUME NEW s \in Active
               PROVE  (InItsStages(s) /\ Names(s) /\ Checked(s) /\ Holds(s))'
    BY <1>1 DEF Knowledge
  <2>1. s \in Requests /\ req[s] \in Running
    BY RunningIsActive DEF Inv
  <2>2. InItsStages(s) /\ Names(s) /\ Checked(s) /\ Holds(s)
    BY DEF Inv, Knowledge
  <2>3. req[s].project \in Requests /\ req[s].row \in Requests
    BY <2>1 DEF Running
  <2>4. CASE s = r
    BY <1>1, <1>3, <2>2, <2>3, <2>4 DEF Names
  <2>5. CASE s # r
    <3>1. req'[s] = req[s]
      BY <1>1, <2>1, <2>5
    <3> QED
      BY <1>3, <2>1, <2>2, <2>3, <3>1
         DEF InItsStages, Names, Checked, Holds, Mutable, RowsOf, At, tables
  <2> QED
    BY <2>4, <2>5
<1>8. LocksDisjoint'
  <2> SUFFICES ASSUME NEW s \in Active, NEW t \in Active, s # t
               PROVE  req'[s].rows \cap req'[t].rows = {}
    BY <1>1 DEF LocksDisjoint
  <2>1. s \in Requests /\ t \in Requests
    BY DEF Active
  <2>2. req[s].rows \cap req[t].rows = {}
    BY DEF Inv, LocksDisjoint
  <2> QED
    BY <1>1, <2>1, <2>2
<1> QED
  BY <1>4, <1>5, <1>6, <1>7, <1>8 DEF Inv

\* A step that only goes to a stage, knowing what the stage requires.
LEMMA GoInd ==
  ASSUME Inv, NEW r \in Active, NEW pc \in Stages, Go(r, pc), UNCHANGED tables,
         (InItsStages(r) /\ Checked(r))'
  PROVE  Inv'
<1>1. Stays(r, pc, req[r].n, req[r].rows)
  BY GoStays DEF Inv
<1>2. /\ req[r] \in Running
      /\ req[r].n \in Nat \ {0}
      /\ req[r].rows \in SUBSET Requests
  BY RunningIsActive DEF Inv, Running
<1>3. req'[r].rows = req[r].rows /\ req'[r].project = req[r].project
  BY <1>1, <1>2, StayMoves DEF Inv
<1>4. Holds(r)'
  BY <1>3 DEF Inv, Knowledge, Holds, RowsOf, tables
<1>5. \A s \in Active : s # r => req[s].rows \cap req[r].rows = {}
  BY DEF Inv, LocksDisjoint
<1> QED
  BY <1>1, <1>2, <1>4, <1>5, StayInd

\* Go leaves all but the stage alone.
LEMMA GoMoves ==
  ASSUME TypeOK, NEW r \in Active, NEW pc \in Stages, Go(r, pc)
  PROVE  /\ req'[r].pc = pc
         /\ req'[r].op = req[r].op /\ req'[r].user = req[r].user
         /\ req'[r].project = req[r].project /\ req'[r].row = req[r].row
         /\ req'[r].role = req[r].role
<1>1. Stays(r, pc, req[r].n, req[r].rows)
  BY GoStays
<1>2. req[r].n \in Nat \ {0} /\ req[r].rows \in SUBSET Requests
  BY RunningIsActive DEF Running
<1> QED
  BY <1>1, <1>2, StayMoves

\* The owner role in a project is its creator's.
LEMMA OwnerRole ==
  ASSUME Inv, NEW u, NEW p, HasRole(u, p, {"OWNER"})
  PROVE  p \in DOMAIN projects /\ u = projects[p].owner
<1>1. PICK m \in DOMAIN members :
        members[m].user = u /\ members[m].project = p /\ members[m].role = "OWNER"
  BY DEF HasRole, Membership
<1>2. p \in DOMAIN projects
  BY <1>1 DEF Inv, NoOrphans
<1>3. m = p
  BY <1>1, <1>2 DEF Inv, OwnerIsMember, RowsOf
<1> QED
  BY <1>1, <1>2, <1>3 DEF Inv, OwnerIsMember

\* The role check: a delete that passes it is asked by the owner.
LEMMA RequireProjectRoleInd ==
  ASSUME Inv, NEW r \in Requests, RequireProjectRole(r)
  PROVE  Inv'
<1>1. /\ req[r].pc = "role" /\ UNCHANGED tables
      /\ r \in Active /\ req[r] \in Running /\ req[r].op \in Ops
  BY ActiveRuns DEF RequireProjectRole, At, Inv, Stages, Running
<1>2. CASE Finish(r)
  BY <1>1, <1>2, FinishInd
<1>3. CASE /\ Go(r, AfterRole(req[r].op))
           /\ HasRole(req[r].user, req[r].project, AllowedRoles(req[r].op))
           /\ ~RefusesRole(r)
  <2> DEFINE pc == AfterRole(req[r].op)
  <2>1. /\ pc \in Stages \ {"role"}
        /\ pc = "slug" => req[r].op \in {"create", "rename"}
        /\ pc = "existing" => req[r].op = "add"
        /\ pc \in {"keys", "members"} => req[r].op = "delete"
        /\ pc = "write" => req[r].op \notin {"update", "remove", "revokeKey"}
    BY <1>1 DEF AfterRole, Ops, Stages
  <2> HIDE DEF pc
  <2>2. Go(r, pc)
    BY <1>3 DEF pc
  <2>3. /\ req'[r].pc = pc
        /\ req'[r].op = req[r].op /\ req'[r].user = req[r].user
        /\ req'[r].project = req[r].project /\ req'[r].row = req[r].row
        /\ req'[r].role = req[r].role
    BY <1>1, <2>1, <2>2, GoMoves DEF Inv
  <2>4. InItsStages(r)'
    BY <2>1, <2>3 DEF InItsStages, At
  <2>5. req[r].op \in {"add", "update"} => req[r].role \in Assignable
    BY <1>3 DEF RefusesRole
  <2>6. req[r].op = "delete" => req[r].user = projects[req[r].project].owner
    BY <1>3, OwnerRole DEF AllowedRoles
  <2>7. Checked(r)'
    BY <1>1, <2>1, <2>3, <2>5, <2>6 DEF Checked, At, tables
  <2> QED
    BY <1>1, <2>1, <2>2, <2>4, <2>7, GoInd
<1> QED
  BY <1>2, <1>3 DEF RequireProjectRole

\* A round of the slug loop touches no table.
LEMMA GenerateUniqueSlugInd ==
  ASSUME Inv, NEW r \in Requests, GenerateUniqueSlug(r)
  PROVE  Inv'
<1>1. /\ req[r].pc = "slug" /\ UNCHANGED tables
      /\ r \in Active /\ req[r] \in Running /\ req[r].n \in Nat \ {0}
      /\ req[r].rows \in SUBSET Requests
  BY ActiveRuns DEF GenerateUniqueSlug, At, Inv, Stages, Running
<1>2. req[r].op \in {"create", "rename"}
  BY <1>1 DEF Inv, Knowledge, InItsStages, At
<1>3. CASE Go(r, "write")
  <2>1. "write" \in Stages
    BY DEF Stages
  <2>2. req'[r].pc = "write" /\ req'[r].op = req[r].op
    BY <1>1, <1>3, <2>1, GoMoves DEF Inv
  <2>3. InItsStages(r)' /\ Checked(r)'
    BY <1>2, <2>2 DEF InItsStages, Checked, At
  <2> QED
    BY <1>1, <1>3, <2>1, <2>3, GoInd
<1>4. CASE req' = [req EXCEPT ![r].n = NextTry(@)]
  <2> DEFINE n == req[r].n + 1
  <2>1. n \in Nat \ {0} /\ "slug" \in Stages
    BY <1>1 DEF Stages
  <2>2. req' = [req EXCEPT ![r] = [req[r] EXCEPT !.n = n]]
    BY <1>4 DEF NextTry
  <2>3. [req[r] EXCEPT !.n = n]
          = [req[r] EXCEPT !.pc = "slug", !.n = n, !.rows = req[r].rows]
    BY <1>1 DEF Running
  <2>4. Stays(r, "slug", n, req[r].rows)
    BY <2>2, <2>3 DEF Stays
  <2> HIDE DEF n
  <2>5. /\ req'[r].pc = "slug" /\ req'[r].op = req[r].op
        /\ req'[r].rows = req[r].rows /\ req'[r].project = req[r].project
    BY <1>1, <2>1, <2>4, StayMoves DEF Inv
  <2>6. InItsStages(r)' /\ Checked(r)'
    BY <1>2, <2>5 DEF InItsStages, Checked, At
  <2>7. Holds(r)'
    BY <1>1, <2>5 DEF Inv, Knowledge, Holds, RowsOf, tables
  <2>8. \A s \in Active : s # r => req[s].rows \cap req[r].rows = {}
    BY <1>1 DEF Inv, LocksDisjoint
  <2> QED
    BY <1>1, <2>1, <2>4, <2>6, <2>7, <2>8, StayInd
<1> QED
  BY <1>3, <1>4 DEF GenerateUniqueSlug

\* The look-up of addMember reads only.
LEMMA FindExistingMemberInd ==
  ASSUME Inv, NEW r \in Requests, FindExistingMember(r)
  PROVE  Inv'
<1>1. /\ req[r].pc = "existing" /\ UNCHANGED tables /\ r \in Active
  BY ActiveRuns DEF FindExistingMember, At, Inv, Stages
<1>2. /\ req[r].op = "add"
      /\ req[r].role \in Assignable
  BY <1>1 DEF Inv, Knowledge, InItsStages, Checked, At
<1>3. CASE Go(r, "write")
  <2>1. "write" \in Stages
    BY DEF Stages
  <2>2. req'[r].pc = "write" /\ req'[r].op = req[r].op /\ req'[r].role = req[r].role
    BY <1>1, <1>3, <2>1, GoMoves DEF Inv
  <2>3. InItsStages(r)' /\ Checked(r)'
    BY <1>2, <2>2 DEF InItsStages, Checked, At
  <2> QED
    BY <1>1, <1>3, <2>1, <2>3, GoInd
<1>4. CASE Finish(r)
  BY <1>1, <1>4, FinishInd
<1> QED
  BY <1>3, <1>4 DEF FindExistingMember

\* The look-up of updateMember and removeMember finds a row that is no owner row.
LEMMA FindProjectMemberInd ==
  ASSUME Inv, NEW r \in Requests, FindProjectMember(r)
  PROVE  Inv'
<1>1. /\ req[r].pc = "find" /\ UNCHANGED tables /\ r \in Active
      /\ req[r].op \in {"update", "remove"}
  BY ActiveRuns DEF FindProjectMember, At, Inv, Stages
<1>2. req[r].op = "update" => req[r].role \in Assignable
  BY <1>1 DEF Inv, Knowledge, Checked, At
<1>3. CASE Go(r, "write") /\ \E m \in Found(members, r) : Mutable(m)
  <2>1. "write" \in Stages
    BY DEF Stages
  <2>2. /\ req'[r].pc = "write" /\ req'[r].op = req[r].op
        /\ req'[r].role = req[r].role /\ req'[r].row = req[r].row
        /\ req'[r].project = req[r].project
    BY <1>1, <1>3, <2>1, GoMoves DEF Inv
  <2>3. req[r].row \in RowsOf(members, req[r].project) /\ Mutable(req[r].row)
    BY <1>3 DEF Found
  <2>4. InItsStages(r)' /\ Checked(r)'
    BY <1>1, <1>2, <2>2, <2>3 DEF InItsStages, Checked, At, Mutable, RowsOf, tables
  <2> QED
    BY <1>1, <1>3, <2>1, <2>4, GoInd
<1>4. CASE Finish(r)
  BY <1>1, <1>4, FinishInd
<1> QED
  BY <1>3, <1>4 DEF FindProjectMember

\* The look-up of revokeApiKey finds a row of the project.
LEMMA FindApiKeyInd ==
  ASSUME Inv, NEW r \in Requests, FindApiKey(r)
  PROVE  Inv'
<1>1. /\ req[r].pc = "find" /\ UNCHANGED tables /\ r \in Active
      /\ req[r].op = "revokeKey"
  BY ActiveRuns DEF FindApiKey, Doing, At, Inv, Stages
<1>2. CASE Go(r, "write") /\ \E k \in Found(keys, r) : ~keys[k].revoked
  <2>1. "write" \in Stages
    BY DEF Stages
  <2>2. /\ req'[r].pc = "write" /\ req'[r].op = req[r].op
        /\ req'[r].row = req[r].row /\ req'[r].project = req[r].project
    BY <1>1, <1>2, <2>1, GoMoves DEF Inv
  <2>3. InItsStages(r)' /\ Checked(r)'
    BY <1>1, <1>2, <2>2 DEF InItsStages, Checked, Found, At, RowsOf, tables
  <2> QED
    BY <1>1, <1>2, <2>1, <2>3, GoInd
<1>3. CASE Finish(r)
  BY <1>1, <1>3, FinishInd
<1> QED
  BY <1>2, <1>3 DEF FindApiKey

\* The rows a delete takes are free, so locks stay disjoint.
LEMMA TakeRowsInd ==
  ASSUME Inv, NEW r \in Active, NEW pc \in {"members", "write"},
         NEW rows \in SUBSET Requests, ~At(r, "role"), req[r].op = "delete",
         req' = [req EXCEPT ![r].pc = pc, ![r].rows = rows], UNCHANGED tables,
         rows \subseteq RowsOf(keys, req[r].project) \cup RowsOf(members, req[r].project),
         \A i \in rows : i \in req[r].rows \/ ~Locked(i)
  PROVE  Inv'
<1>1. req[r] \in Running /\ req[r].n \in Nat \ {0} /\ pc \in Stages
  BY RunningIsActive DEF Inv, Running, Stages
<1>2. [req[r] EXCEPT !.pc = pc, !.rows = rows]
        = [req[r] EXCEPT !.pc = pc, !.n = req[r].n, !.rows = rows]
  BY <1>1 DEF Running
<1>3. Stays(r, pc, req[r].n, rows)
  BY <1>2 DEF Stays
<1>4. /\ req'[r].pc = pc /\ req'[r].rows = rows
      /\ req'[r].op = req[r].op /\ req'[r].user = req[r].user
      /\ req'[r].project = req[r].project
  BY <1>1, <1>3, StayMoves DEF Inv
<1>5. req[r].project \in DOMAIN projects => req[r].user = projects[req[r].project].owner
  BY DEF Inv, Knowledge, Checked
<1>6. InItsStages(r)' /\ Checked(r)' /\ Holds(r)'
  BY <1>4, <1>5 DEF InItsStages, Checked, Holds, At, RowsOf, tables
<1>7. \A s \in Active : s # r => req[s].rows \cap rows = {}
  BY DEF Inv, LocksDisjoint, Locked
<1> QED
  BY <1>1, <1>3, <1>6, <1>7, StayInd

\* deleteProject takes the keys of its project.
LEMMA DeleteKeysInd ==
  ASSUME Inv, NEW r \in Requests, DeleteKeys(r)
  PROVE  Inv'
<1>1. req[r].pc = "keys" /\ UNCHANGED tables /\ r \in Active
  BY ActiveRuns DEF DeleteKeys, At, Inv, Stages
<1>2. req[r].op = "delete"
  BY <1>1 DEF Inv, Knowledge, InItsStages, At
<1> DEFINE rows == RowsOf(keys, req[r].project)
<1>3. rows \in SUBSET Requests
  BY DEF Inv, TypeOK, RowsOf
<1>4. /\ req' = [req EXCEPT ![r].pc = "members", ![r].rows = rows]
      /\ \A i \in rows : ~Locked(i)
  BY DEF DeleteKeys
<1> HIDE DEF rows
<1> QED
  BY <1>1, <1>2, <1>3, <1>4, TakeRowsInd DEF At, rows

\* deleteProject takes the members of its project too.
LEMMA DeleteMembersInd ==
  ASSUME Inv, NEW r \in Requests, DeleteMembers(r)
  PROVE  Inv'
<1>1. /\ req[r].pc = "members" /\ UNCHANGED tables /\ r \in Active
      /\ req[r] \in Running /\ req[r].rows \subseteq Requests
  BY ActiveRuns DEF DeleteMembers, At, Inv, Stages, Running
<1>2. req[r].op = "delete"
  BY <1>1 DEF Inv, Knowledge, InItsStages, At
<1> DEFINE rows == req[r].rows \cup RowsOf(members, req[r].project)
<1>3. rows \in SUBSET Requests
  BY <1>1 DEF Inv, TypeOK, RowsOf
<1>4. /\ req' = [req EXCEPT ![r].pc = "write", ![r].rows = rows]
      /\ \A i \in rows : i \in req[r].rows \/ ~Locked(i)
  BY DEF DeleteMembers
<1>5. rows \subseteq RowsOf(keys, req[r].project) \cup RowsOf(members, req[r].project)
  BY <1>1 DEF Inv, Knowledge, Holds
<1> HIDE DEF rows
<1> QED
  BY <1>1, <1>2, <1>3, <1>4, <1>5, TakeRowsInd DEF At

-----------------------------------------------------------------------------
(* A new request. *)

IsCall(r, call) ==
  /\ call \in Running
  /\ call.rows = {}
  /\ call.pc = "role" \/ (call.pc = "slug" /\ call.op = "create")
  /\ call.op = "create" => call.project = r
  /\ call.op # "create" => call.project \in DOMAIN projects
  /\ call.op \in {"update", "remove"} => call.row \in DOMAIN members
  /\ call.op = "revokeKey" => call.row \in DOMAIN keys

\* What a client may call is a well-formed running request.
LEMMA CallTypes ==
  ASSUME TypeOK, NEW r \in Requests, NEW u \in Users, Called(r, Blank(r, u))
  PROVE  \E call : IsCall(r, call) /\ Receive(r, call)
<1> DEFINE blank == Blank(r, u)
<1>1. (CHOOSE b \in Bases : TRUE) \in Bases
  BY ControlPlaneAssumption
<1>2. /\ blank \in Running /\ blank.rows = {} /\ blank.pc = "role"
      /\ blank.op = "delete" /\ blank.project = r
  BY <1>1 DEF Blank, FirstTry, Running, Stages, Ops, Roles
<1>3. /\ DOMAIN projects \subseteq Requests /\ DOMAIN members \subseteq Requests
      /\ DOMAIN keys \subseteq Requests /\ AskedRoles \subseteq Roles
  BY ControlPlaneAssumption DEF TypeOK
<1>4. Called(r, blank)
  OBVIOUS
<1> HIDE DEF blank
<1>5. \A b \in Bases :
        IsCall(r, [blank EXCEPT !.pc = "slug", !.op = "create", !.base = b])
  BY <1>2 DEF IsCall, Running, Stages, Ops
<1>6. ASSUME NEW p \in DOMAIN projects
      PROVE  /\ IsCall(r, [blank EXCEPT !.op = "delete", !.project = p])
             /\ IsCall(r, [blank EXCEPT !.op = "createKey", !.project = p])
  BY <1>2, <1>3 DEF IsCall, Running, Ops
<1>7. ASSUME NEW p \in DOMAIN projects, NEW b \in Bases
      PROVE  IsCall(r, [blank EXCEPT !.op = "rename", !.project = p, !.base = b])
  BY <1>2, <1>3 DEF IsCall, Running, Ops
<1>8. ASSUME NEW p \in DOMAIN projects, NEW t \in Users, NEW role \in AskedRoles
      PROVE  IsCall(r, [blank EXCEPT !.op = "add", !.project = p,
                                  !.target = t, !.role = role])
  BY <1>2, <1>3 DEF IsCall, Running, Ops
<1>9. ASSUME NEW p \in DOMAIN projects, NEW m \in DOMAIN members, NEW role \in AskedRoles
      PROVE  IsCall(r, [blank EXCEPT !.op = "update", !.project = p,
                                  !.row = m, !.role = role])
  BY <1>2, <1>3 DEF IsCall, Running, Ops
<1>10. ASSUME NEW p \in DOMAIN projects, NEW m \in DOMAIN members
       PROVE  IsCall(r, [blank EXCEPT !.op = "remove", !.project = p, !.row = m])
  BY <1>2, <1>3 DEF IsCall, Running, Ops
<1>11. ASSUME NEW p \in DOMAIN projects, NEW k \in DOMAIN keys
       PROVE  IsCall(r, [blank EXCEPT !.op = "revokeKey", !.project = p, !.row = k])
  BY <1>2, <1>3 DEF IsCall, Running, Ops
<1> QED
  BY <1>4, <1>5, <1>6, <1>7, <1>8, <1>9, <1>10, <1>11, Zenon DEF Called

\* A request that arrives knows nothing yet.
LEMMA BeginInd ==
  ASSUME Inv, NEW r \in Requests, Begin(r)
  PROVE  Inv'
<1>1. PICK u \in Users : Called(r, Blank(r, u))
  BY DEF Begin
<1>2. PICK call : IsCall(r, call) /\ Receive(r, call)
  BY <1>1, CallTypes DEF Inv
<1>3. IsCall(r, call)
  BY <1>2
<1>4. req[r] = New /\ UNCHANGED tables /\ r \notin Active
  BY DEF Begin, Active
<1>5. call \notin {New, Done}
  BY <1>3 DEF IsCall, New, Done
<1>6. /\ req' \in [Requests -> {New, Done} \cup Running]
      /\ req'[r] = call
      /\ \A s \in Requests : s # r => req'[s] = req[s]
  BY <1>2, <1>3 DEF Inv, TypeOK, IsCall, Receive
<1>7. Active' = Active \cup {r}
  BY <1>5, <1>6 DEF Active
<1>8. \A i \in Requests : req[i] = Done => req'[i] = Done
  BY <1>4, <1>6 DEF New, Done
<1>9. TypeOK' /\ Minted' /\ NoOrphans' /\ OwnerIsMember'
  BY <1>4, <1>6, <1>8 DEF Inv, TypeOK, Minted, NoOrphans, OwnerIsMember, RowsOf, tables
<1>10. Knowledge'
  <2> SUFFICES ASSUME NEW s \in Active \cup {r}
               PROVE  (InItsStages(s) /\ Names(s) /\ Checked(s) /\ Holds(s))'
    BY <1>7 DEF Knowledge
  <2>1. CASE s = r
    <3>1. /\ call.op # "create" => req'[call.project] = Done
          /\ call.op \in {"update", "remove", "revokeKey"} => req'[call.row] = Done
      BY <1>3, <1>8 DEF IsCall, Inv, Minted, TypeOK
    <3> QED
      BY <1>3, <1>6, <2>1, <3>1 DEF IsCall, InItsStages, Names, Checked, Holds, At
  <2>2. CASE s # r
    <3>1. s \in Active /\ s \in Requests /\ req[s] \in Running /\ req'[s] = req[s]
      BY <1>6, <2>2, RunningIsActive DEF Inv, Active
    <3>2. InItsStages(s) /\ Names(s) /\ Checked(s) /\ Holds(s)
      BY <3>1 DEF Inv, Knowledge
    <3>3. req[s].project \in Requests /\ req[s].row \in Requests
      BY <3>1 DEF Running
    <3> QED
      BY <1>4, <1>8, <3>1, <3>2, <3>3
         DEF InItsStages, Names, Checked, Holds, Mutable, RowsOf, At, tables
  <2> QED
    BY <2>1, <2>2
<1>11. LocksDisjoint'
  <2> SUFFICES ASSUME NEW s \in Active \cup {r}, NEW t \in Active \cup {r}, s # t
               PROVE  req'[s].rows \cap req'[t].rows = {}
    BY <1>7 DEF LocksDisjoint
  <2>1. req'[r].rows = {}
    BY <1>3, <1>6 DEF IsCall
  <2>2. CASE s # r /\ t # r
    BY <1>6, <2>2 DEF Inv, LocksDisjoint, Active
  <2> QED
    BY <2>1, <2>2
<1> QED
  BY <1>9, <1>10, <1>11 DEF Inv

-----------------------------------------------------------------------------
(* Steps that write and end their request. *)

\* What the tables must keep for the knowledge of the other requests: owners, the
\* projects of rows, mutable rows, and the rows other requests hold.
Harmless(r) ==
  /\ \A p \in DOMAIN projects' : p # r =>
       p \in DOMAIN projects /\ projects'[p].owner = projects[p].owner
  /\ \A m \in DOMAIN members' : m # r =>
       /\ m \in DOMAIN members /\ members'[m].project = members[m].project
       /\ Mutable(m) => Mutable(m)'
  /\ \A k \in DOMAIN keys' : k # r =>
       k \in DOMAIN keys /\ keys'[k].project = keys[k].project
  /\ \A s \in Active \ {r} : \A i \in req[s].rows :
       /\ i \in DOMAIN keys =>
            i \in DOMAIN keys' /\ keys'[i].project = keys[i].project
       /\ i \in DOMAIN members =>
            i \in DOMAIN members' /\ members'[i].project = members[i].project

\* What the other requests know survives a write that spares their rows.
LEMMA OthersKnow ==
  ASSUME Inv, NEW r \in Active, Finish(r), Harmless(r)
  PROVE  Knowledge' /\ LocksDisjoint'
<1>1. /\ req'[r] = Done
      /\ \A s \in Requests : s # r => req'[s] = req[s]
      /\ Active' = Active \ {r}
  BY FinishMoves DEF Inv
<1>2. r \in Requests /\ req[r] # Done
  BY DEF Active
<1>3. ASSUME NEW s \in Active \ {r}
      PROVE  (InItsStages(s) /\ Names(s) /\ Checked(s) /\ Holds(s))'
  <2>1. s \in Requests /\ req[s] \in Running /\ req'[s] = req[s]
    BY <1>1, RunningIsActive DEF Inv
  <2>2. InItsStages(s) /\ Names(s) /\ Checked(s) /\ Holds(s)
    BY DEF Inv, Knowledge
  <2>3. req[s].project \in Requests /\ req[s].row \in Requests
    BY <2>1 DEF Running
  <2>4. InItsStages(s)' /\ Names(s)'
    BY <1>1, <2>1, <2>2, <2>3 DEF InItsStages, Names, At
  <2>5. /\ req[s].op = "delete" => req[s].project # r
        /\ req[s].op \in {"update", "remove", "revokeKey"} => req[s].row # r
    BY <1>2, <2>2 DEF Names
  <2>6. Checked(s)'
    <3>1. ASSUME req[s].op = "delete", ~At(s, "role"), req[s].project \in DOMAIN projects'
          PROVE  req[s].user = projects'[req[s].project].owner
      BY <2>2, <2>5, <3>1 DEF Checked, Harmless
    <3>2. ASSUME req[s].op \in {"update", "remove"}, At(s, "write"),
                 req[s].row \in DOMAIN members'
          PROVE  (req[s].row \in RowsOf(members, req[s].project) /\ Mutable(req[s].row))'
      <4>1. /\ req[s].row \in DOMAIN members
            /\ members'[req[s].row].project = members[req[s].row].project
        BY <2>5, <3>2 DEF Harmless
      <4>2. req[s].row \in RowsOf(members, req[s].project) /\ Mutable(req[s].row)
        BY <2>2, <3>2, <4>1 DEF Checked
      <4>3. members'[req[s].row].role # "OWNER"
        BY <2>5, <3>2, <4>2 DEF Harmless, Mutable
      <4> QED
        BY <2>1, <3>2, <4>1, <4>2, <4>3 DEF Mutable, RowsOf
    <3>3. ASSUME req[s].op = "revokeKey", At(s, "write"), req[s].row \in DOMAIN keys'
          PROVE  (req[s].row \in RowsOf(keys, req[s].project))'
      <4>1. /\ req[s].row \in DOMAIN keys
            /\ keys'[req[s].row].project = keys[req[s].row].project
        BY <2>5, <3>3 DEF Harmless
      <4>2. req[s].row \in RowsOf(keys, req[s].project)
        BY <2>2, <3>3, <4>1 DEF Checked
      <4> QED
        BY <2>1, <3>3, <4>1, <4>2 DEF RowsOf
    <3> QED
      BY <2>1, <2>2, <3>1, <3>2, <3>3 DEF Checked, At
  <2>7. Holds(s)'
    BY <2>1, <2>2 DEF Holds, RowsOf, Harmless
  <2> QED
    BY <2>2, <2>4, <2>6, <2>7
<1>4. Knowledge'
  BY <1>1, <1>3 DEF Knowledge
<1>5. LocksDisjoint'
  BY <1>1 DEF Inv, LocksDisjoint, Active
<1> QED
  BY <1>4, <1>5

\* The ids of a running request are not in the tables yet.
LEMMA Fresh ==
  ASSUME Inv, NEW r \in Active
  PROVE  r \notin DOMAIN projects \cup DOMAIN members \cup DOMAIN keys
BY DEF Inv, Minted, Active

\* createProject adds a project together with its owner row.
LEMMA CreateProjectInd ==
  ASSUME Inv, NEW r \in Requests, CreateProject(r)
  PROVE  Inv'
<1>1. req[r].pc = "write" /\ req[r].op = "create" /\ Finish(r)
  BY DEF CreateProject, Doing, At
<1>2. /\ r \in Active /\ req[r] \in Running
      /\ req[r].user \in Users /\ req[r].base \in Bases /\ req[r].n \in Nat \ {0}
  BY <1>1, ActiveRuns DEF Inv, Stages, Running
<1>3. CASE UNCHANGED tables
  BY <1>1, <1>2, <1>3, FinishInd
<1>4. CASE ~UNCHANGED tables
  <2> DEFINE row == [user |-> req[r].user, project |-> r, role |-> "OWNER"]
             prow == [owner |-> req[r].user, base |-> req[r].base, n |-> req[r].n]
  <2>1. /\ projects' = With(projects, r, prow)
        /\ members' = With(members, r, row)
        /\ keys' = keys
    BY <1>4 DEF CreateProject, InsertOwner, OwnerRow
  <2>2. prow \in Projects /\ prow.owner = req[r].user
    BY <1>2 DEF Projects
  <2>3. /\ row \in Members /\ row.user = req[r].user /\ row.project = r
        /\ row.role = "OWNER"
    BY <1>2 DEF Members, Roles
  <2> HIDE DEF row, prow
  <2>4. /\ DOMAIN projects' = DOMAIN projects \cup {r} /\ projects'[r] = prow
        /\ DOMAIN members' = DOMAIN members \cup {r} /\ members'[r] = row
        /\ \A i \in DOMAIN projects : i # r => projects'[i] = projects[i]
        /\ \A i \in DOMAIN members : i # r => members'[i] = members[i]
    BY <2>1 DEF With
  <2>5. r \notin DOMAIN projects \cup DOMAIN members \cup DOMAIN keys
    BY <1>2, Fresh
  <2>6. /\ req' \in [Requests -> {New, Done} \cup Running] /\ req'[r] = Done
        /\ \A s \in Requests : s # r => req'[s] = req[s]
    BY <1>1, <1>2, FinishMoves DEF Inv
  <2>7. TypeOK'
    BY <2>1, <2>2, <2>3, <2>4, <2>6 DEF Inv, TypeOK
  <2>8. Minted'
    BY <2>1, <2>4, <2>5, <2>6 DEF Inv, TypeOK, Minted
  <2>9. NoOrphans'
    BY <2>1, <2>3, <2>4, <2>5 DEF Inv, NoOrphans
  <2>10. OwnerIsMember'
    <3> SUFFICES ASSUME NEW p \in DOMAIN projects'
                 PROVE  /\ p \in DOMAIN members'
                        /\ {m \in RowsOf(members', p) : members'[m].role = "OWNER"} = {p}
                        /\ members'[p].user = projects'[p].owner
      BY DEF OwnerIsMember, RowsOf
    <3>1. CASE p = r
      <4>1. \A m \in DOMAIN members : members[m].project # r
        BY <2>5 DEF Inv, NoOrphans
      <4> QED
        BY <2>2, <2>3, <2>4, <2>5, <3>1, <4>1 DEF RowsOf
    <3>2. CASE p # r
      <4>1. p \in DOMAIN projects
        BY <2>4, <3>2
      <4> QED
        BY <2>3, <2>4, <2>5, <3>2, <4>1 DEF Inv, OwnerIsMember, RowsOf
    <3> QED
      BY <3>1, <3>2
  <2>11. Harmless(r)
    BY <2>1, <2>4, <2>5 DEF Harmless, Mutable
  <2> QED
    BY <1>1, <1>2, <2>7, <2>8, <2>9, <2>10, <2>11, OthersKnow DEF Inv
<1> QED
  BY <1>3, <1>4

\* updateProject moves neither owner nor id.
LEMMA UpdateProjectInd ==
  ASSUME Inv, NEW r \in Requests, UpdateProject(r)
  PROVE  Inv'
<1>1. /\ req[r].pc = "write" /\ Finish(r) /\ UNCHANGED <<members, keys>>
  BY DEF UpdateProject, Doing, At
<1>2. /\ r \in Active /\ req[r] \in Running
      /\ req[r].base \in Bases /\ req[r].n \in Nat \ {0}
  BY <1>1, ActiveRuns DEF Inv, Stages, Running
<1>3. CASE UNCHANGED projects
  BY <1>1, <1>2, <1>3, FinishInd DEF tables
<1>4. CASE ~UNCHANGED projects
  <2>1. projects' = [projects EXCEPT ![req[r].project].base = req[r].base,
                                     ![req[r].project].n = req[r].n]
    BY <1>4 DEF UpdateProject
  <2>2. /\ DOMAIN projects' = DOMAIN projects
        /\ \A p \in DOMAIN projects :
             projects'[p] \in Projects /\ projects'[p].owner = projects[p].owner
    BY <1>2, <2>1 DEF Inv, TypeOK, Projects
  <2>3. /\ req' \in [Requests -> {New, Done} \cup Running] /\ req'[r] = Done
        /\ \A s \in Requests : s # r => req'[s] = req[s]
    BY <1>1, <1>2, FinishMoves DEF Inv
  <2>4. TypeOK' /\ Minted' /\ NoOrphans' /\ OwnerIsMember'
    BY <1>1, <2>2, <2>3 DEF Inv, TypeOK, Minted, NoOrphans, OwnerIsMember, RowsOf
  <2>5. Harmless(r)
    BY <1>1, <2>2 DEF Harmless, Mutable
  <2> QED
    BY <1>1, <1>2, <2>4, <2>5, OthersKnow DEF Inv
<1> QED
  BY <1>3, <1>4

\* The delete takes the rows of its project, all of them and no others.
LEMMA DeleteProjectInd ==
  ASSUME Inv, NEW r \in Requests, DeleteProject(r)
  PROVE  Inv'
<1>1. req[r].pc = "write" /\ req[r].op = "delete" /\ Finish(r)
  BY DEF DeleteProject, Doing, At
<1>2. /\ r \in Active /\ req[r] \in Running
  BY <1>1, ActiveRuns DEF Inv, Stages
<1>3. CASE UNCHANGED tables
  BY <1>1, <1>2, <1>3, FinishInd
<1>4. CASE ~UNCHANGED tables
  <2> DEFINE p == req[r].project
             rows == req[r].rows
  <2>1. /\ p \in DOMAIN projects /\ Unreferenced(r)
        /\ projects' = Without(projects, {p})
        /\ members' = Without(members, rows)
        /\ keys' = Without(keys, rows)
    BY <1>4 DEF DeleteProject
  <2>2. rows = RowsOf(keys, p) \cup RowsOf(members, p)
    BY <1>2, <2>1 DEF Inv, Knowledge, Holds, Unreferenced
  <2> HIDE DEF p, rows
  <2>3. /\ DOMAIN projects' = DOMAIN projects \ {p}
        /\ \A q \in DOMAIN projects \ {p} : projects'[q] = projects[q]
        /\ DOMAIN members' = DOMAIN members \ rows
        /\ \A m \in DOMAIN members \ rows : members'[m] = members[m]
        /\ DOMAIN keys' = DOMAIN keys \ rows
        /\ \A k \in DOMAIN keys \ rows : keys'[k] = keys[k]
    BY <2>1 DEF Without
  <2>4. /\ \A m \in DOMAIN members : m \in rows <=> members[m].project = p
        /\ \A k \in DOMAIN keys : k \in rows <=> keys[k].project = p
    BY <2>2 DEF Inv, Minted, RowsOf
  <2>5. /\ req' \in [Requests -> {New, Done} \cup Running] /\ req'[r] = Done
        /\ \A s \in Requests : s # r => req'[s] = req[s]
    BY <1>1, <1>2, FinishMoves DEF Inv
  <2>6. TypeOK' /\ Minted' /\ NoOrphans'
    BY <2>3, <2>4, <2>5 DEF Inv, TypeOK, Minted, NoOrphans
  <2>7. OwnerIsMember'
    BY <2>3, <2>4 DEF Inv, OwnerIsMember, RowsOf
  <2>8. \A s \in Active \ {r} : req[s].rows \cap rows = {}
    BY <1>2 DEF Inv, LocksDisjoint, rows
  <2>9. Harmless(r)
    BY <2>3, <2>8 DEF Harmless, Mutable
  <2> QED
    BY <1>1, <1>2, <2>6, <2>7, <2>9, OthersKnow DEF Inv
<1> QED
  BY <1>3, <1>4

\* addMember inserts a row that is no owner row, for a project that is there.
LEMMA AddMemberInd ==
  ASSUME Inv, NEW r \in Requests, AddMember(r)
  PROVE  Inv'
<1>1. /\ req[r].pc = "write" /\ req[r].op = "add" /\ Finish(r)
      /\ UNCHANGED <<projects, keys>>
  BY DEF AddMember, Doing, At
<1>2. /\ r \in Active /\ req[r] \in Running
      /\ req[r].target \in Users /\ req[r].project \in Requests /\ req[r].role \in Roles
  BY <1>1, ActiveRuns DEF Inv, Stages, Running
<1>3. CASE UNCHANGED members
  BY <1>1, <1>2, <1>3, FinishInd DEF tables
<1>4. CASE ~UNCHANGED members
  <2> DEFINE row == [user |-> req[r].target, project |-> req[r].project,
                     role |-> req[r].role]
  <2>1. members' = With(members, r, row) /\ req[r].project \in DOMAIN projects
    BY <1>4 DEF AddMember
  <2>2. req[r].role \in Assignable
    BY <1>1, <1>2 DEF Inv, Knowledge, Checked, At
  <2>3. /\ row \in Members /\ row.project \in DOMAIN projects /\ row.role # "OWNER"
    BY <1>2, <2>1, <2>2 DEF Members, Assignable
  <2> HIDE DEF row
  <2>4. /\ DOMAIN members' = DOMAIN members \cup {r} /\ members'[r] = row
        /\ \A i \in DOMAIN members : i # r => members'[i] = members[i]
    BY <2>1 DEF With
  <2>5. r \notin DOMAIN projects \cup DOMAIN members \cup DOMAIN keys
    BY <1>2, Fresh
  <2>6. /\ req' \in [Requests -> {New, Done} \cup Running] /\ req'[r] = Done
        /\ \A s \in Requests : s # r => req'[s] = req[s]
    BY <1>1, <1>2, FinishMoves DEF Inv
  <2>7. TypeOK' /\ Minted' /\ NoOrphans'
    BY <1>1, <2>3, <2>4, <2>5, <2>6 DEF Inv, TypeOK, Minted, NoOrphans
  <2>8. OwnerIsMember'
    BY <1>1, <2>3, <2>4, <2>5 DEF Inv, OwnerIsMember, RowsOf
  <2>9. Harmless(r)
    BY <1>1, <2>4, <2>5 DEF Harmless, Mutable
  <2> QED
    BY <1>1, <1>2, <2>7, <2>8, <2>9, OthersKnow DEF Inv
<1> QED
  BY <1>3, <1>4

\* The row was found mutable a query ago and is no owner row now.
LEMMA UpdateMemberInd ==
  ASSUME Inv, NEW r \in Requests, UpdateMember(r)
  PROVE  Inv'
<1>1. /\ req[r].pc = "write" /\ req[r].op = "update" /\ Finish(r)
      /\ UNCHANGED <<projects, keys>>
  BY DEF UpdateMember, Doing, At
<1>2. /\ r \in Active /\ req[r] \in Running /\ req[r].role \in Roles
  BY <1>1, ActiveRuns DEF Inv, Stages, Running
<1>3. CASE req[r].row \notin DOMAIN members
  BY <1>1, <1>2, <1>3, FinishInd DEF tables, UpdateMember
<1>4. CASE req[r].row \in DOMAIN members
  <2> DEFINE m == req[r].row
  <2>1. members' = [members EXCEPT ![m].role = req[r].role]
    BY <1>4 DEF UpdateMember
  <2>2. req[r].role \in Assignable /\ members[m].role # "OWNER"
    BY <1>1, <1>2, <1>4 DEF Inv, Knowledge, Checked, At, Mutable
  <2>3. req[r].role # "OWNER"
    BY <2>2 DEF Assignable
  <2> HIDE DEF m
  <2>4. /\ DOMAIN members' = DOMAIN members
        /\ \A i \in DOMAIN members :
             /\ members'[i] \in Members
             /\ members'[i].user = members[i].user
             /\ members'[i].project = members[i].project
             /\ members'[i].role = "OWNER" <=> members[i].role = "OWNER"
    BY <1>2, <2>1, <2>2, <2>3 DEF Inv, TypeOK, Members
  <2>5. /\ req' \in [Requests -> {New, Done} \cup Running] /\ req'[r] = Done
        /\ \A s \in Requests : s # r => req'[s] = req[s]
    BY <1>1, <1>2, FinishMoves DEF Inv
  <2>6. TypeOK' /\ Minted' /\ NoOrphans' /\ OwnerIsMember'
    BY <1>1, <2>4, <2>5 DEF Inv, TypeOK, Minted, NoOrphans, OwnerIsMember, RowsOf
  <2>7. Harmless(r)
    BY <1>1, <2>4 DEF Harmless, Mutable
  <2> QED
    BY <1>1, <1>2, <2>6, <2>7, OthersKnow DEF Inv
<1> QED
  BY <1>3, <1>4

\* removeMember takes away a row that is no owner row.
LEMMA RemoveMemberInd ==
  ASSUME Inv, NEW r \in Requests, RemoveMember(r)
  PROVE  Inv'
<1>1. /\ req[r].pc = "write" /\ req[r].op = "remove" /\ Finish(r)
      /\ UNCHANGED <<projects, keys>> /\ ~Locked(req[r].row)
  BY DEF RemoveMember, Doing, At
<1>2. r \in Active /\ req[r] \in Running
  BY <1>1, ActiveRuns DEF Inv, Stages
<1> DEFINE m == req[r].row
<1>3. m \in DOMAIN members => members[m].role # "OWNER"
  BY <1>1, <1>2 DEF Inv, Knowledge, Checked, At, Mutable
<1>4. members' = Without(members, {m})
  BY DEF RemoveMember
<1>5. \A s \in Active : m \notin req[s].rows
  BY <1>1 DEF Locked
<1> HIDE DEF m
<1>6. /\ DOMAIN members' = DOMAIN members \ {m}
      /\ \A i \in DOMAIN members \ {m} : members'[i] = members[i]
  BY <1>4 DEF Without
<1>7. /\ req' \in [Requests -> {New, Done} \cup Running] /\ req'[r] = Done
      /\ \A s \in Requests : s # r => req'[s] = req[s]
  BY <1>1, <1>2, FinishMoves DEF Inv
<1>8. TypeOK' /\ Minted' /\ NoOrphans'
  BY <1>1, <1>6, <1>7 DEF Inv, TypeOK, Minted, NoOrphans
<1>9. OwnerIsMember'
  BY <1>1, <1>3, <1>6 DEF Inv, OwnerIsMember, RowsOf
<1>10. Harmless(r)
  BY <1>1, <1>5, <1>6 DEF Harmless, Mutable
<1> QED
  BY <1>1, <1>2, <1>8, <1>9, <1>10, OthersKnow DEF Inv

\* createApiKey inserts a key for a project that is there.
LEMMA CreateApiKeyInd ==
  ASSUME Inv, NEW r \in Requests, CreateApiKey(r)
  PROVE  Inv'
<1>1. req[r].pc = "write" /\ Finish(r) /\ UNCHANGED <<projects, members>>
  BY DEF CreateApiKey, Doing, At
<1>2. r \in Active /\ req[r] \in Running /\ req[r].project \in Requests
  BY <1>1, ActiveRuns DEF Inv, Stages, Running
<1>3. CASE req[r].project \notin DOMAIN projects
  BY <1>1, <1>2, <1>3, FinishInd DEF tables, CreateApiKey
<1>4. CASE req[r].project \in DOMAIN projects
  <2> DEFINE row == [project |-> req[r].project, revoked |-> FALSE]
  <2>1. keys' = With(keys, r, row)
    BY <1>4 DEF CreateApiKey
  <2>2. row \in Keys /\ row.project \in DOMAIN projects
    BY <1>2, <1>4 DEF Keys
  <2> HIDE DEF row
  <2>3. /\ DOMAIN keys' = DOMAIN keys \cup {r} /\ keys'[r] = row
        /\ \A i \in DOMAIN keys : i # r => keys'[i] = keys[i]
    BY <2>1 DEF With
  <2>4. r \notin DOMAIN projects \cup DOMAIN members \cup DOMAIN keys
    BY <1>2, Fresh
  <2>5. /\ req' \in [Requests -> {New, Done} \cup Running] /\ req'[r] = Done
        /\ \A s \in Requests : s # r => req'[s] = req[s]
    BY <1>1, <1>2, FinishMoves DEF Inv
  <2>6. TypeOK' /\ Minted' /\ NoOrphans' /\ OwnerIsMember'
    BY <1>1, <2>2, <2>3, <2>4, <2>5
       DEF Inv, TypeOK, Minted, NoOrphans, OwnerIsMember, RowsOf
  <2>7. Harmless(r)
    BY <1>1, <2>3, <2>4 DEF Harmless, Mutable
  <2> QED
    BY <1>1, <1>2, <2>6, <2>7, OthersKnow DEF Inv
<1> QED
  BY <1>3, <1>4

\* revokeApiKey marks a key and moves nothing.
LEMMA RevokeApiKeyInd ==
  ASSUME Inv, NEW r \in Requests, RevokeApiKey(r)
  PROVE  Inv'
<1>1. req[r].pc = "write" /\ Finish(r) /\ UNCHANGED <<projects, members>>
  BY DEF RevokeApiKey, Doing, At
<1>2. r \in Active /\ req[r] \in Running
  BY <1>1, ActiveRuns DEF Inv, Stages
<1>3. /\ DOMAIN keys' = DOMAIN keys
      /\ \A k \in DOMAIN keys : keys'[k] \in Keys /\ keys'[k].project = keys[k].project
  BY DEF RevokeApiKey, Inv, TypeOK, Keys
<1>4. /\ req' \in [Requests -> {New, Done} \cup Running] /\ req'[r] = Done
      /\ \A s \in Requests : s # r => req'[s] = req[s]
  BY <1>1, <1>2, FinishMoves DEF Inv
<1>5. TypeOK' /\ Minted' /\ NoOrphans' /\ OwnerIsMember'
  BY <1>1, <1>3, <1>4 DEF Inv, TypeOK, Minted, NoOrphans, OwnerIsMember, RowsOf
<1>6. Harmless(r)
  BY <1>1, <1>3 DEF Harmless, Mutable
<1> QED
  BY <1>1, <1>2, <1>5, <1>6, OthersKnow DEF Inv

-----------------------------------------------------------------------------
(* The invariant, and what follows from it. *)

\* The empty database satisfies the invariant.
LEMMA InitInd == Init => Inv
BY DEF Init, NoRows, Inv, TypeOK, Minted, NoOrphans, OwnerIsMember, RowsOf,
       Knowledge, LocksDisjoint, Active

\* Every step of every request preserves it.
LEMMA NextInd == Inv /\ [Next]_vars => Inv'
<1> SUFFICES ASSUME Inv, [Next]_vars PROVE Inv'
  OBVIOUS
<1>1. ASSUME NEW r \in Requests, Begin(r) PROVE Inv'
  BY <1>1, BeginInd
<1>2. ASSUME NEW r \in Requests, Step(r) PROVE Inv'
  BY <1>2, RequireProjectRoleInd, GenerateUniqueSlugInd, CreateProjectInd,
     UpdateProjectInd, DeleteKeysInd, DeleteMembersInd, DeleteProjectInd,
     FindExistingMemberInd, AddMemberInd, FindProjectMemberInd, UpdateMemberInd,
     RemoveMemberInd, CreateApiKeyInd, FindApiKeyInd, RevokeApiKeyInd
     DEF Step
<1>3. ASSUME NEW r \in Requests, StatementFails(r) PROVE Inv'
  BY <1>3, FinishInd DEF StatementFails
<1>4. CASE UNCHANGED vars
  BY <1>4 DEF vars, Inv, TypeOK, Minted, NoOrphans, OwnerIsMember, RowsOf, Knowledge,
              InItsStages, Names, Checked, Holds, Mutable, At, LocksDisjoint, Active
<1> QED
  BY <1>1, <1>2, <1>3, <1>4 DEF Next

\* The inductive invariant holds in every reachable state.
THEOREM Invariance == Spec => []Inv
BY InitInd, NextInd, PTL DEF Spec

\* Table rows and requests keep their shape.
THEOREM TypeCorrect == Spec => []TypeOK
<1>1. Inv => TypeOK
  BY DEF Inv
<1> QED
  BY <1>1, Invariance, PTL

\* A project always has one owner row, its creator's.
THEOREM OwnersStay == Spec => []OwnerIsMember
<1>1. Inv => OwnerIsMember
  BY DEF Inv
<1> QED
  BY <1>1, Invariance, PTL

\* No step changes the owner row of a project that stays.
LEMMA OwnerRowKeptStep == Inv /\ [Next]_vars => [OwnerRowKept]_vars
<1> SUFFICES ASSUME Inv, Next
             PROVE  OwnerRowKept
  BY DEF OwnerRowKept, vars
<1>1. CASE UNCHANGED members
  BY <1>1 DEF OwnerRowKept
<1>2. CASE ~UNCHANGED members
  <2>1. PICK r \in Requests : \/ CreateProject(r) \/ DeleteProject(r) \/ AddMember(r)
                              \/ UpdateMember(r) \/ RemoveMember(r)
    BY <1>2 DEF Next, Begin, StatementFails, Step, RequireProjectRole,
       GenerateUniqueSlug, UpdateProject, DeleteKeys, DeleteMembers,
       FindExistingMember, FindProjectMember, CreateApiKey, FindApiKey,
       RevokeApiKey, tables
  <2>2. req[r].pc = "write"
    BY <2>1 DEF CreateProject, DeleteProject, AddMember, UpdateMember, RemoveMember,
                Doing, At
  <2>3. r \in Active /\ r \notin DOMAIN members
    BY <2>2, ActiveRuns, Fresh DEF Inv, Stages
  <2>4. CASE CreateProject(r) \/ AddMember(r)
    BY <1>2, <2>3, <2>4
       DEF OwnerRowKept, CreateProject, AddMember, InsertOwner, With, tables
  <2>5. CASE DeleteProject(r)
    <3>1. /\ projects' = Without(projects, {req[r].project})
          /\ members' = Without(members, req[r].rows)
      BY <1>2, <2>5 DEF DeleteProject, tables
    <3>2. req[r].rows \subseteq RowsOf(keys, req[r].project)
                                  \cup RowsOf(members, req[r].project)
      BY <2>3 DEF Inv, Knowledge, Holds
    <3>3. \A m \in DOMAIN members :
            m \in req[r].rows => members[m].project = req[r].project
      BY <3>2 DEF Inv, Minted, RowsOf
    <3> QED
      BY <3>1, <3>3 DEF OwnerRowKept, Without
  <2>6. CASE UpdateMember(r) \/ RemoveMember(r)
    <3>1. req[r].op \in {"update", "remove"}
      BY <2>6 DEF UpdateMember, RemoveMember, Doing
    <3>2. req[r].row \in DOMAIN members => members[req[r].row].role # "OWNER"
      BY <2>2, <2>3, <3>1 DEF Inv, Knowledge, Checked, Mutable, At
    <3>3. CASE UpdateMember(r)
      BY <1>2, <3>2, <3>3 DEF OwnerRowKept, UpdateMember
    <3>4. CASE RemoveMember(r)
      BY <3>2, <3>4 DEF OwnerRowKept, RemoveMember, Without
    <3> QED
      BY <2>6, <3>3, <3>4
  <2> QED
    BY <2>1, <2>4, <2>5, <2>6
<1> QED
  BY <1>1, <1>2

\* The owner membership is neither modified nor removed while its project exists.
THEOREM OwnerRowsAreFixed == Spec => OwnerRowIsFixed
BY Invariance, OwnerRowKeptStep, PTL DEF Spec, OwnerRowIsFixed

\* A step that removes a project is the delete of its owner.
LEMMA DeletedByOwnerStep == Inv /\ [Next]_vars => [DeletedByOwner]_vars
<1> SUFFICES ASSUME Inv, Next, NEW p \in DOMAIN projects \ DOMAIN projects'
             PROVE  \E r \in Active : /\ Doing(r, "write", "delete") /\ req'[r] = Done
                                      /\ req[r].project = p
                                      /\ req[r].user = projects[p].owner
  BY DEF DeletedByOwner, vars
<1>1. PICK r \in Requests : \/ CreateProject(r) \/ UpdateProject(r) \/ DeleteProject(r)
  BY DEF Next, Begin, StatementFails, Step, RequireProjectRole, GenerateUniqueSlug,
     DeleteKeys, DeleteMembers, FindExistingMember, AddMember, FindProjectMember,
     UpdateMember, RemoveMember, CreateApiKey, FindApiKey, RevokeApiKey, tables
<1>2. DeleteProject(r)
  BY <1>1 DEF CreateProject, UpdateProject, With, tables
<1>3. Doing(r, "write", "delete") /\ Finish(r) /\ projects' # projects
  BY <1>2 DEF DeleteProject
<1>4. r \in Active
  BY <1>3, ActiveRuns DEF Inv, Stages, Doing, At
<1>5. req[r].project = p
  BY <1>2, <1>3 DEF DeleteProject, Without, tables
<1>6. req'[r] = Done
  BY <1>3, <1>4, FinishMoves DEF Inv
<1>7. req[r].user = projects[p].owner
  BY <1>3, <1>4, <1>5 DEF Inv, Knowledge, Checked, Doing, At
<1> QED
  BY <1>3, <1>4, <1>5, <1>6, <1>7

\* A project disappears by a delete request of its owner only.
THEOREM OwnersDelete == Spec => OnlyOwnerDeletes
BY Invariance, DeletedByOwnerStep, PTL DEF Spec, OnlyOwnerDeletes

\* A step that writes changes rows of its own project, and removes a row it was asked
\* to remove, or those of the project that it deletes.
LEMMA ChangesOwnStep == Inv /\ [Next]_vars => [ChangesOwn]_vars
<1> SUFFICES ASSUME Inv, Next, NEW r \in Active, req'[r] # req[r]
             PROVE  /\ \A p \in Requests \ {req[r].project} : SameIn(p)
                    /\ Gone # {} => \/ req[r].op = "remove" /\ Gone = {req[r].row}
                                    \/ /\ req[r].op = "delete"
                                       /\ req[r].project \notin DOMAIN projects'
  BY DEF ChangesOwn, vars
<1>1. /\ r \in Requests /\ req[r] \in Running
      /\ r \notin DOMAIN projects \cup DOMAIN members \cup DOMAIN keys
  BY RunningIsActive, Fresh DEF Inv
<1>2. CASE UNCHANGED tables
  BY <1>2 DEF tables, SameIn, Gone, RowsOf
<1>3. CASE ~UNCHANGED tables
  <2>1. PICK s \in Requests :
          \/ CreateProject(s) \/ UpdateProject(s) \/ DeleteProject(s) \/ AddMember(s)
          \/ UpdateMember(s) \/ RemoveMember(s) \/ CreateApiKey(s) \/ RevokeApiKey(s)
    BY <1>3 DEF Next, Begin, StatementFails, Step, RequireProjectRole,
       GenerateUniqueSlug, DeleteKeys, DeleteMembers, FindExistingMember,
       FindProjectMember, FindApiKey, tables
  <2>2. req[s].pc = "write" /\ Finish(s)
    BY <2>1 DEF CreateProject, UpdateProject, DeleteProject, AddMember, UpdateMember,
                RemoveMember, CreateApiKey, RevokeApiKey, Doing, At
  <2>3. s = r
    BY <2>2, <1>1, ActiveRuns, FinishMoves DEF Inv, Stages
  <2>4. InItsStages(r) /\ Names(r) /\ Checked(r) /\ Holds(r) /\ At(r, "write")
    BY <2>2, <2>3 DEF Inv, Knowledge, At
  <2>5. CASE CreateProject(r)
    <3>1. req[r].project = r
      BY <2>4, <2>5 DEF Names, CreateProject, Doing
    <3>2. /\ DOMAIN projects' = DOMAIN projects \cup {r}
          /\ \A p \in DOMAIN projects : projects'[p] = projects[p]
          /\ DOMAIN members' = DOMAIN members \cup {r} /\ members'[r].project = r
          /\ \A m \in DOMAIN members : members'[m] = members[m]
          /\ keys' = keys
      BY <1>1, <1>3, <2>5 DEF CreateProject, InsertOwner, OwnerRow, With, tables
    <3> QED
      BY <1>1, <3>1, <3>2 DEF SameIn, Gone, RowsOf
  <2>6. CASE UpdateProject(r)
    <3>1. /\ DOMAIN projects' = DOMAIN projects
          /\ \A p \in DOMAIN projects \ {req[r].project} : projects'[p] = projects[p]
          /\ members' = members /\ keys' = keys
      BY <2>6 DEF UpdateProject
    <3> QED
      BY <3>1 DEF SameIn, Gone, RowsOf
  <2>7. CASE DeleteProject(r)
    <3> DEFINE rows == req[r].rows
               p == req[r].project
    <3>1. /\ req[r].op = "delete" /\ projects' = Without(projects, {p})
          /\ members' = Without(members, rows) /\ keys' = Without(keys, rows)
      BY <1>3, <2>7 DEF DeleteProject, Doing, tables
    <3>2. /\ \A m \in DOMAIN members : m \in rows => members[m].project = p
          /\ \A k \in DOMAIN keys : k \in rows => keys[k].project = p
      BY <2>4 DEF Holds, Inv, Minted, RowsOf
    <3> HIDE DEF rows
    <3>3. /\ DOMAIN members' = DOMAIN members \ rows /\ DOMAIN keys' = DOMAIN keys \ rows
          /\ \A m \in DOMAIN members \ rows : members'[m] = members[m]
          /\ \A k \in DOMAIN keys \ rows : keys'[k] = keys[k]
          /\ DOMAIN projects' = DOMAIN projects \ {p}
          /\ \A q \in DOMAIN projects \ {p} : projects'[q] = projects[q]
      BY <3>1 DEF Without
    <3> QED
      BY <3>1, <3>2, <3>3 DEF SameIn, RowsOf
  <2>8. CASE AddMember(r)
    <3>1. /\ projects' = projects /\ keys' = keys
          /\ DOMAIN members' = DOMAIN members \cup {r}
          /\ members'[r].project = req[r].project
          /\ \A m \in DOMAIN members : members'[m] = members[m]
      BY <1>1, <1>3, <2>8 DEF AddMember, With, tables
    <3> QED
      BY <1>1, <3>1 DEF SameIn, Gone, RowsOf
  <2>9. CASE UpdateMember(r)
    <3> DEFINE m == req[r].row
    <3>1. /\ m \in DOMAIN members
          /\ members' = [members EXCEPT ![m].role = req[r].role]
          /\ projects' = projects /\ keys' = keys
      BY <1>3, <2>9 DEF UpdateMember, tables
    <3>2. members[m].project = req[r].project
      BY <2>4, <2>9, <3>1 DEF Checked, UpdateMember, Doing, RowsOf
    <3>3. /\ DOMAIN members' = DOMAIN members
          /\ \A i \in DOMAIN members : members'[i].project = members[i].project
          /\ \A i \in DOMAIN members \ {m} : members'[i] = members[i]
      BY <3>1 DEF Inv, TypeOK, Members
    <3> QED
      BY <3>1, <3>2, <3>3 DEF SameIn, Gone, RowsOf
  <2>10. CASE RemoveMember(r)
    <3> DEFINE m == req[r].row
    <3>1. /\ req[r].op = "remove" /\ members' = Without(members, {m})
          /\ projects' = projects /\ keys' = keys
      BY <2>10 DEF RemoveMember, Doing
    <3>2. m \in DOMAIN members => members[m].project = req[r].project
      BY <2>4, <3>1 DEF Checked, RowsOf
    <3> HIDE DEF m
    <3>3. /\ DOMAIN members' = DOMAIN members \ {m}
          /\ \A i \in DOMAIN members \ {m} : members'[i] = members[i]
      BY <3>1 DEF Without
    <3> QED
      BY <3>1, <3>2, <3>3 DEF SameIn, Gone, RowsOf, m
  <2>11. CASE CreateApiKey(r)
    <3>1. /\ projects' = projects /\ members' = members
          /\ DOMAIN keys' = DOMAIN keys \cup {r}
          /\ keys'[r].project = req[r].project
          /\ \A k \in DOMAIN keys : keys'[k] = keys[k]
      BY <1>1, <1>3, <2>11 DEF CreateApiKey, With, tables
    <3> QED
      BY <1>1, <3>1 DEF SameIn, Gone, RowsOf
  <2>12. CASE RevokeApiKey(r)
    <3> DEFINE k == req[r].row
    <3>1. /\ k \in DOMAIN keys /\ keys' = [keys EXCEPT ![k].revoked = TRUE]
          /\ projects' = projects /\ members' = members
      BY <1>3, <2>12 DEF RevokeApiKey, tables
    <3>2. keys[k].project = req[r].project
      BY <2>4, <2>12, <3>1 DEF Checked, RevokeApiKey, Doing, RowsOf
    <3>3. /\ DOMAIN keys' = DOMAIN keys
          /\ \A i \in DOMAIN keys : keys'[i].project = keys[i].project
          /\ \A i \in DOMAIN keys \ {k} : keys'[i] = keys[i]
      BY <3>1 DEF Inv, TypeOK, Keys
    <3> QED
      BY <3>1, <3>2, <3>3 DEF SameIn, Gone, RowsOf
  <2> QED
    BY <2>1, <2>3, <2>5, <2>6, <2>7, <2>8, <2>9, <2>10, <2>11, <2>12
<1> QED
  BY <1>2, <1>3

\* A call changes its own project only, and takes rows away only as it was asked to or
\* together with the project.
THEOREM ChangesAreOwn == Spec => ChangesStayInProject
BY Invariance, ChangesOwnStep, PTL DEF Spec, ChangesStayInProject
=============================================================================
