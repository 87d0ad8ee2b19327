--------------------------- MODULE ApiKeysProofs ---------------------------
(***************************************************************************)
(* For any projects, keys, prefixes and requests: API keys implement        *)
(* KeyAuthority, their use is tracked, and a confirmed revocation holds.    *)
(*                                                                          *)
(* A row may be gone when a request that read it goes on, so the invariant  *)
(* ties requests not to rows but to the creations that made them, which     *)
(* are over and never change: a row is for the key its creation drew        *)
(* (RowsAreNamed), and a key that matched is that key (KnowsRow).           *)
(***************************************************************************)
EXTENDS ApiKeys, TLAPS

\* Request i made a row, whether or not the row is still there.
Named(i) == req[i].op = "create" /\ req[i].pc = "answered"

\* A validation that has read a row, and one whose key matched it.
Holding(s) == s.op = "validate" /\ (s.pc \in {"compare", "touch"} \/ s.status = 200)
Proven(s)  == s.op = "validate" /\ (s.pc = "touch" \/ s.status = 200)

\* The stages an operation goes through and the answers it gives.
InLife(s) ==
  \/ s.op = "none" /\ s.pc = "new" /\ s.status = 0
  \/ s.op = "create" /\ s.pc \in {"role", "draw", "insert"} /\ s.status = 0
  \/ s.op = "create" /\ s.pc = "answered" /\ s.status \in {201, 404, 500, 503}
  \/ s.op = "revoke" /\ s.pc \in {"role", "find", "update"} /\ s.status = 0
  \/ s.op = "revoke" /\ s.pc = "answered" /\ s.status \in {204, 404, 500}
  \/ s.op = "validate" /\ s.pc \in {"lookup", "compare", "touch"} /\ s.status = 0
  \/ s.op = "validate" /\ s.pc = "answered" /\ s.status \in {200, 401, 500}

\* What the request has by then.
HasFields(s) ==
  /\ s.op = "none" => s.key = NoKey /\ s.at = Never
  /\ s.op \in {"create", "revoke"} \/ Holding(s) => s.project \in Projects
  /\ s.pc = "insert" \/ s.status = 201 => s.key \in Drawable
  /\ s.pc \in {"lookup", "compare", "touch"} \/ Holding(s) => s.key \in Strings
  /\ s.pc = "update" \/ Proven(s) => s.at # Never
  /\ s.op = "validate" /\ s.at # Never => s.pc \in {"touch", "answered"}

\* The row a request works on was made by a creation that is over, and a key that
\* matched is the one that creation drew.
KnowsRow(s) ==
  /\ s.op = "revoke" \/ Holding(s) => Named(s.row)
  /\ Proven(s) => s.key = req[s.row].key

Fits(s) == s \in RequestStates /\ InLife(s) /\ HasFields(s) /\ KnowsRow(s)
RequestsFit == \A r \in Requests : Fits(req[r])

\* No key is drawn twice.
KeysAreOwn ==
  /\ \A r \in Requests : req[r].op = "create" => req[r].key \in drawn \cup {NoKey}
  /\ \A q, r \in Requests :
       /\ req[q].op = "create" /\ req[r].op = "create"
       /\ req[q].key = req[r].key /\ req[r].key # NoKey
       => q = r

\* Row i is for the key request i drew.
RowsAreNamed == \A i \in DOMAIN rows : Named(i) /\ rows[i].key = req[i].key

\* A revocation writes to a row of its own project, and has written when confirmed.
Concerns(s) ==
  s.op = "revoke" /\ (s.pc = "update" \/ s.status = 204) /\ s.row \in DOMAIN rows =>
    /\ rows[s.row].project = s.project
    /\ s.status = 204 => rows[s.row].revokedAt # Never
RevocationsFit == \A r \in Requests : Concerns(req[r])

IndInv ==
  /\ TypeOK /\ now # Never
  /\ RequestsFit
  /\ KeysAreOwn
  /\ RowsAreNamed
  /\ UsageIsTracked
  /\ RevocationsFit

-----------------------------------------------------------------------------
(* One request moves. *)

\* What carries over when request r moves to state s: a creation that is over
\* stays as it is, and whoever presented a key still does.
Carries(r, s) ==
  /\ ~At(r, "answered")
  /\ req[r].op = "validate" /\ req[r].at # Never =>
       /\ s.op = "validate" /\ s.key = req[r].key
       /\ s.row = req[r].row /\ s.at = req[r].at
  /\ req[r].op = "validate" => s.op = "validate"

\* Only the request that moves changes, and rows keep their creations.
LEMMA RequestMoves ==
  ASSUME IndInv, NEW r \in Requests, NEW s, Carries(r, s), s \in RequestStates,
         req' = [req EXCEPT ![r] = s]
  PROVE  /\ req' \in [Requests -> RequestStates]
         /\ req'[r] = s /\ \A q \in Requests : q # r => req'[q] = req[q]
         /\ \A i \in Requests : Named(i) => Named(i)' /\ req'[i].key = req[i].key
<1>1. req \in [Requests -> RequestStates]
  BY DEF IndInv, TypeOK
<1>2. /\ req' \in [Requests -> RequestStates]
      /\ req'[r] = s /\ \A q \in Requests : q # r => req'[q] = req[q]
  BY <1>1
<1> QED  BY <1>1, <1>2 DEF Carries, Named, At

\* The requests fit again when the new state does.
LEMMA RequestsStillFit ==
  ASSUME IndInv, NEW r \in Requests, NEW s, Carries(r, s), Fits(s),
         req' = [req EXCEPT ![r] = s]
  PROVE  RequestsFit'
<1>1. /\ req' \in [Requests -> RequestStates] /\ s \in RequestStates
      /\ req'[r] = s /\ \A q \in Requests : q # r => req'[q] = req[q]
      /\ \A i \in Requests : Named(i) => Named(i)' /\ req'[i].key = req[i].key
  BY RequestMoves DEF Fits
<1>2. ASSUME NEW q \in Requests PROVE Fits(req[q])'
  <2>1. PICK x : x = req'[q]
    OBVIOUS
  <2>2. Fits(x) /\ x \in RequestStates
    BY <1>1, <2>1 DEF IndInv, RequestsFit, Fits
  <2>3. x.row \in Requests
    BY <2>2 DEF RequestStates
  <2>4. KnowsRow(req[q])'
    BY <1>1, <2>1, <2>2, <2>3 DEF Fits, KnowsRow, Holding, Proven
  <2>5. InLife(req[q])' /\ HasFields(req[q])'
    BY <2>1, <2>2 DEF Fits, InLife, HasFields, Holding, Proven
  <2> QED  BY <2>1, <2>2, <2>4, <2>5 DEF Fits
<1> QED  BY <1>2 DEF RequestsFit

\* The key of the new state, if it is a creation's, is its own.
Owns(r, s) ==
  s.op = "create" => \/ s.key = NoKey
                     \/ req[r].op = "create" /\ s.key = req[r].key
                     \/ s.key \in drawn' \ drawn

\* Request r moves to state s as the invariant needs it.
Moves(r, s) ==
  Fits(s) /\ Carries(r, s) /\ Owns(r, s) /\ req' = [req EXCEPT ![r] = s]

\* Keys stay distinct: the state moved to has an old key of its own or one just drawn.
LEMMA KeysStayOwn ==
  ASSUME IndInv, NEW r \in Requests, NEW s, Carries(r, s), s \in RequestStates,
         req' = [req EXCEPT ![r] = s], Owns(r, s), drawn \subseteq drawn'
  PROVE  KeysAreOwn'
<1>1. req'[r] = s /\ \A q \in Requests : q # r => req'[q] = req[q]
  BY RequestMoves
<1>2. \A q \in Requests : req[q].op = "create" => req[q].key \in drawn \cup {NoKey}
  BY DEF IndInv, KeysAreOwn
<1>3. ASSUME NEW q \in Requests, req'[q].op = "create"
      PROVE  req'[q].key \in drawn' \cup {NoKey}
  BY <1>1, <1>2, <1>3 DEF Owns
<1>4. ASSUME NEW p \in Requests, NEW q \in Requests,
             req'[p].op = "create", req'[q].op = "create",
             req'[p].key = req'[q].key, req'[q].key # NoKey
      PROVE  p = q
  BY <1>1, <1>2, <1>4 DEF Owns, IndInv, KeysAreOwn
<1> QED  BY <1>3, <1>4 DEF KeysAreOwn

\* A use that a row shows is still that of a call with its key.
LEMMA UseStays ==
  ASSUME IndInv, NEW r \in Requests, NEW s, Carries(r, s), s \in RequestStates,
         req' = [req EXCEPT ![r] = s],
         NEW i \in Requests, Named(i), NEW q \in Requests, Presents(q, i), req[q].at # Never
  PROVE  Presents(q, i)' /\ req'[q].at = req[q].at
<1>1. req'[r] = s /\ \A p \in Requests : p # r => req'[p] = req[p]
  BY RequestMoves
<1>2. req'[i].key = req[i].key
  BY RequestMoves
<1>3. CASE q # r
  <2>1. req'[q] = req[q]
    BY <1>1, <1>3
  <2> QED  BY <1>2, <2>1 DEF Presents, Validating
<1>4. CASE q = r
  <2>1. /\ s.op = "validate" /\ s.key = req[q].key
        /\ s.row = req[q].row /\ s.at = req[q].at
    BY <1>4 DEF Carries, Presents, Validating
  <2> QED  BY <1>1, <1>2, <1>4, <2>1 DEF Presents, Validating
<1> QED  BY <1>3, <1>4

\* Steps that write to no row.
LEMMA NoRowIsWritten ==
  ASSUME IndInv, NEW r \in Requests, NEW s, Moves(r, s), s.status # 200, Concerns(s),
         drawn \subseteq drawn', drawn' \subseteq Drawable, UNCHANGED <<rows, projects, now>>
  PROVE  IndInv'
<1>0. Fits(s) /\ Carries(r, s) /\ Owns(r, s) /\ req' = [req EXCEPT ![r] = s]
  BY DEF Moves
<1>1. /\ req' \in [Requests -> RequestStates] /\ s \in RequestStates
      /\ req'[r] = s /\ \A q \in Requests : q # r => req'[q] = req[q]
      /\ \A i \in Requests : Named(i) => Named(i)' /\ req'[i].key = req[i].key
  <2>1. s \in RequestStates
    BY <1>0 DEF Fits
  <2>2. req' \in [Requests -> RequestStates]
    BY <1>0, <2>1 DEF IndInv, TypeOK
  <2>3. req'[r] = s /\ \A q \in Requests : q # r => req'[q] = req[q]
    BY <1>0 DEF IndInv, TypeOK
  <2>4. \A i \in Requests : Named(i) => Named(i)' /\ req'[i].key = req[i].key
    BY <1>0, <2>3 DEF Carries, Named, At
  <2> QED  BY <2>1, <2>2, <2>3, <2>4
<1>2. TypeOK' /\ now' # Never
  BY <1>1 DEF IndInv, TypeOK
<1>3. \A i \in DOMAIN rows : i \in Requests /\ Named(i) /\ rows[i].key = req[i].key
  BY DEF IndInv, TypeOK, RowsAreNamed
<1>4. RowsAreNamed'
  BY <1>1, <1>3 DEF RowsAreNamed
<1>5. RevocationsFit'
  BY <1>1 DEF IndInv, RevocationsFit, Concerns
<1>6. UsageIsTracked'
  <2> SUFFICES ASSUME NEW i \in DOMAIN rows
               PROVE  /\ (\E q \in Requests : Presents(q, i)' /\ req'[q].status = 200)
                           => rows[i].lastUsedAt # Never
                      /\ rows[i].lastUsedAt # Never
                           => \E q \in Requests :
                                Presents(q, i)' /\ req'[q].at = rows[i].lastUsedAt
    BY DEF UsageIsTracked
  <2>1. ASSUME NEW q \in Requests, Presents(q, i)', req'[q].status = 200
        PROVE  rows[i].lastUsedAt # Never
    <3>1. q # r /\ req'[q] = req[q] /\ req'[i].key = req[i].key
      BY <1>1, <1>3, <2>1
    <3>2. Presents(q, i) /\ req[q].status = 200
      BY <2>1, <3>1 DEF Presents, Validating
    <3> QED  BY <3>2 DEF IndInv, UsageIsTracked
  <2>2. ASSUME rows[i].lastUsedAt # Never
        PROVE  \E q \in Requests : Presents(q, i)' /\ req'[q].at = rows[i].lastUsedAt
    <3>1. PICK q \in Requests : Presents(q, i) /\ req[q].at = rows[i].lastUsedAt
      BY <2>2 DEF IndInv, UsageIsTracked
    <3>2. i \in Requests /\ Named(i) /\ req[q].at # Never
      BY <1>3, <2>2, <3>1
    <3>3. Carries(r, s) /\ s \in RequestStates /\ req' = [req EXCEPT ![r] = s]
      BY <1>0, <1>1
    <3>4. Presents(q, i) /\ req[q].at = rows[i].lastUsedAt
      BY <3>1
    <3>5. Presents(q, i)' /\ req'[q].at = req[q].at
      BY <3>2, <3>3, <3>4, UseStays
    <3> QED  BY <3>1, <3>5
  <2> QED  BY <2>1, <2>2
<1> QED
  BY <1>0, <1>2, <1>4, <1>5, <1>6, RequestsStillFit, KeysStayOwn DEF IndInv, Fits

-----------------------------------------------------------------------------
(* The steps. *)

\* The invariant holds at first, when there is nothing.
LEMMA InitInd == Init => IndInv
<1> SUFFICES ASSUME Init PROVE IndInv
  OBVIOUS
<1>1. DOMAIN rows = {} /\ now = 1 /\ drawn = {} /\ projects = Projects
  BY DEF Init
<1>2. ASSUME NEW r \in Requests
      PROVE  /\ req[r] = NewRequest(r) /\ req[r] \in RequestStates
             /\ req[r].pc = "new" /\ req[r].op = "none" /\ req[r].status = 0
             /\ req[r].key = NoKey /\ req[r].at = Never
  <2>1. req[r] = NewRequest(r)
    BY DEF Init
  <2>2. 0 \in Times /\ 0 \in 0 .. MaxAttempts
    BY ApiKeysAssumption DEF Times
  <2> QED
    BY <2>1, <2>2 DEF NewRequest, RequestStates, Stages, Ops, Statuses, Never
<1>3. TypeOK
  <2>1. req \in [Requests -> RequestStates]
    BY <1>2 DEF Init
  <2>2. now \in Times
    BY <1>1, ApiKeysAssumption DEF Times
  <2> QED  BY <1>1, <2>1, <2>2 DEF TypeOK
<1>4. RequestsFit
  BY <1>2 DEF RequestsFit, Fits, InLife, HasFields, KnowsRow, Holding, Proven
<1> QED
  BY <1>1, <1>2, <1>3, <1>4
  DEF IndInv, KeysAreOwn, RowsAreNamed, UsageIsTracked, RevocationsFit, Concerns, Never

\* The clock and the control plane leave requests alone; deletion takes rows away.
LEMMA EnvironmentInd ==
  ASSUME IndInv, Tick \/ \E p \in Projects : DeleteProject(p)
  PROVE  IndInv'
<1>1. /\ UNCHANGED <<req, drawn>> /\ projects' \subseteq projects
      /\ DOMAIN rows' \subseteq DOMAIN rows /\ \A i \in DOMAIN rows' : rows'[i] = rows[i]
  BY DEF Tick, DeleteProject
<1>2. now' \in Times /\ now' # Never
  <2>1. now \in Times /\ now # Never
    BY DEF IndInv, TypeOK
  <2>2. now' = now \/ (now < TimeBound /\ now' = now + 1)
    <3>1. CASE Tick
      BY <3>1 DEF Tick
    <3>2. ASSUME NEW p \in Projects, DeleteProject(p) PROVE now' = now
      BY <3>2 DEF DeleteProject
    <3> QED  BY <3>1, <3>2
  <2> QED  BY <2>1, <2>2, ApiKeysAssumption DEF Times, Never
<1>3. TypeOK'
  BY <1>1, <1>2 DEF IndInv, TypeOK
<1>4. RequestsFit' /\ KeysAreOwn'
  BY <1>1
  DEF IndInv, RequestsFit, KeysAreOwn, Fits, InLife, HasFields, KnowsRow, Holding, Proven, Named
<1>5. RowsAreNamed' /\ RevocationsFit'
  BY <1>1 DEF IndInv, RowsAreNamed, RevocationsFit, Concerns, Named
<1>6. UsageIsTracked'
  BY <1>1 DEF IndInv, UsageIsTracked, Presents, Validating
<1> QED  BY <1>2, <1>3, <1>4, <1>5, <1>6 DEF IndInv

\* What a request becomes with an answer: two fields change.
Answered(q, status) == [q EXCEPT !.pc = "answered", !.status = status]

\* An answer is a move to that state.
LEMMA AnswerIsMove ==
  ASSUME NEW r \in Requests, NEW status, Answer(r, status),
         req \in [Requests -> RequestStates]
  PROVE  req' = [req EXCEPT ![r] = Answered(req[r], status)]
BY DEF Answer, Answered

\* That state is one of a request's, and the other fields are as they were.
LEMMA AnswerState ==
  ASSUME NEW q \in RequestStates, NEW status \in Statuses
  PROVE  /\ Answered(q, status) \in RequestStates
         /\ Answered(q, status).pc = "answered" /\ Answered(q, status).status = status
         /\ Answered(q, status).op = q.op /\ Answered(q, status).row = q.row
         /\ Answered(q, status).project = q.project /\ Answered(q, status).key = q.key
         /\ Answered(q, status).at = q.at
<1>1. "answered" \in Stages
  BY DEF Stages
<1>2. Answered(q, status) \in RequestStates
  BY <1>1 DEF Answered, RequestStates
<1>3. /\ Answered(q, status).pc = "answered" /\ Answered(q, status).status = status
      /\ Answered(q, status).op = q.op /\ Answered(q, status).row = q.row
      /\ Answered(q, status).project = q.project /\ Answered(q, status).key = q.key
      /\ Answered(q, status).at = q.at
  BY DEF Answered, RequestStates
<1> QED  BY <1>2, <1>3

\* An answer changes nothing else of the request.
Ends(r, s) ==
  /\ s.pc = "answered" /\ s.op = req[r].op /\ s.row = req[r].row
  /\ s.project = req[r].project /\ s.key = req[r].key /\ s.at = req[r].at

\* The state an answer leads to fits, when a request under way gives one of its
\* operation's answers and, for 200 and 201, has what it takes.
LEMMA AnswerFits ==
  ASSUME IndInv, NEW r \in Requests, NEW status, Answer(r, status),
         ~At(r, "answered"),
         \/ req[r].op = "create" /\ status \in {201, 404, 500, 503}
         \/ req[r].op = "revoke" /\ status \in {204, 404, 500}
         \/ req[r].op = "validate" /\ status \in {200, 401, 500},
         status = 200 => At(r, "touch"),
         status = 201 => At(r, "insert")
  PROVE  \E s : Moves(r, s) /\ Ends(r, s) /\ s.status = status
<1>0. PICK s : s = Answered(req[r], status)
  OBVIOUS
<1>1. req \in [Requests -> RequestStates] /\ req[r] \in RequestStates /\ Fits(req[r])
  BY DEF IndInv, TypeOK, RequestsFit, Fits
<1>2. req' = [req EXCEPT ![r] = s]
  BY <1>0, <1>1, AnswerIsMove
<1>3. /\ s \in RequestStates /\ s.pc = "answered" /\ s.status = status
      /\ s.op = req[r].op /\ s.row = req[r].row /\ s.project = req[r].project
      /\ s.key = req[r].key /\ s.at = req[r].at
  <2>1. status \in Statuses
    BY DEF Statuses
  <2> QED  BY <1>0, <1>1, <2>1, AnswerState
<1>4. InLife(s)
  BY <1>3 DEF InLife
<1>5. HasFields(s)
  BY <1>1, <1>3 DEF Fits, HasFields, InLife, Holding, Proven, At
<1>6. KnowsRow(s)
  BY <1>1, <1>3 DEF Fits, KnowsRow, InLife, Holding, Proven, At
<1>7. Carries(r, s) /\ Owns(r, s) /\ Ends(r, s)
  BY <1>3 DEF Carries, Owns, Ends
<1> QED  BY <1>2, <1>3, <1>4, <1>5, <1>6, <1>7 DEF Fits, Moves

\* An answer without a write, other than to revoke a key.
LEMMA PlainAnswer ==
  ASSUME IndInv, NEW r \in Requests, NEW status, Answer(r, status),
         ~At(r, "answered"),
         \/ req[r].op = "create" /\ status \in {404, 500, 503}
         \/ req[r].op = "revoke" /\ status \in {404, 500}
         \/ req[r].op = "validate" /\ status \in {401, 500},
         drawn \subseteq drawn', drawn' \subseteq Drawable, UNCHANGED <<rows, projects, now>>
  PROVE  IndInv'
<1>1. PICK s : Moves(r, s) /\ Ends(r, s) /\ s.status = status
  BY AnswerFits
<1>2. s.status # 200 /\ Concerns(s)
  BY <1>1 DEF Concerns, Ends
<1> QED  BY <1>1, <1>2, NoRowIsWritten

\* The facts about a request that a step starts from.
LEMMA AtWork ==
  ASSUME IndInv, NEW r \in Requests
  PROVE  req \in [Requests -> RequestStates] /\ req[r] \in RequestStates /\ Fits(req[r])
BY DEF IndInv, TypeOK, RequestsFit, Fits

\* A request starts, with no key of its own yet.
LEMMA StartInd ==
  ASSUME IndInv, NEW r \in Requests, CreateApiKey(r) \/ RevokeApiKey(r) \/ Validate(r)
  PROVE  IndInv'
<1>1. /\ req \in [Requests -> RequestStates] /\ req[r] \in RequestStates /\ Fits(req[r])
      /\ req[r].pc = "new" /\ req[r].op = "none" /\ req[r].status = 0
      /\ req[r].key = NoKey /\ req[r].at = Never
      /\ UNCHANGED <<rows, projects, drawn, now>>
  <2>1. At(r, "new") /\ UNCHANGED <<rows, projects, drawn, now>>
    BY DEF CreateApiKey, RevokeApiKey, Validate
  <2> QED  BY <2>1, AtWork DEF Fits, InLife, HasFields, At
<1>2. ASSUME NEW s \in RequestStates, req' = [req EXCEPT ![r] = s],
             InLife(s), HasFields(s), KnowsRow(s), s.status # 200, s.pc # "update",
             s.status # 204, s.op = "create" => s.key = NoKey
      PROVE  IndInv'
  <2>1. Moves(r, s) /\ Concerns(s)
    BY <1>1, <1>2 DEF Moves, Carries, Owns, Concerns, Fits, At
  <2>2. drawn \subseteq drawn' /\ drawn' \subseteq Drawable
    BY <1>1 DEF IndInv, TypeOK
  <2> QED  BY <1>1, <1>2, <2>1, <2>2, NoRowIsWritten
<1>3. CASE CreateApiKey(r)
  <2>1. PICK p \in Projects :
          req' = [req EXCEPT ![r].pc = "role", ![r].op = "create", ![r].project = p]
    BY <1>3 DEF CreateApiKey
  <2> DEFINE s == [req[r] EXCEPT !.pc = "role", !.op = "create", !.project = p]
  <2>2. req' = [req EXCEPT ![r] = s]
    BY <1>1, <2>1
  <2>3. /\ s \in RequestStates /\ s.pc = "role" /\ s.op = "create" /\ s.project = p
        /\ s.status = 0 /\ s.key = NoKey /\ s.at = Never
    BY <1>1 DEF RequestStates, Stages, Ops
  <2> HIDE DEF s
  <2>4. /\ InLife(s) /\ HasFields(s) /\ KnowsRow(s)
        /\ s.status # 200 /\ s.status # 204 /\ s.pc # "update"
    BY <2>3 DEF InLife, HasFields, KnowsRow, Holding, Proven
  <2> QED  BY <1>2, <2>2, <2>3, <2>4
<1>4. CASE RevokeApiKey(r)
  <2>1. PICK p \in Projects, i \in DOMAIN rows :
          req' = [req EXCEPT ![r].pc = "role", ![r].op = "revoke", ![r].project = p,
                             ![r].row = i]
    BY <1>4 DEF RevokeApiKey
  <2> DEFINE s == [req[r] EXCEPT !.pc = "role", !.op = "revoke", !.project = p, !.row = i]
  <2>2. req' = [req EXCEPT ![r] = s]
    BY <1>1, <2>1
  <2>3. i \in Requests /\ Named(i)
    BY DEF IndInv, TypeOK, RowsAreNamed
  <2>4. /\ s \in RequestStates /\ s.pc = "role" /\ s.op = "revoke" /\ s.project = p
        /\ s.status = 0 /\ s.key = NoKey /\ s.at = Never /\ s.row = i
    BY <1>1, <2>3 DEF RequestStates, Stages, Ops
  <2> HIDE DEF s
  <2>5. /\ InLife(s) /\ HasFields(s) /\ KnowsRow(s) /\ s.op # "create"
        /\ s.status # 200 /\ s.status # 204 /\ s.pc # "update"
    BY <2>3, <2>4 DEF InLife, HasFields, KnowsRow, Holding, Proven
  <2> QED  BY <1>2, <2>2, <2>4, <2>5
<1>5. CASE Validate(r)
  <2>1. CASE \E k \in HandedOut \cup Guesses :
               req' = [req EXCEPT ![r].pc = "lookup", ![r].op = "validate", ![r].key = k]
    <3>1. PICK k \in HandedOut \cup Guesses :
            req' = [req EXCEPT ![r].pc = "lookup", ![r].op = "validate", ![r].key = k]
      BY <2>1
    <3> DEFINE s == [req[r] EXCEPT !.pc = "lookup", !.op = "validate", !.key = k]
    <3>2. req' = [req EXCEPT ![r] = s]
      BY <1>1, <3>1
    <3>3. k \in Strings
      BY DEF HandedOut, Strings, IndInv, RequestsFit, Fits, HasFields
    <3>4. /\ s \in RequestStates /\ s.pc = "lookup" /\ s.op = "validate"
          /\ s.status = 0 /\ s.key = k /\ s.at = Never
      BY <1>1, <3>3 DEF RequestStates, Stages, Ops
    <3> HIDE DEF s
    <3>5. /\ InLife(s) /\ HasFields(s) /\ KnowsRow(s) /\ s.op # "create"
          /\ s.status # 200 /\ s.status # 204 /\ s.pc # "update"
      BY <3>3, <3>4 DEF InLife, HasFields, KnowsRow, Holding, Proven
    <3> QED  BY <1>2, <3>2, <3>4, <3>5
  <2>2. CASE req' = [req EXCEPT ![r].pc = "answered", ![r].op = "validate", ![r].status = 401]
    <3>0. PICK status \in Statuses : status = 401
      BY DEF Statuses
    <3>4. req' = [req EXCEPT ![r].pc = "answered", ![r].op = "validate",
                             ![r].status = status]
      BY <2>2, <3>0, Zenon
    <3> DEFINE s == [req[r] EXCEPT !.pc = "answered", !.op = "validate", !.status = status]
    <3>1. req' = [req EXCEPT ![r] = s]
      <4>1. req \in [Requests -> RequestStates]
        BY <1>1
      <4> QED  BY <3>4, <4>1
    <3>2. /\ s \in RequestStates /\ s.pc = "answered" /\ s.op = "validate"
          /\ s.status = status /\ s.at = req[r].at
      <4>1. "answered" \in Stages /\ "validate" \in Ops /\ req[r] \in RequestStates
        BY <1>1 DEF Stages, Ops
      <4> QED  BY <4>1 DEF RequestStates
    <3> HIDE DEF s
    <3>5. s.at = Never
      BY <1>1, <3>2
    <3>3. /\ InLife(s) /\ HasFields(s) /\ KnowsRow(s) /\ s.op # "create"
          /\ s.status # 200 /\ s.status # 204 /\ s.pc # "update"
      BY <3>0, <3>2, <3>5 DEF InLife, HasFields, KnowsRow, Holding, Proven
    <3> QED  BY <1>2, <3>1, <3>2, <3>3
  <2> QED  BY <1>5, <2>1, <2>2 DEF Validate
<1> QED  BY <1>3, <1>4, <1>5

\* A request goes on, with nothing else changed.
LEMMA GoFits ==
  ASSUME IndInv, NEW r \in Requests, NEW pc, Go(r, pc),
         \/ At(r, "role") /\ req[r].op = "create" /\ pc = "draw"
         \/ At(r, "role") /\ req[r].op = "revoke" /\ pc = "find",
         UNCHANGED <<rows, projects, drawn, now>>
  PROVE  IndInv'
<1> DEFINE s == [req[r] EXCEPT !.pc = pc]
<1>1. req \in [Requests -> RequestStates] /\ req[r] \in RequestStates /\ Fits(req[r])
  BY AtWork
<1>2. req' = [req EXCEPT ![r] = s]
  BY <1>1 DEF Go
<1>3. /\ s \in RequestStates /\ s.pc = pc
      /\ s.op = req[r].op /\ s.row = req[r].row /\ s.project = req[r].project
      /\ s.key = req[r].key /\ s.at = req[r].at /\ s.status = req[r].status
  <2>1. pc \in Stages
    BY DEF Stages
  <2> QED  BY <1>1, <2>1 DEF RequestStates
<1> HIDE DEF s
<1>4. Fits(s)
  BY <1>1, <1>3 DEF Fits, InLife, HasFields, KnowsRow, Holding, Proven, At
<1>5. Carries(r, s) /\ Owns(r, s) /\ s.status # 200 /\ Concerns(s)
  BY <1>1, <1>3 DEF Carries, Owns, Concerns, Fits, InLife, At
<1>6. drawn \subseteq drawn' /\ drawn' \subseteq Drawable
  BY DEF IndInv, TypeOK
<1> QED  BY <1>2, <1>4, <1>5, <1>6, NoRowIsWritten DEF Moves

\* A request goes on, when its role allows it.
LEMMA RoleInd ==
  ASSUME IndInv, NEW r \in Requests, RequireProjectRole(r)
  PROVE  IndInv'
<1>1. /\ At(r, "role") /\ UNCHANGED <<rows, projects, drawn, now>>
      /\ req[r].op = "create" \/ req[r].op = "revoke"
      /\ drawn \subseteq drawn' /\ drawn' \subseteq Drawable
  BY AtWork DEF RequireProjectRole, Fits, InLife, At, IndInv, TypeOK
<1>2. \/ req[r].op = "create" /\ Go(r, "draw")
      \/ req[r].op = "revoke" /\ Go(r, "find")
      \/ Answer(r, 404)
  BY <1>1 DEF RequireProjectRole
<1>3. CASE Answer(r, 404)
  <2>1. ~At(r, "answered")
    BY <1>1 DEF At
  <2> QED  BY <1>1, <1>3, <2>1, PlainAnswer
<1> QED  BY <1>1, <1>2, <1>3, GoFits

\* The key drawn is new, so it is the request's own.
LEMMA DrawInd ==
  ASSUME IndInv, NEW r \in Requests, DrawApiKey(r)
  PROVE  IndInv'
<1>1. PICK k \in Drawable \ drawn :
        /\ drawn' = drawn \cup {k}
        /\ \/ req' = [req EXCEPT ![r].pc = "insert", ![r].key = k]
           \/ req[r].tries + 1 < MaxAttempts /\ req' = [req EXCEPT ![r].tries = @ + 1]
           \/ Answer(r, 503)
  BY DEF DrawApiKey
<1>2. /\ drawn \subseteq drawn' /\ drawn' \subseteq Drawable /\ k \in drawn' \ drawn
      /\ UNCHANGED <<rows, projects, now>> /\ At(r, "draw")
      /\ req \in [Requests -> RequestStates] /\ req[r] \in RequestStates /\ Fits(req[r])
      /\ req[r].pc = "draw" /\ req[r].op = "create" /\ req[r].status = 0
  BY <1>1, AtWork DEF DrawApiKey, Fits, InLife, IndInv, TypeOK, At
<1>3. ASSUME NEW s \in RequestStates, req' = [req EXCEPT ![r] = s],
             s.op = "create", s.pc \in {"draw", "insert"}, s.status = 0,
             s.project = req[r].project, s.key = k \/ (s.pc = "draw" /\ s.key = req[r].key)
      PROVE  IndInv'
  <2>1. Carries(r, s) /\ Owns(r, s) /\ s.status # 200 /\ Concerns(s)
    BY <1>2, <1>3 DEF Carries, Owns, Concerns, At
  <2>2. Fits(s)
    BY <1>2, <1>3 DEF Fits, InLife, HasFields, KnowsRow, Holding, Proven
  <2> QED  BY <1>2, <1>3, <2>1, <2>2, NoRowIsWritten DEF Moves
<1>4. CASE req' = [req EXCEPT ![r].pc = "insert", ![r].key = k]
  <2> DEFINE s == [req[r] EXCEPT !.pc = "insert", !.key = k]
  <2>1. req' = [req EXCEPT ![r] = s]
    BY <1>2, <1>4
  <2>2. /\ s \in RequestStates /\ s.op = "create" /\ s.pc = "insert" /\ s.status = 0
        /\ s.project = req[r].project /\ s.key = k
    BY <1>2 DEF RequestStates, Stages, Strings
  <2> HIDE DEF s
  <2>3. s.pc \in {"draw", "insert"} /\ (s.key = k \/ (s.pc = "draw" /\ s.key = req[r].key))
    BY <2>2
  <2> QED  BY <1>3, <2>1, <2>2, <2>3
<1>5. CASE req[r].tries + 1 < MaxAttempts /\ req' = [req EXCEPT ![r].tries = @ + 1]
  <2> DEFINE s == [req[r] EXCEPT !.tries = @ + 1]
  <2>1. req' = [req EXCEPT ![r] = s]
    BY <1>2, <1>5
  <2>2. req[r].tries + 1 \in 0 .. MaxAttempts
    BY <1>2, <1>5, ApiKeysAssumption DEF RequestStates
  <2>3. /\ s \in RequestStates /\ s.op = "create" /\ s.pc = "draw" /\ s.status = 0
        /\ s.project = req[r].project /\ s.key = req[r].key
    BY <1>2, <2>2 DEF RequestStates
  <2> HIDE DEF s
  <2> QED  BY <1>3, <2>1, <2>3
<1>6. CASE Answer(r, 503)
  <2>1. ~At(r, "answered")
    BY <1>2 DEF At
  <2> QED  BY <1>2, <1>6, <2>1, PlainAnswer
<1> QED  BY <1>1, <1>4, <1>5, <1>6

\* The row of a creation is new: nobody works on it, and no other has its prefix.
LEMMA InsertedInd ==
  ASSUME IndInv, NEW r \in Requests, NEW s, Moves(r, s), Ends(r, s),
         At(r, "insert"), ~RefusesInsert(r), rows' = Inserted(r),
         UNCHANGED <<projects, drawn, now>>
  PROVE  IndInv'
<1>0. /\ Fits(req[r]) /\ req[r].op = "create" /\ ~At(r, "answered")
      /\ req[r].key \in Drawable /\ req[r].project \in Projects
  BY AtWork DEF Fits, InLife, HasFields, At
<1>1. /\ s.pc = "answered" /\ s.op = req[r].op /\ s.row = req[r].row
      /\ s.project = req[r].project /\ s.key = req[r].key /\ s.at = req[r].at
      /\ s \in RequestStates /\ Carries(r, s) /\ req' = [req EXCEPT ![r] = s]
  BY DEF Ends, Moves, Fits
<1>2. /\ req' \in [Requests -> RequestStates]
      /\ req'[r] = s /\ \A q \in Requests : q # r => req'[q] = req[q]
      /\ \A i \in Requests : Named(i) => Named(i)' /\ req'[i].key = req[i].key
  BY <1>1, RequestMoves DEF Fits
<1>3. ~Named(r)
  BY <1>0 DEF Named, At
<1>4. \A i \in DOMAIN rows : i \in Requests /\ Named(i) /\ rows[i].key = req[i].key /\ i # r
  BY <1>3 DEF IndInv, TypeOK, RowsAreNamed
<1>5. /\ DOMAIN rows' = DOMAIN rows \cup {r} /\ rows'[r] = NewRow(r)
      /\ \A i \in DOMAIN rows : rows'[i] = rows[i]
  BY <1>4 DEF Inserted
<1>6. /\ NewRow(r) \in Rows /\ NewRow(r).key = req[r].key /\ NewRow(r).lastUsedAt = Never
  <2>1. Never \in Times
    BY ApiKeysAssumption DEF Times, Never
  <2> QED  BY <1>0, <2>1 DEF NewRow, Rows
<1>7. TypeOK' /\ now' # Never
  <2>1. \A i \in DOMAIN rows : PrefixOf(rows[i].key) # PrefixOf(req[r].key)
    BY DEF RefusesInsert, RowsWith
  <2>2. \A i, j \in DOMAIN rows : PrefixOf(rows[i].key) = PrefixOf(rows[j].key) => i = j
    BY DEF IndInv, TypeOK
  <2>3. \A i, j \in DOMAIN rows' : PrefixOf(rows'[i].key) = PrefixOf(rows'[j].key) => i = j
    BY <1>5, <1>6, <2>1, <2>2
  <2>4. DOMAIN rows' \subseteq Requests /\ \A i \in DOMAIN rows' : rows'[i] \in Rows
    BY <1>5, <1>6 DEF IndInv, TypeOK
  <2> QED  BY <1>2, <2>3, <2>4 DEF IndInv, TypeOK
<1>8. RowsAreNamed'
  <2>1. Named(r)' /\ req'[r].key = req[r].key
    BY <1>0, <1>1, <1>2 DEF Named
  <2> QED  BY <1>2, <1>4, <1>5, <1>6, <2>1 DEF RowsAreNamed
<1>9. ASSUME NEW q \in Requests, q # r, req[q].op = "revoke" \/ Holding(req[q])
      PROVE  req'[q] = req[q] /\ req[q].row # r
  BY <1>2, <1>3, <1>9 DEF IndInv, RequestsFit, Fits, KnowsRow
<1>10. RevocationsFit'
  <2> SUFFICES ASSUME NEW q \in Requests PROVE Concerns(req[q])'
    BY DEF RevocationsFit
  <2>1. CASE q = r
    BY <1>0, <1>1, <1>2, <2>1 DEF Concerns
  <2>2. CASE q # r /\ req[q].op = "revoke"
    <3>1. req'[q] = req[q] /\ req[q].row # r /\ Concerns(req[q])
      BY <1>9, <2>2 DEF IndInv, RevocationsFit
    <3> QED  BY <1>5, <3>1 DEF Concerns
  <2>3. CASE q # r /\ req[q].op # "revoke"
    BY <1>2, <2>3 DEF Concerns
  <2> QED  BY <2>1, <2>2, <2>3
<1>11. UsageIsTracked'
  <2> SUFFICES ASSUME NEW i \in DOMAIN rows'
               PROVE  /\ (\E q \in Requests : Presents(q, i)' /\ req'[q].status = 200)
                           => rows'[i].lastUsedAt # Never
                      /\ rows'[i].lastUsedAt # Never
                           => \E q \in Requests :
                                Presents(q, i)' /\ req'[q].at = rows'[i].lastUsedAt
    BY DEF UsageIsTracked
  <2>1. ASSUME NEW q \in Requests, Presents(q, i)', req'[q].status = 200
        PROVE  rows'[i].lastUsedAt # Never
    <3>1. q # r
      BY <1>0, <1>1, <1>2, <2>1 DEF Presents, Validating
    <3>2. Holding(req[q]) /\ req'[q] = req[q]
      BY <1>2, <2>1, <3>1 DEF Presents, Validating, Holding
    <3>3. i # r /\ i \in DOMAIN rows
      BY <1>5, <1>9, <2>1, <3>1, <3>2 DEF Presents
    <3>4. Presents(q, i) /\ req[q].status = 200
      BY <1>2, <1>4, <2>1, <3>2, <3>3 DEF Presents, Validating
    <3> QED  BY <1>5, <3>3, <3>4 DEF IndInv, UsageIsTracked
  <2>2. ASSUME rows'[i].lastUsedAt # Never
        PROVE  \E q \in Requests : Presents(q, i)' /\ req'[q].at = rows'[i].lastUsedAt
    <3>1. i \in DOMAIN rows /\ rows'[i] = rows[i]
      BY <1>5, <1>6, <2>2
    <3>2. PICK q \in Requests : Presents(q, i) /\ req[q].at = rows[i].lastUsedAt
      BY <2>2, <3>1 DEF IndInv, UsageIsTracked
    <3>3. s \in RequestStates /\ req[q].at # Never /\ i \in Requests /\ Named(i)
      BY <1>1, <1>4, <2>2, <3>1, <3>2 DEF Fits
    <3>4. Presents(q, i)' /\ req'[q].at = req[q].at
      BY <1>1, <3>2, <3>3, UseStays
    <3> QED  BY <3>1, <3>2, <3>4
  <2> QED  BY <2>1, <2>2
<1> QED
  BY <1>1, <1>7, <1>8, <1>10, <1>11, RequestsStillFit, KeysStayOwn DEF IndInv, Moves, Fits

\* An insert is refused, or makes a row under a prefix that no row has.
LEMMA InsertInd ==
  ASSUME IndInv, NEW r \in Requests, InsertApiKey(r)
  PROVE  IndInv'
<1>1. /\ At(r, "insert") /\ UNCHANGED <<projects, drawn, now>>
      /\ req[r].op = "create" /\ ~At(r, "answered")
      /\ drawn \subseteq drawn' /\ drawn' \subseteq Drawable
  BY AtWork DEF InsertApiKey, Fits, InLife, At, IndInv, TypeOK
<1>2. CASE RefusesInsert(r)
  <2>1. Answer(r, 500) /\ rows' = rows
    BY <1>2 DEF InsertApiKey
  <2> QED  BY <1>1, <2>1, PlainAnswer
<1>3. CASE ~RefusesInsert(r)
  <2>1. Answer(r, 201) /\ rows' = Inserted(r)
    BY <1>3 DEF InsertApiKey
  <2>2. PICK s : Moves(r, s) /\ Ends(r, s)
    BY <1>1, <2>1, AnswerFits
  <2> QED  BY <1>1, <1>3, <2>1, <2>2, InsertedInd
<1> QED  BY <1>2, <1>3

\* A row is written to: it keeps its project and its key.
Writes(i, row) ==
  /\ row \in Rows /\ row.project = rows[i].project /\ row.key = rows[i].key
  /\ rows' = [rows EXCEPT ![i] = row] /\ UNCHANGED <<projects, drawn, now>>

\* A write to one row that leaves its project and its key alone.
LEMMA WrittenInd ==
  ASSUME IndInv, NEW r \in Requests, NEW s, Moves(r, s),
         NEW i \in DOMAIN rows, NEW row, Writes(i, row)
  PROVE  /\ TypeOK' /\ now' # Never /\ RequestsFit' /\ KeysAreOwn' /\ RowsAreNamed'
         /\ req'[r] = s /\ \A q \in Requests : q # r => req'[q] = req[q]
         /\ DOMAIN rows' = DOMAIN rows /\ rows'[i] = row
         /\ \A j \in DOMAIN rows : /\ j # i => rows'[j] = rows[j]
                                   /\ j \in Requests /\ Named(j)
                                   /\ req'[j].key = req[j].key
<1>0. /\ Fits(s) /\ Carries(r, s) /\ Owns(r, s) /\ req' = [req EXCEPT ![r] = s]
      /\ row \in Rows /\ row.project = rows[i].project /\ row.key = rows[i].key
      /\ rows' = [rows EXCEPT ![i] = row] /\ UNCHANGED <<projects, drawn, now>>
  BY DEF Moves, Writes
<1>1. /\ req' \in [Requests -> RequestStates]
      /\ req'[r] = s /\ \A q \in Requests : q # r => req'[q] = req[q]
      /\ \A j \in Requests : Named(j) => Named(j)' /\ req'[j].key = req[j].key
  BY <1>0, RequestMoves DEF Fits
<1>2. /\ DOMAIN rows' = DOMAIN rows /\ rows'[i] = row
      /\ \A j \in DOMAIN rows : j # i => rows'[j] = rows[j]
      /\ \A j \in DOMAIN rows : rows'[j].key = rows[j].key
  BY <1>0
<1>3. \A j \in DOMAIN rows : j \in Requests /\ Named(j) /\ rows[j].key = req[j].key
  BY DEF IndInv, TypeOK, RowsAreNamed
<1>4. TypeOK' /\ now' # Never
  <2>1. \A j, k \in DOMAIN rows : PrefixOf(rows[j].key) = PrefixOf(rows[k].key) => j = k
    BY DEF IndInv, TypeOK
  <2>2. \A j, k \in DOMAIN rows' : PrefixOf(rows'[j].key) = PrefixOf(rows'[k].key) => j = k
    BY <1>2, <2>1
  <2>3. \A j \in DOMAIN rows' : rows'[j] \in Rows
    BY <1>0, <1>2 DEF IndInv, TypeOK
  <2> QED  BY <1>0, <1>1, <1>2, <2>2, <2>3 DEF IndInv, TypeOK
<1>5. RowsAreNamed'
  BY <1>1, <1>2, <1>3 DEF RowsAreNamed
<1> QED
  BY <1>0, <1>1, <1>2, <1>3, <1>4, <1>5, RequestsStillFit, KeysStayOwn DEF Fits

\* A revocation writes a time, which is never null, to the row it had found.
LEMMA RevokedInd ==
  ASSUME IndInv, NEW r \in Requests, NEW s, Moves(r, s), Ends(r, s),
         At(r, "update"), req[r].row \in DOMAIN rows, rows' = Revoked(r),
         UNCHANGED <<projects, drawn, now>>
  PROVE  IndInv'
<1> PICK i \in DOMAIN rows : i = req[r].row
  OBVIOUS
<1>9. PICK row : row = [rows[i] EXCEPT !.revokedAt = req[r].at]
  OBVIOUS
<1>0. /\ Fits(req[r]) /\ req[r].op = "revoke" /\ ~At(r, "answered")
      /\ req[r].at # Never /\ req[r].at \in Times
      /\ rows[i].project = req[r].project
  BY AtWork
  DEF Fits, InLife, HasFields, At, RequestStates, IndInv, RevocationsFit, Concerns
<1>1. /\ s.pc = "answered" /\ s.op = req[r].op /\ s.row = req[r].row
      /\ s.project = req[r].project /\ s.key = req[r].key /\ s.at = req[r].at
      /\ s \in RequestStates /\ Carries(r, s) /\ req' = [req EXCEPT ![r] = s]
  BY DEF Ends, Moves, Fits
<1>2. /\ row \in Rows /\ row.project = rows[i].project /\ row.key = rows[i].key
      /\ row.revokedAt = req[r].at /\ row.lastUsedAt = rows[i].lastUsedAt
  <2>1. rows[i] \in Rows
    BY DEF IndInv, TypeOK
  <2> QED  BY <1>0, <1>9, <2>1 DEF Rows
<1>3. Writes(i, row)
  BY <1>2, <1>9 DEF Revoked, Writes
<1>4. /\ TypeOK' /\ now' # Never /\ RequestsFit' /\ KeysAreOwn' /\ RowsAreNamed'
      /\ req'[r] = s /\ \A q \in Requests : q # r => req'[q] = req[q]
      /\ DOMAIN rows' = DOMAIN rows /\ rows'[i] = row
      /\ \A j \in DOMAIN rows : /\ j # i => rows'[j] = rows[j]
                                /\ j \in Requests /\ Named(j) /\ req'[j].key = req[j].key
  BY <1>3, WrittenInd
<1>5. RevocationsFit'
  <2> SUFFICES ASSUME NEW q \in Requests PROVE Concerns(req[q])'
    BY DEF RevocationsFit
  <2>1. CASE q = r
    BY <1>0, <1>1, <1>2, <1>4, <2>1 DEF Concerns
  <2>2. CASE q # r
    <3>1. req'[q] = req[q] /\ Concerns(req[q])
      BY <1>4, <2>2 DEF IndInv, RevocationsFit
    <3> QED  BY <1>0, <1>2, <1>4, <3>1 DEF Concerns
  <2> QED  BY <2>1, <2>2
<1>6. \A j \in DOMAIN rows : rows'[j].lastUsedAt = rows[j].lastUsedAt
  BY <1>2, <1>4
<1>7. UsageIsTracked'
  BY <1>0, <1>1, <1>4, <1>6 DEF IndInv, UsageIsTracked, Presents, Validating
<1> QED  BY <1>4, <1>5, <1>7 DEF IndInv

\* A validation writes the time of its match to the row of its key.
LEMMA TouchedInd ==
  ASSUME IndInv, NEW r \in Requests, NEW s, Moves(r, s), Ends(r, s),
         At(r, "touch"), req[r].row \in DOMAIN rows, rows' = Touched(r),
         UNCHANGED <<projects, drawn, now>>
  PROVE  IndInv'
<1> PICK i \in DOMAIN rows : i = req[r].row
  OBVIOUS
<1>9. PICK row : row = [rows[i] EXCEPT !.lastUsedAt = req[r].at]
  OBVIOUS
<1>0. /\ Fits(req[r]) /\ req[r].op = "validate" /\ ~At(r, "answered")
      /\ req[r].at # Never /\ req[r].at \in Times
      /\ req[r].key = req[i].key /\ req[r].key # NoKey
  BY AtWork, ApiKeysAssumption
  DEF Fits, InLife, HasFields, KnowsRow, Holding, Proven, At, RequestStates
<1>1. /\ s.pc = "answered" /\ s.op = req[r].op /\ s.row = req[r].row
      /\ s.project = req[r].project /\ s.key = req[r].key /\ s.at = req[r].at
      /\ s \in RequestStates /\ Carries(r, s) /\ req' = [req EXCEPT ![r] = s]
  BY DEF Ends, Moves, Fits
<1>2. /\ row \in Rows /\ row.project = rows[i].project /\ row.key = rows[i].key
      /\ row.revokedAt = rows[i].revokedAt /\ row.lastUsedAt = req[r].at
  <2>1. rows[i] \in Rows
    BY DEF IndInv, TypeOK
  <2> QED  BY <1>0, <1>9, <2>1 DEF Rows
<1>3. Writes(i, row)
  BY <1>2, <1>9 DEF Touched, Writes
<1>4. /\ TypeOK' /\ now' # Never /\ RequestsFit' /\ KeysAreOwn' /\ RowsAreNamed'
      /\ req'[r] = s /\ \A q \in Requests : q # r => req'[q] = req[q]
      /\ DOMAIN rows' = DOMAIN rows /\ rows'[i] = row
      /\ \A j \in DOMAIN rows : /\ j # i => rows'[j] = rows[j]
                                /\ j \in Requests /\ Named(j) /\ req'[j].key = req[j].key
  BY <1>3, WrittenInd
<1>5. RevocationsFit'
  <2> SUFFICES ASSUME NEW q \in Requests PROVE Concerns(req[q])'
    BY DEF RevocationsFit
  <2>1. CASE q = r
    BY <1>0, <1>1, <1>4, <2>1 DEF Concerns
  <2>2. CASE q # r
    <3>1. req'[q] = req[q] /\ Concerns(req[q])
      BY <1>4, <2>2 DEF IndInv, RevocationsFit
    <3> QED  BY <1>2, <1>4, <3>1 DEF Concerns
  <2> QED  BY <2>1, <2>2
<1>6. Presents(r, i)' /\ req'[r].at = row.lastUsedAt
  BY <1>0, <1>1, <1>2, <1>4 DEF Presents, Validating
<1>7. UsageIsTracked'
  <2> SUFFICES ASSUME NEW j \in DOMAIN rows
               PROVE  /\ (\E q \in Requests : Presents(q, j)' /\ req'[q].status = 200)
                           => rows'[j].lastUsedAt # Never
                      /\ rows'[j].lastUsedAt # Never
                           => \E q \in Requests :
                                Presents(q, j)' /\ req'[q].at = rows'[j].lastUsedAt
    BY <1>4 DEF UsageIsTracked
  <2>1. CASE j = i
    <3>1. rows'[j].lastUsedAt = req[r].at /\ Presents(r, j)' /\ req'[r].at = req[r].at
      BY <1>2, <1>4, <1>6, <2>1
    <3> QED  BY <1>0, <3>1
  <2>2. CASE j # i
    <3>1. rows'[j] = rows[j]
      BY <1>4, <2>2
    <3>2. ASSUME NEW q \in Requests, Presents(q, j)', req'[q].status = 200
          PROVE  rows[j].lastUsedAt # Never
      <4>1. q # r
        BY <1>1, <1>4, <2>2, <3>2 DEF Presents
      <4>2. Presents(q, j) /\ req[q].status = 200
        BY <1>4, <3>2, <4>1 DEF Presents, Validating
      <4> QED  BY <4>2 DEF IndInv, UsageIsTracked
    <3>3. ASSUME rows[j].lastUsedAt # Never
          PROVE  \E q \in Requests : Presents(q, j)' /\ req'[q].at = rows[j].lastUsedAt
      <4>1. PICK q \in Requests : Presents(q, j) /\ req[q].at = rows[j].lastUsedAt
        BY <3>3 DEF IndInv, UsageIsTracked
      <4>2. s \in RequestStates /\ req[q].at # Never /\ j \in Requests /\ Named(j)
        BY <1>1, <1>4, <3>3, <4>1 DEF Fits
      <4>3. Presents(q, j)' /\ req'[q].at = req[q].at
        BY <1>1, <4>1, <4>2, UseStays
      <4> QED  BY <4>1, <4>3
    <3> QED  BY <3>1, <3>2, <3>3
  <2> QED  BY <2>1, <2>2
<1> QED  BY <1>4, <1>5, <1>7 DEF IndInv

\* A revocation that finds its key revoked is done, one that does not will write.
LEMMA FindInd ==
  ASSUME IndInv, NEW r \in Requests, FindApiKey(r)
  PROVE  IndInv'
<1>1. /\ At(r, "find") /\ ~At(r, "answered") /\ UNCHANGED <<rows, projects, drawn, now>>
      /\ Fits(req[r]) /\ req[r].op = "revoke" /\ req[r].status = 0
      /\ drawn \subseteq drawn' /\ drawn' \subseteq Drawable
  BY AtWork DEF FindApiKey, Fits, InLife, At, IndInv, TypeOK
<1>2. CASE ~OwnRow(r)
  <2>1. Answer(r, 404)
    BY <1>2 DEF FindApiKey
  <2> QED  BY <1>1, <2>1, PlainAnswer
<1>3. CASE OwnRow(r) /\ rows[req[r].row].revokedAt # Never
  <2>1. Answer(r, 204)
    BY <1>3 DEF FindApiKey
  <2>2. PICK s : Moves(r, s) /\ Ends(r, s) /\ s.status = 204
    BY <1>1, <2>1, AnswerFits
  <2>3. s.status # 200 /\ Concerns(s)
    BY <1>3, <2>2 DEF Concerns, Ends, OwnRow
  <2> QED  BY <1>1, <2>2, <2>3, NoRowIsWritten
<1>4. CASE OwnRow(r) /\ rows[req[r].row].revokedAt = Never
  <2>1. req' = [req EXCEPT ![r].pc = "update", ![r].at = now]
    BY <1>4 DEF FindApiKey
  <2> DEFINE s == [req[r] EXCEPT !.pc = "update", !.at = now]
  <2>2. req \in [Requests -> RequestStates] /\ req[r] \in RequestStates
        /\ now \in Times /\ now # Never
    BY DEF IndInv, TypeOK
  <2>3. req' = [req EXCEPT ![r] = s]
    BY <2>1, <2>2
  <2>4. /\ s \in RequestStates /\ s.pc = "update" /\ s.op = "revoke" /\ s.row = req[r].row
        /\ s.project = req[r].project /\ s.at = now /\ s.status = 0
    BY <1>1, <2>2 DEF RequestStates, Stages
  <2> HIDE DEF s
  <2>5. Fits(s)
    BY <1>1, <2>2, <2>4 DEF Fits, InLife, HasFields, KnowsRow, Holding, Proven
  <2>6. Moves(r, s) /\ s.status # 200 /\ Concerns(s)
    BY <1>1, <1>4, <2>3, <2>4, <2>5 DEF Moves, Carries, Owns, Concerns, OwnRow
  <2> QED  BY <1>1, <2>6, NoRowIsWritten
<1> QED  BY <1>2, <1>3, <1>4

\* A revocation writes its time, or finds the row gone.
LEMMA UpdateRevokedAtInd ==
  ASSUME IndInv, NEW r \in Requests, UpdateRevokedAt(r)
  PROVE  IndInv'
<1>1. /\ At(r, "update") /\ ~At(r, "answered") /\ UNCHANGED <<projects, drawn, now>>
      /\ req[r].op = "revoke"
      /\ drawn \subseteq drawn' /\ drawn' \subseteq Drawable
  BY AtWork DEF UpdateRevokedAt, Fits, InLife, At, IndInv, TypeOK
<1>2. CASE req[r].row \in DOMAIN rows
  <2>1. Answer(r, 204) /\ rows' = Revoked(r)
    BY <1>2 DEF UpdateRevokedAt
  <2>2. PICK s : Moves(r, s) /\ Ends(r, s)
    BY <1>1, <2>1, AnswerFits
  <2> QED  BY <1>1, <1>2, <2>1, <2>2, RevokedInd
<1>3. CASE req[r].row \notin DOMAIN rows
  <2>1. Answer(r, 500) /\ rows' = rows
    BY <1>3 DEF UpdateRevokedAt
  <2> QED  BY <1>1, <2>1, PlainAnswer
<1> QED  BY <1>2, <1>3

\* An element of a set that has one.
LEMMA OnlyIsMember == ASSUME NEW S, S # {} PROVE Only(S) \in S
BY DEF Only

\* The row a validation reads is in the table, under the prefix of its key.
LEMMA LookUpInd ==
  ASSUME IndInv, NEW r \in Requests, LookUp(r)
  PROVE  IndInv'
<1> DEFINE found == {i \in RowsWith(PrefixOf(req[r].key)) : Usable(i)}
<1>1. /\ At(r, "lookup") /\ ~At(r, "answered") /\ UNCHANGED <<rows, projects, drawn, now>>
      /\ Fits(req[r]) /\ req[r].op = "validate" /\ req[r].status = 0
      /\ drawn \subseteq drawn' /\ drawn' \subseteq Drawable
  <2>1. At(r, "lookup") /\ UNCHANGED <<rows, projects, drawn, now>>
    BY Zenon DEF LookUp
  <2> QED  BY <2>1, AtWork DEF Fits, InLife, At, IndInv, TypeOK
<1>2. CASE found = {}
  <2>1. Answer(r, 401)
    BY <1>2 DEF LookUp
  <2> QED  BY <1>1, <2>1, PlainAnswer
<1>3. CASE found # {}
  <2>1. PICK i \in found :
          req' = [req EXCEPT ![r].pc = "compare", ![r].row = i,
                             ![r].project = rows[i].project]
    BY <1>3, OnlyIsMember DEF LookUp
  <2> DEFINE s == [req[r] EXCEPT !.pc = "compare", !.row = i, !.project = rows[i].project]
  <2>2. /\ req \in [Requests -> RequestStates] /\ req[r] \in RequestStates
        /\ i \in Requests /\ rows[i].project \in Projects /\ Named(i)
    BY DEF RowsWith, IndInv, TypeOK, Rows, RowsAreNamed
  <2>3. req' = [req EXCEPT ![r] = s]
    BY <2>1, <2>2
  <2>4. /\ s \in RequestStates /\ s.pc = "compare" /\ s.op = "validate" /\ s.row = i
        /\ s.key = req[r].key /\ s.project = rows[i].project
        /\ s.at = req[r].at /\ s.status = 0
    BY <1>1, <2>2 DEF RequestStates, Stages
  <2> HIDE DEF s, found
  <2>5. req[r].at = Never /\ req[r].key \in Strings
    BY <1>1 DEF Fits, HasFields, At
  <2>6. Fits(s)
    BY <1>1, <2>2, <2>4, <2>5 DEF Fits, InLife, HasFields, KnowsRow, Holding, Proven
  <2>7. Moves(r, s) /\ s.status # 200 /\ Concerns(s)
    BY <1>1, <2>3, <2>4, <2>5, <2>6 DEF Moves, Carries, Owns, Concerns
  <2> QED  BY <1>1, <2>7, NoRowIsWritten
<1> QED  BY <1>2, <1>3

\* A validation whose key matches has the key of the row it read.
LEMMA CompareInd ==
  ASSUME IndInv, NEW r \in Requests, Compare(r)
  PROVE  IndInv'
<1>1. /\ At(r, "compare") /\ ~At(r, "answered") /\ UNCHANGED <<rows, projects, drawn, now>>
      /\ Fits(req[r]) /\ req[r].op = "validate" /\ req[r].status = 0
      /\ drawn \subseteq drawn' /\ drawn' \subseteq Drawable
  BY AtWork DEF Compare, Fits, InLife, At, IndInv, TypeOK
<1>2. CASE ~Matches(r)
  <2>1. Answer(r, 401)
    BY <1>2 DEF Compare
  <2> QED  BY <1>1, <2>1, PlainAnswer
<1>3. CASE Matches(r)
  <2>1. req' = [req EXCEPT ![r].pc = "touch", ![r].at = now]
    BY <1>3 DEF Compare
  <2> DEFINE s == [req[r] EXCEPT !.pc = "touch", !.at = now]
  <2>2. req \in [Requests -> RequestStates] /\ req[r] \in RequestStates
        /\ now \in Times /\ now # Never
    BY DEF IndInv, TypeOK
  <2>3. req' = [req EXCEPT ![r] = s]
    BY <2>1, <2>2
  <2>4. /\ s \in RequestStates /\ s.pc = "touch" /\ s.op = "validate" /\ s.row = req[r].row
        /\ s.project = req[r].project /\ s.key = req[r].key /\ s.at = now /\ s.status = 0
    BY <1>1, <2>2 DEF RequestStates, Stages
  <2> HIDE DEF s
  <2>5. req[r].at = Never
    BY <1>1 DEF Fits, HasFields, At
  <2>6. Fits(s)
    BY <1>1, <1>3, <2>2, <2>4
    DEF Fits, InLife, HasFields, KnowsRow, Holding, Proven, Matches, At
  <2>7. Moves(r, s) /\ s.status # 200 /\ Concerns(s)
    BY <1>1, <2>3, <2>4, <2>5, <2>6 DEF Moves, Carries, Owns, Concerns
  <2> QED  BY <1>1, <2>7, NoRowIsWritten
<1> QED  BY <1>2, <1>3

\* A validation writes its time, or finds the row gone.
LEMMA UpdateLastUsedAtInd ==
  ASSUME IndInv, NEW r \in Requests, UpdateLastUsedAt(r)
  PROVE  IndInv'
<1>1. /\ At(r, "touch") /\ ~At(r, "answered") /\ UNCHANGED <<projects, drawn, now>>
      /\ req[r].op = "validate"
      /\ drawn \subseteq drawn' /\ drawn' \subseteq Drawable
  BY AtWork DEF UpdateLastUsedAt, Fits, InLife, At, IndInv, TypeOK
<1>2. CASE req[r].row \in DOMAIN rows
  <2>1. Answer(r, 200) /\ rows' = Touched(r)
    BY <1>2 DEF UpdateLastUsedAt
  <2>2. PICK s : Moves(r, s) /\ Ends(r, s)
    BY <1>1, <2>1, AnswerFits
  <2> QED  BY <1>1, <1>2, <2>1, <2>2, TouchedInd
<1>3. CASE req[r].row \notin DOMAIN rows
  <2>1. Answer(r, 500) /\ rows' = rows
    BY <1>3 DEF UpdateLastUsedAt
  <2> QED  BY <1>1, <2>1, PlainAnswer
<1> QED  BY <1>2, <1>3

\* A query fails, with its effect or without.
LEMMA QueryFailsInd ==
  ASSUME IndInv, NEW r \in Requests, QueryFails(r)
  PROVE  IndInv'
<1>1. /\ ~At(r, "answered") /\ UNCHANGED <<projects, drawn, now>> /\ Answer(r, 500)
      /\ req[r].op \in {"create", "revoke", "validate"}
      /\ drawn \subseteq drawn' /\ drawn' \subseteq Drawable
  BY AtWork DEF QueryFails, Fits, InLife, At, IndInv, TypeOK
<1>2. PICK s : Moves(r, s) /\ Ends(r, s)
  BY <1>1, AnswerFits
<1>3. CASE rows' = rows
  BY <1>1, <1>3, PlainAnswer
<1>4. CASE At(r, "insert") /\ ~RefusesInsert(r) /\ rows' = Inserted(r)
  BY <1>1, <1>2, <1>4, InsertedInd
<1>5. CASE At(r, "update") /\ req[r].row \in DOMAIN rows /\ rows' = Revoked(r)
  BY <1>1, <1>2, <1>5, RevokedInd
<1>6. CASE At(r, "touch") /\ req[r].row \in DOMAIN rows /\ rows' = Touched(r)
  BY <1>1, <1>2, <1>6, TouchedInd
<1> QED  BY <1>3, <1>4, <1>5, <1>6 DEF QueryFails

\* Nothing happens.
LEMMA StutterInd == ASSUME IndInv, UNCHANGED vars PROVE IndInv'
<1>1. UNCHANGED <<rows, projects, drawn, now, req>>
  BY DEF vars
<1> QED
  BY <1>1
  DEF IndInv, TypeOK, RequestsFit, Fits, InLife, HasFields, KnowsRow, Holding, Proven, Named,
      KeysAreOwn, RowsAreNamed, UsageIsTracked, Presents, Validating, RevocationsFit, Concerns

\* The invariant is inductive.
LEMMA NextInd == IndInv /\ [Next]_vars => IndInv'
<1>1. ASSUME IndInv, NEW r \in Requests, Step(r) PROVE IndInv'
  BY <1>1, StartInd, RoleInd, DrawInd, InsertInd, FindInd, UpdateRevokedAtInd, LookUpInd,
     CompareInd, UpdateLastUsedAtInd, QueryFailsInd DEF Step
<1> QED  BY <1>1, EnvironmentInd, StutterInd DEF Next

-----------------------------------------------------------------------------
(* The theorems. *)

\* The invariant holds in every reachable state.
THEOREM Invariance == Spec => []IndInv
BY InitInd, NextInd, PTL DEF Spec

\* Rows and requests keep their shape, and no two rows share a prefix.
THEOREM TypeCorrect == Spec => []TypeOK
<1>1. IndInv => TypeOK
  BY DEF IndInv
<1> QED  BY <1>1, Invariance, PTL

\* For any number of calls that overtake each other, a key's row shows a use just
\* when a call presented that very key.
THEOREM UseIsTracked == Spec => []UsageIsTracked
<1>1. IndInv => UsageIsTracked
  BY DEF IndInv
<1> QED  BY <1>1, Invariance, PTL

\* A revocation that was confirmed stays in force, whatever is written later.
THEOREM RevocationIsFinal == Spec => []RevocationHolds
<1>1. IndInv => RevocationHolds
  BY DEF IndInv, RevocationsFit, Concerns, RevocationHolds
<1> QED  BY <1>1, Invariance, PTL

-----------------------------------------------------------------------------
(* Refinement.  A call is decided when its row is read, although its key is *)
(* compared later: whether it will match is settled by then.                *)

\* Row i of table t makes key k live, and the project k is live for in t.
Holds(t, k, i) == i \in DOMAIN t /\ t[i].key = k /\ t[i].revokedAt = Never
HolderIn(t, k) ==
  LET live == {i \in DOMAIN t : Holds(t, k, i)}
  IN  IF live = {} THEN NoProject ELSE t[Only(live)].project

\* The mapped holders, in terms of the table.
LEMMA HolderBars ==
  /\ holderBar = [k \in Strings |-> HolderIn(rows, k)]
  /\ holderBar' = [k \in Strings |-> HolderIn(rows', k)]
<1>1. \A k : Live(k) = {i \in DOMAIN rows : Holds(rows, k, i)}
  BY DEF Live, Holds
<1>2. \A k : Live(k)' = {i \in DOMAIN rows' : Holds(rows', k, i)}
  BY DEF Live, Holds
<1> QED  BY <1>1, <1>2 DEF holderBar, HolderIn

\* No key is in two rows.
OneRow(t) == \A i, j \in DOMAIN t : t[i].key = t[j].key => i = j

\* It is so in every state, since prefixes are unique.
LEMMA KeysHaveOneRow ==
  /\ IndInv => OneRow(rows)
  /\ IndInv' => OneRow(rows')
<1>1. IndInv => OneRow(rows)
  BY DEF IndInv, TypeOK, OneRow
<1>2. IndInv' => OneRow(rows')
  BY DEF IndInv, TypeOK, OneRow
<1> QED  BY <1>1, <1>2

\* The project of the live row, or none.
LEMMA HolderFacts ==
  ASSUME NEW t, OneRow(t), NEW k
  PROVE  /\ \A i : Holds(t, k, i) => HolderIn(t, k) = t[i].project
         /\ (\A i : ~Holds(t, k, i)) => HolderIn(t, k) = NoProject
<1> DEFINE live == {i \in DOMAIN t : Holds(t, k, i)}
<1>1. ASSUME NEW i, Holds(t, k, i) PROVE HolderIn(t, k) = t[i].project
  <2>1. live = {i}
    BY <1>1 DEF Holds, OneRow
  <2>2. Only(live) = i
    BY <2>1, OnlyIsMember
  <2> QED  BY <2>1, <2>2 DEF HolderIn
<1>2. (\A i : ~Holds(t, k, i)) => HolderIn(t, k) = NoProject
  BY DEF HolderIn
<1> QED  BY <1>1, <1>2

\* A key with the same live rows, of the same projects, keeps its holder.
LEMMA SameHolder ==
  ASSUME NEW t, NEW u, OneRow(t), OneRow(u), NEW k,
         \A i : Holds(t, k, i) <=> Holds(u, k, i),
         \A i : Holds(t, k, i) => u[i].project = t[i].project
  PROVE  HolderIn(u, k) = HolderIn(t, k)
<1>1. CASE \E i : Holds(t, k, i)
  BY <1>1, HolderFacts
<1>2. CASE \A i : ~Holds(t, k, i)
  BY <1>2, HolderFacts
<1> QED  BY <1>1, <1>2

\* No holder changes with the times of last use.
LEMMA HoldersStay ==
  ASSUME IndInv, IndInv', DOMAIN rows' = DOMAIN rows,
         \A i \in DOMAIN rows : /\ rows'[i].key = rows[i].key
                                /\ rows'[i].project = rows[i].project
                                /\ rows'[i].revokedAt = rows[i].revokedAt
  PROVE  holderBar' = holderBar
<1>1. OneRow(rows) /\ OneRow(rows')
  BY KeysHaveOneRow
<1>2. ASSUME NEW k \in Strings PROVE HolderIn(rows', k) = HolderIn(rows, k)
  <2>1. /\ \A i : Holds(rows, k, i) <=> Holds(rows', k, i)
        /\ \A i : Holds(rows, k, i) => rows'[i].project = rows[i].project
    BY DEF Holds
  <2> QED  BY <1>1, <2>1, SameHolder
<1> QED  BY <1>2, HolderBars

\* The promise's view of a request in state s whose row was made for key k.
View(s, k) ==
  IF ~(s.op = "validate" /\ s.key # NoKey) THEN [pc |-> "idle"]
  ELSE CASE s.pc = "lookup" -> [pc |-> "asked", key |-> s.key]
         [] s.pc \in {"compare", "touch"} ->
              [pc |-> "decided", key |-> s.key,
               project |-> IF s.key = k THEN s.project ELSE NoProject]
         [] s.status = 200 -> [pc |-> "granted", key |-> s.key, project |-> s.project]
         [] s.status = 401 -> [pc |-> "refused", key |-> s.key]
         [] s.status = 500 -> [pc |-> "failed", key |-> s.key]

\* The mapped call of a request is the view of its state.
LEMMA CallIsView ==
  ASSUME NEW r \in Requests, InLife(req[r])
  PROVE  callBar[r] = View(req[r], req[req[r].row].key)
<1>1. CASE ~Validating(r)
  BY <1>1 DEF callBar, CallOf, View, Validating
<1>2. CASE Validating(r)
  <2>1. Presents(r, req[r].row) <=> req[r].key = req[req[r].row].key
    BY <1>2 DEF Presents
  <2>2. CASE At(r, "lookup")
    BY <1>2, <2>2 DEF callBar, CallOf, View, Validating, At
  <2>3. CASE req[r].pc \in {"compare", "touch"}
    BY <1>2, <2>1, <2>3 DEF callBar, CallOf, View, Validating, At
  <2>4. CASE At(r, "answered")
    BY <1>2, <2>4 DEF callBar, CallOf, View, Validating, At, InLife
  <2> QED  BY <1>2, <2>2, <2>3, <2>4 DEF Validating, InLife, At
<1> QED  BY <1>1, <1>2

\* The same after a step.
LEMMA CallIsViewNext ==
  ASSUME NEW r \in Requests, InLife(req'[r])
  PROVE  callBar'[r] = View(req'[r], req'[req'[r].row].key)
<1>1. CASE ~Validating(r)'
  BY <1>1 DEF callBar, CallOf, View, Validating
<1>2. CASE Validating(r)'
  <2>1. Presents(r, req[r].row)' <=> req'[r].key = req'[req'[r].row].key
    BY <1>2 DEF Presents
  <2>2. CASE At(r, "lookup")'
    BY <1>2, <2>2 DEF callBar, CallOf, View, Validating, At
  <2>3. CASE req'[r].pc \in {"compare", "touch"}
    BY <1>2, <2>1, <2>3 DEF callBar, CallOf, View, Validating, At
  <2>4. CASE At(r, "answered")'
    BY <1>2, <2>4 DEF callBar, CallOf, View, Validating, At, InLife
  <2> QED  BY <1>2, <2>2, <2>3, <2>4 DEF Validating, InLife, At
<1> QED  BY <1>1, <1>2

\* The views, one by one.
LEMMA Views ==
  ASSUME NEW s, InLife(s), NEW k
  PROVE  /\ s.op # "validate" \/ s.key = NoKey => View(s, k) = Authority!Idle
         /\ s.op = "validate" /\ s.key # NoKey =>
              /\ s.pc = "lookup" => View(s, k) = Authority!Asked(s.key)
              /\ s.pc \in {"compare", "touch"} =>
                   View(s, k) = Authority!Decided(s.key, IF s.key = k THEN s.project
                                                                     ELSE NoProject)
              /\ s.status = 200 => View(s, k) = Authority!Granted(s.key, s.project)
              /\ s.status = 401 => View(s, k) = Authority!Refused(s.key)
              /\ s.status = 500 => View(s, k) = Authority!Failed(s.key)
<1>1. s.op # "validate" \/ s.key = NoKey => View(s, k) = Authority!Idle
  BY DEF View, Authority!Idle
<1>2. CASE s.op = "validate" /\ s.key # NoKey
  <2>1. CASE s.pc = "lookup"
    BY <1>2, <2>1 DEF View, InLife, Authority!Asked
  <2>2. CASE s.pc \in {"compare", "touch"}
    BY <1>2, <2>2 DEF View, InLife, Authority!Decided
  <2>3. CASE s.pc = "answered"
    BY <1>2, <2>3 DEF View, InLife, Authority!Granted, Authority!Refused, Authority!Failed
  <2> QED  BY <1>2, <2>1, <2>2, <2>3 DEF InLife
<1> QED  BY <1>1, <1>2

\* Request r takes a step, alone.
Works(r) == /\ ~At(r, "answered")
            /\ req' \in [Requests -> RequestStates]
            /\ \A q \in Requests : q # r => req'[q] = req[q]

\* Of the calls, the step changes that of r only: the row another one read was made
\* by a creation that is over.
LEMMA CallMoves ==
  ASSUME IndInv, IndInv', NEW r \in Requests, Works(r)
  PROVE  callBar' = [callBar EXCEPT ![r] = View(req'[r], req[req'[r].row].key)]
<1>1. ASSUME NEW q \in Requests, q # r PROVE callBar'[q] = callBar[q]
  <2>1. req'[q] = req[q] /\ Fits(req[q]) /\ req[q].row \in Requests
    BY <1>1, AtWork DEF Works, RequestStates
  <2>2. CASE Holding(req[q])
    <3>1. Named(req[q].row)
      BY <2>1, <2>2 DEF Fits, KnowsRow
    <3>2. req'[req[q].row] = req[req[q].row]
      BY <2>1, <3>1 DEF Works, Named, At
    <3> QED  BY <2>1, <3>2, CallIsView, CallIsViewNext DEF Fits
  <2>3. CASE ~Holding(req[q])
    <3>1. \A k, m : View(req[q], k) = View(req[q], m)
      BY <2>3 DEF View, Holding
    <3> QED  BY <2>1, <3>1, CallIsView, CallIsViewNext DEF Fits
  <2> QED  BY <2>2, <2>3
<1>2. callBar'[r] = View(req'[r], req[req'[r].row].key)
  <2>1. PICK s : s = req'[r]
    OBVIOUS
  <2>2. s \in RequestStates /\ InLife(s) /\ (Holding(s) => Named(s.row)')
    BY <2>1 DEF IndInv, TypeOK, RequestsFit, Fits, KnowsRow
  <2>3. callBar'[r] = View(s, req'[s.row].key)
    BY <2>1, <2>2, CallIsViewNext
  <2>4. CASE Holding(s)
    <3>1. s.row # r /\ s.row \in Requests
      BY <2>1, <2>2, <2>4 DEF Named, Holding, RequestStates
    <3> QED  BY <2>1, <2>3, <3>1 DEF Works
  <2>5. CASE ~Holding(s)
    <3>1. \A k, m : View(s, k) = View(s, m)
      BY <2>5 DEF View, Holding
    <3> QED  BY <2>1, <2>3, <3>1
  <2> QED  BY <2>4, <2>5
<1>3. /\ callBar = [q \in Requests |-> callBar[q]]
      /\ callBar' = [q \in Requests |-> callBar'[q]]
  BY DEF callBar
<1> QED  BY <1>1, <1>2, <1>3

\* Creations and revocations are no calls.
LEMMA QuietCall ==
  ASSUME IndInv, IndInv', NEW r \in Requests, Works(r), ~Validating(r), ~Validating(r)'
  PROVE  callBar' = callBar
<1>1. callBar' = [callBar EXCEPT ![r] = View(req'[r], req[req'[r].row].key)]
  BY CallMoves
<1>2. View(req'[r], req[req'[r].row].key) = [pc |-> "idle"] /\ callBar[r] = [pc |-> "idle"]
  BY DEF View, Validating, callBar, CallOf
<1>3. callBar = [q \in Requests |-> callBar[q]]
  BY DEF callBar
<1> QED  BY <1>1, <1>2, <1>3

\* The keys whose insert is to come.
Pending == {req[r].key : r \in {q \in Requests : At(q, "insert")}}

\* What a request's step does to the keys that are as good as issued.
LEMMA IssuedKeys ==
  ASSUME IndInv, NEW r \in Requests, Works(r), drawn \subseteq drawn'
  PROVE  /\ ~At(r, "insert") /\ ~At(r, "insert")' => issuedBar' = issuedBar \cup (drawn' \ drawn)
         /\ At(r, "insert") /\ ~At(r, "insert")' /\ drawn' = drawn =>
              req[r].key \notin issuedBar /\ issuedBar' = issuedBar \cup {req[r].key}
         /\ ~At(r, "insert") /\ At(r, "insert")' /\ drawn' = drawn \cup {req'[r].key}
              /\ req'[r].key \notin drawn => issuedBar' = issuedBar
<1>1. issuedBar = drawn \ Pending /\ issuedBar' = drawn' \ Pending'
  BY DEF issuedBar, Pending
<1>2. \A k : k \in Pending <=> \E q \in Requests : At(q, "insert") /\ req[q].key = k
  BY DEF Pending
<1>3. \A k : k \in Pending' <=> \E q \in Requests : At(q, "insert")' /\ req'[q].key = k
  BY DEF Pending
<1>4. \A q \in Requests : q # r => (At(q, "insert")' <=> At(q, "insert")) /\ req'[q].key = req[q].key
  BY DEF Works, At
<1>5. \A q \in Requests : At(q, "insert") =>
        /\ req[q].op = "create" /\ req[q].key \in drawn /\ req[q].key # NoKey
  <2>1. ASSUME NEW q \in Requests, At(q, "insert")
        PROVE  req[q].op = "create" /\ req[q].key \in Drawable
    BY <2>1, AtWork DEF Fits, InLife, HasFields, At
  <2> QED  BY <2>1, ApiKeysAssumption DEF IndInv, KeysAreOwn, Strings
<1>6. \A q \in Requests : At(q, "insert") /\ At(r, "insert") /\ req[q].key = req[r].key => q = r
  BY <1>5 DEF IndInv, KeysAreOwn
<1>7. Pending \subseteq drawn
  BY <1>2, <1>5
<1>8. CASE ~At(r, "insert") /\ ~At(r, "insert")'
  <2>1. Pending' = Pending
    BY <1>2, <1>3, <1>4, <1>8
  <2> QED  BY <1>1, <1>7, <1>8, <2>1
<1>9. CASE At(r, "insert") /\ ~At(r, "insert")' /\ drawn' = drawn
  <2>1. Pending' = Pending \ {req[r].key}
    BY <1>2, <1>3, <1>4, <1>6, <1>9
  <2>2. req[r].key \in Pending /\ req[r].key \in drawn
    BY <1>2, <1>5, <1>9
  <2> QED  BY <1>1, <1>9, <2>1, <2>2
<1>10. CASE /\ ~At(r, "insert") /\ At(r, "insert")'
            /\ drawn' = drawn \cup {req'[r].key} /\ req'[r].key \notin drawn
  <2>1. Pending' = Pending \cup {req'[r].key}
    BY <1>2, <1>3, <1>4, <1>10
  <2> QED  BY <1>1, <1>10, <2>1
<1> QED  BY <1>8, <1>9, <1>10

-----------------------------------------------------------------------------
(* Every step is a step of the promise or none. *)

Quiet == UNCHANGED <<holderBar, issuedBar, callBar>>
Kept == Authority!Next \/ Quiet

\* At first no key is issued and nobody calls.
LEMMA InitRefines == Init => Authority!Init
<1> SUFFICES ASSUME Init PROVE Authority!Init
  OBVIOUS
<1>1. holderBar = [k \in Strings |-> NoProject]
  <2>1. \A k : Live(k) = {}
    BY DEF Init, Live
  <2> QED  BY <2>1 DEF holderBar
<1>2. issuedBar = {}
  BY DEF Init, issuedBar
<1>3. callBar = [r \in Requests |-> [pc |-> "idle"]]
  <2>1. \A r \in Requests : ~Validating(r)
    BY DEF Init, NewRequest, Validating
  <2> QED  BY <2>1 DEF callBar, CallOf
<1> QED  BY <1>1, <1>2, <1>3 DEF Authority!Init, Authority!Idle

\* A table that is left alone keeps its holders.
LEMMA SameRows == ASSUME rows' = rows PROVE holderBar' = holderBar
BY HolderBars

\* Time passes unseen; a project takes its live keys with it.
LEMMA EnvironmentKept ==
  ASSUME IndInv, IndInv', Tick \/ \E p \in Projects : DeleteProject(p)
  PROVE  Kept
<1>1. CASE Tick
  BY <1>1, SameRows DEF Tick, Kept, Quiet, issuedBar, callBar, CallOf, Validating, Presents, At
<1>2. ASSUME NEW p \in Projects, DeleteProject(p) PROVE Kept
  <2>1. /\ rows' = [i \in {j \in DOMAIN rows : rows[j].project # p} |-> rows[i]]
        /\ drawn' = drawn /\ req' = req
    BY <1>2 DEF DeleteProject
  <2>2. PICK ks \in SUBSET Strings :
          \A k : k \in ks <=> k \in Strings /\ \E i : Holds(rows, k, i) /\ rows[i].project = p
    <3> WITNESS {k \in Strings : \E i : Holds(rows, k, i) /\ rows[i].project = p}
                  \in SUBSET Strings
    <3> QED  OBVIOUS
  <2>3. OneRow(rows) /\ OneRow(rows')
    BY KeysHaveOneRow
  <2>4. \A k, i : Holds(rows', k, i) <=> Holds(rows, k, i) /\ rows[i].project # p
    BY <2>1 DEF Holds
  <2>5. ASSUME NEW k \in ks PROVE HolderIn(rows', k) = NoProject
    <3>1. \A i : ~Holds(rows', k, i)
      BY <2>2, <2>3, <2>4, <2>5 DEF Holds, OneRow
    <3> QED  BY <2>3, <3>1, HolderFacts
  <2>6. ASSUME NEW k \in Strings, k \notin ks PROVE HolderIn(rows', k) = HolderIn(rows, k)
    <3>1. \A i : Holds(rows, k, i) <=> Holds(rows', k, i)
      BY <2>2, <2>4, <2>6
    <3>2. \A i : Holds(rows, k, i) => rows'[i].project = rows[i].project
      BY <2>1, <3>1 DEF Holds
    <3> QED  BY <2>3, <3>1, <3>2, SameHolder
  <2>7. holderBar' = [k \in Strings |-> IF k \in ks THEN NoProject ELSE holderBar[k]]
    BY <2>5, <2>6, HolderBars
  <2>8. issuedBar' = issuedBar /\ callBar' = callBar
    BY <2>1 DEF issuedBar, callBar, CallOf, Validating, Presents, At
  <2>9. Authority!End(ks)
    BY <2>7, <2>8 DEF Authority!End
  <2> QED  BY <2>9 DEF Kept, Authority!Next
<1> QED  BY <1>1, <1>2

\* A step that answers.
LEMMA AnswerWorks ==
  ASSUME IndInv, IndInv', NEW r \in Requests, ~At(r, "answered"), NEW status,
         Answer(r, status)
  PROVE  /\ Works(r) /\ At(r, "answered")' /\ req'[r].status = status
         /\ req'[r].op = req[r].op /\ req'[r].key = req[r].key
         /\ req'[r].row = req[r].row /\ req'[r].project = req[r].project
<1>1. req \in [Requests -> RequestStates] /\ req' \in [Requests -> RequestStates]
  BY DEF IndInv, TypeOK
<1>2. PICK s : s = Answered(req[r], status)
  OBVIOUS
<1>3. req' = [req EXCEPT ![r] = s]
  BY <1>1, <1>2, AnswerIsMove
<1>4. /\ req[r] \in RequestStates /\ s.pc = "answered" /\ s.status = status
      /\ s.op = req[r].op /\ s.key = req[r].key
      /\ s.row = req[r].row /\ s.project = req[r].project
  BY <1>1, <1>2 DEF Answered, RequestStates
<1> QED  BY <1>1, <1>3, <1>4 DEF Works, At

\* The steps of creations and revocations that write nothing.
LEMMA StartAndRoleKept ==
  ASSUME IndInv, IndInv', NEW r \in Requests,
         CreateApiKey(r) \/ RevokeApiKey(r) \/ RequireProjectRole(r) \/ FindApiKey(r)
  PROVE  Kept
<1>1. UNCHANGED <<rows, projects, drawn, now>>
  BY DEF CreateApiKey, RevokeApiKey, RequireProjectRole, FindApiKey
<1>2. /\ Works(r) /\ ~At(r, "insert") /\ ~At(r, "insert")'
      /\ ~Validating(r) /\ ~Validating(r)'
  <2>1. req \in [Requests -> RequestStates] /\ req' \in [Requests -> RequestStates]
        /\ req[r] \in RequestStates /\ Fits(req[r])
    BY DEF IndInv, TypeOK, RequestsFit
  <2>2. CASE CreateApiKey(r) \/ RevokeApiKey(r)
    <3>1. /\ At(r, "new") /\ req[r].op = "none" /\ \A q \in Requests : q # r => req'[q] = req[q]
          /\ req'[r].pc = "role" /\ req'[r].op # "validate"
      <4>1. CASE CreateApiKey(r)
        <5>1. At(r, "new") /\ req[r].op = "none"
          <6>1. At(r, "new")
            BY <4>1 DEF CreateApiKey
          <6> QED  BY <2>1, <6>1 DEF At, Fits, InLife
        <5>2. PICK p \in Projects :
                req' = [req EXCEPT ![r].pc = "role", ![r].op = "create", ![r].project = p]
          BY <4>1 DEF CreateApiKey
        <5> QED  BY <2>1, <5>1, <5>2 DEF RequestStates
      <4>2. CASE RevokeApiKey(r)
        <5>1. At(r, "new") /\ req[r].op = "none"
          <6>1. At(r, "new")
            BY <4>2 DEF RevokeApiKey
          <6> QED  BY <2>1, <6>1 DEF At, Fits, InLife
        <5>2. PICK p \in Projects, i \in DOMAIN rows :
                req' = [req EXCEPT ![r].pc = "role", ![r].op = "revoke", ![r].project = p,
                                   ![r].row = i]
          BY <4>2 DEF RevokeApiKey
        <5> QED  BY <2>1, <5>1, <5>2 DEF RequestStates
      <4> QED  BY <2>2, <4>1, <4>2
    <3> QED  BY <2>1, <3>1 DEF Works, At, Validating
  <2>3. CASE RequireProjectRole(r) \/ FindApiKey(r)
    BY <2>1, <2>3 DEF RequireProjectRole, FindApiKey, Works, At, Go, Answer, Validating, Fits,
                      InLife, RequestStates
  <2> QED  BY <2>2, <2>3
<1>3. holderBar' = holderBar
  BY <1>1, SameRows
<1>4. issuedBar' = issuedBar
  BY <1>1, <1>2, IssuedKeys
<1>5. callBar' = callBar
  BY <1>2, QuietCall
<1> QED  BY <1>3, <1>4, <1>5 DEF Kept, Quiet

\* A key that is drawn is on its way to be issued, or wasted.
LEMMA DrawKept ==
  ASSUME IndInv, IndInv', NEW r \in Requests, DrawApiKey(r)
  PROVE  Kept
<1>1. At(r, "draw") /\ rows' = rows /\ Fits(req[r]) /\ req[r].op = "create"
  BY AtWork DEF DrawApiKey, Fits, InLife, At
<1>2. PICK k \in Drawable \ drawn :
        /\ drawn' = drawn \cup {k}
        /\ \/ req' = [req EXCEPT ![r].pc = "insert", ![r].key = k]
           \/ req' = [req EXCEPT ![r].tries = @ + 1]
           \/ Answer(r, 503)
  BY DEF DrawApiKey
<1>3. /\ Works(r) /\ ~Validating(r) /\ ~Validating(r)'
      /\ \/ At(r, "insert")' /\ req'[r].key = k
         \/ ~At(r, "insert")'
  <2>1. req \in [Requests -> RequestStates] /\ req' \in [Requests -> RequestStates]
    BY DEF IndInv, TypeOK
  <2>2. CASE req' = [req EXCEPT ![r].pc = "insert", ![r].key = k]
    BY <1>1, <2>1, <2>2 DEF Works, At, Validating, RequestStates
  <2>3. CASE req' = [req EXCEPT ![r].tries = @ + 1]
    BY <1>1, <2>1, <2>3 DEF Works, At, Validating, RequestStates
  <2>4. CASE Answer(r, 503)
    BY <1>1, <2>4, AnswerWorks DEF At, Validating
  <2> QED  BY <1>2, <2>2, <2>3, <2>4
<1>4. holderBar' = holderBar /\ callBar' = callBar
  BY <1>1, <1>3, SameRows, QuietCall
<1>5. ~At(r, "insert") /\ drawn \subseteq drawn'
  BY <1>1, <1>2 DEF At
<1>6. issuedBar' = issuedBar \/ issuedBar' = issuedBar \cup {k}
  <2>1. CASE At(r, "insert")' /\ req'[r].key = k
    BY <1>2, <1>3, <1>5, <2>1, IssuedKeys
  <2>2. CASE ~At(r, "insert")'
    <3>1. issuedBar' = issuedBar \cup (drawn' \ drawn)
      BY <1>3, <1>5, <2>2, IssuedKeys
    <3> QED  BY <1>2, <3>1
  <2> QED  BY <1>3, <2>1, <2>2
<1>7. Authority!Waste(k) \/ Quiet
  BY <1>4, <1>6 DEF Authority!Waste, Quiet
<1> QED  BY <1>2, <1>7 DEF Kept, Authority!Next, Strings

\* What an insert does to the holders.
LEMMA InsertedKept ==
  ASSUME IndInv, IndInv', NEW r \in Requests, At(r, "insert"), rows' = Inserted(r)
  PROVE  holderBar' = [holderBar EXCEPT ![req[r].key] = req[r].project]
<1>1. req[r].key \in Strings /\ r \notin DOMAIN rows
  BY AtWork DEF Fits, HasFields, Strings, IndInv, RowsAreNamed, Named, At
<1>2. OneRow(rows) /\ OneRow(rows')
  BY KeysHaveOneRow
<1>3. /\ DOMAIN rows' = DOMAIN rows \cup {r} /\ rows'[r] = NewRow(r)
      /\ \A i \in DOMAIN rows : rows'[i] = rows[i]
  BY <1>1 DEF Inserted
<1>4. HolderIn(rows', req[r].key) = req[r].project
  <2>1. Holds(rows', req[r].key, r) /\ rows'[r].project = req[r].project
    BY <1>3 DEF Holds, NewRow
  <2> QED  BY <1>2, <2>1, HolderFacts
<1>5. ASSUME NEW k \in Strings, k # req[r].key
      PROVE  HolderIn(rows', k) = HolderIn(rows, k)
  <2>1. \A i : Holds(rows, k, i) <=> Holds(rows', k, i)
    BY <1>1, <1>3, <1>5 DEF Holds, NewRow
  <2>2. \A i : Holds(rows, k, i) => rows'[i].project = rows[i].project
    BY <1>3 DEF Holds
  <2> QED  BY <1>2, <2>1, <2>2, SameHolder
<1> QED  BY <1>1, <1>4, <1>5, HolderBars

\* An insert, however it is answered, issues the key or wastes it.
LEMMA InsertKept ==
  ASSUME IndInv, IndInv', NEW r \in Requests, At(r, "insert"), NEW status, Answer(r, status),
         drawn' = drawn, rows' = rows \/ rows' = Inserted(r)
  PROVE  Kept
<1>1. Fits(req[r]) /\ req[r].op = "create" /\ ~At(r, "answered")
      /\ req[r].key \in Strings /\ req[r].project \in Projects
  BY AtWork DEF Fits, InLife, HasFields, Strings, At
<1>2. Works(r) /\ ~At(r, "insert")' /\ req'[r].op = "create"
  BY <1>1, AnswerWorks DEF At
<1>3. callBar' = callBar
  BY <1>1, <1>2, QuietCall DEF Validating
<1>4. req[r].key \notin issuedBar /\ issuedBar' = issuedBar \cup {req[r].key}
  BY <1>2, IssuedKeys
<1>5. CASE rows' = rows
  <2>1. Authority!Waste(req[r].key)
    BY <1>3, <1>4, <1>5, SameRows DEF Authority!Waste
  <2> QED  BY <1>1, <2>1 DEF Kept, Authority!Next
<1>6. CASE rows' = Inserted(r)
  <2>1. Authority!Issue(req[r].key, req[r].project)
    BY <1>3, <1>4, <1>6, InsertedKept DEF Authority!Issue
  <2> QED  BY <1>1, <2>1 DEF Kept, Authority!Next
<1> QED  BY <1>5, <1>6

\* A revocation's write ends the key of its row.
LEMMA UpdateKept ==
  ASSUME IndInv, IndInv', NEW r \in Requests, At(r, "update"), NEW status, Answer(r, status),
         drawn' = drawn,
         \/ rows' = rows
         \/ req[r].row \in DOMAIN rows /\ rows' = Revoked(r)
  PROVE  Kept
<1>1. Fits(req[r]) /\ req[r].op = "revoke" /\ ~At(r, "answered") /\ req[r].at # Never
  BY AtWork DEF Fits, InLife, HasFields, At
<1>2. Works(r) /\ ~At(r, "insert") /\ ~At(r, "insert")' /\ req'[r].op = "revoke"
  BY <1>1, AnswerWorks DEF At
<1>3. callBar' = callBar
  BY <1>1, <1>2, QuietCall DEF Validating
<1>4. issuedBar' = issuedBar
  BY <1>2, IssuedKeys
<1>5. CASE rows' = rows
  BY <1>3, <1>4, <1>5, SameRows DEF Kept, Quiet
<1>6. CASE req[r].row \in DOMAIN rows /\ rows' = Revoked(r)
  <2>1. PICK i \in DOMAIN rows : i = req[r].row
    BY <1>6
  <2>2. PICK k \in Strings : k = rows[i].key
    BY DEF IndInv, TypeOK, Rows, Strings
  <2>3. OneRow(rows) /\ OneRow(rows')
    BY KeysHaveOneRow
  <2>4. /\ DOMAIN rows' = DOMAIN rows
        /\ \A j \in DOMAIN rows : /\ rows'[j].key = rows[j].key
                                  /\ rows'[j].project = rows[j].project
                                  /\ j # i => rows'[j] = rows[j]
        /\ rows'[i].revokedAt # Never
    BY <1>1, <1>6, <2>1 DEF Revoked, IndInv, TypeOK, Rows
  <2>5. HolderIn(rows', k) = NoProject
    <3>1. \A j : ~Holds(rows', k, j)
      BY <2>2, <2>3, <2>4 DEF Holds, OneRow
    <3> QED  BY <2>3, <3>1, HolderFacts
  <2>6. ASSUME NEW m \in Strings, m # k PROVE HolderIn(rows', m) = HolderIn(rows, m)
    <3>1. \A j : Holds(rows, m, j) <=> Holds(rows', m, j)
      BY <2>2, <2>4, <2>6 DEF Holds
    <3>2. \A j : Holds(rows, m, j) => rows'[j].project = rows[j].project
      BY <2>4 DEF Holds
    <3> QED  BY <2>3, <3>1, <3>2, SameHolder
  <2>7. holderBar' = [m \in Strings |-> IF m \in {k} THEN NoProject ELSE holderBar[m]]
    BY <2>5, <2>6, HolderBars
  <2>8. Authority!End({k}) /\ {k} \in SUBSET Strings
    BY <1>3, <1>4, <2>2, <2>7 DEF Authority!End
  <2> QED  BY <2>8 DEF Kept, Authority!Next
<1> QED  BY <1>5, <1>6

\* A validation's step that changes no holder is one of its call.
LEMMA CallBecomes ==
  ASSUME IndInv, IndInv', NEW r \in Requests, Works(r),
         req[r].pc # "insert", req'[r].pc # "insert", drawn' = drawn, holderBar' = holderBar
  PROVE  Authority!Becomes(r, View(req'[r], req[req'[r].row].key))
<1>1. issuedBar' = issuedBar
  BY IssuedKeys DEF At
<1> QED  BY <1>1, CallMoves DEF Authority!Becomes

\* A call presents a key, or nothing that could be one.
LEMMA ValidateKept ==
  ASSUME IndInv, IndInv', NEW r \in Requests, Validate(r)
  PROVE  Kept
<1>1. /\ Fits(req[r]) /\ req[r] \in RequestStates
      /\ req \in [Requests -> RequestStates] /\ req' \in [Requests -> RequestStates]
      /\ req'[r] \in RequestStates /\ InLife(req'[r])
  BY DEF IndInv, TypeOK, RequestsFit, Fits
<1>2. /\ At(r, "new") /\ req[r].op = "none" /\ req[r].key = NoKey
      /\ rows' = rows /\ drawn' = drawn /\ holderBar' = holderBar
  <2>1. At(r, "new") /\ UNCHANGED <<rows, projects, drawn, now>>
    BY DEF Validate
  <2> QED  BY <1>1, <2>1, SameRows DEF Fits, InLife, HasFields, At
<1>3. ASSUME NEW k \in HandedOut \cup Guesses,
             req' = [req EXCEPT ![r].pc = "lookup", ![r].op = "validate", ![r].key = k]
      PROVE  Kept
  <2>1. k \in Strings
    <3>1. \A q \in Requests : req[q].status = 201 => req[q].key \in Drawable
      BY AtWork DEF Fits, HasFields
    <3> QED  BY <1>3, <3>1 DEF HandedOut, Strings
  <2>2. /\ req'[r].pc = "lookup" /\ req'[r].op = "validate" /\ req'[r].key = k
        /\ \A q \in Requests : q # r => req'[q] = req[q]
    BY <1>1, <1>3 DEF RequestStates
  <2>3. Works(r) /\ req[r].pc # "insert" /\ req'[r].pc # "insert"
    BY <1>1, <1>2, <2>2 DEF Works, At
  <2>4. Authority!Becomes(r, View(req'[r], req[req'[r].row].key))
    BY <1>2, <2>3, CallBecomes
  <2>5. View(req'[r], req[req'[r].row].key) = Authority!Asked(k)
    BY <1>1, <2>1, <2>2, Views, ApiKeysAssumption
  <2>6. callBar[r] = Authority!Idle
    BY <1>2 DEF callBar, CallOf, Validating, Authority!Idle
  <2>7. Authority!Ask(r, k)
    BY <2>4, <2>5, <2>6 DEF Authority!Ask
  <2> QED  BY <2>1, <2>7 DEF Kept, Authority!Next
<1>4. CASE req' = [req EXCEPT ![r].pc = "answered", ![r].op = "validate", ![r].status = 401]
  <2>1. /\ req'[r].pc = "answered" /\ req'[r].key = NoKey
        /\ \A q \in Requests : q # r => req'[q] = req[q]
    BY <1>1, <1>2, <1>4 DEF RequestStates
  <2>2. Works(r) /\ ~Validating(r) /\ ~Validating(r)'
        /\ ~At(r, "insert") /\ ~At(r, "insert")'
    BY <1>1, <1>2, <2>1 DEF Works, At, Validating
  <2>3. callBar' = callBar /\ issuedBar' = issuedBar
    BY <1>2, <2>2, QuietCall, IssuedKeys
  <2> QED  BY <1>2, <2>3 DEF Kept, Quiet
<1> QED  BY <1>3, <1>4 DEF Validate

\* The view of a validation at work.
LEMMA CallUnderWay ==
  ASSUME IndInv, NEW r \in Requests, req[r].pc \in {"lookup", "compare", "touch"}
  PROVE  /\ req[r].op = "validate" /\ req[r].key \in Strings /\ req[r].key # NoKey
         /\ ~At(r, "answered") /\ req[r].pc # "insert"
         /\ At(r, "lookup") => callBar[r] = Authority!Asked(req[r].key)
         /\ ~At(r, "lookup") =>
              callBar[r] = Authority!Decided(req[r].key,
                             IF req[r].key = req[req[r].row].key THEN req[r].project
                                                                 ELSE NoProject)
<1>1. InLife(req[r]) /\ HasFields(req[r])
  BY AtWork DEF Fits
<1>2. req[r].op = "validate" /\ req[r].key \in Strings /\ req[r].key # NoKey
  BY <1>1, ApiKeysAssumption DEF InLife, HasFields
<1>3. callBar[r] = View(req[r], req[req[r].row].key)
  BY <1>1, CallIsView
<1>4. CASE At(r, "lookup")
  BY <1>1, <1>2, <1>3, <1>4, Views DEF At
<1>5. CASE req[r].pc \in {"compare", "touch"}
  BY <1>1, <1>2, <1>3, <1>5, Views DEF At
<1> QED  BY <1>2, <1>4, <1>5 DEF At

\* An answer to a validation is one to its call.
LEMMA CallAnswered ==
  ASSUME IndInv, IndInv', NEW r \in Requests, req[r].pc \in {"lookup", "compare", "touch"},
         NEW status, Answer(r, status), drawn' = drawn, holderBar' = holderBar
  PROVE  /\ status = 200 => Authority!Becomes(r, Authority!Granted(req[r].key, req[r].project))
         /\ status = 401 => Authority!Becomes(r, Authority!Refused(req[r].key))
         /\ status = 500 => Authority!Becomes(r, Authority!Failed(req[r].key))
<1>1. /\ req[r].op = "validate" /\ req[r].key # NoKey /\ ~At(r, "answered")
      /\ req[r].pc # "insert"
  BY CallUnderWay
<1>2. /\ Works(r) /\ req'[r].pc = "answered" /\ req'[r].status = status
      /\ req'[r].op = "validate" /\ req'[r].key = req[r].key
      /\ req'[r].project = req[r].project
  BY <1>1, AnswerWorks DEF At
<1>3. Authority!Becomes(r, View(req'[r], req[req'[r].row].key))
  BY <1>1, <1>2, CallBecomes
<1>4. InLife(req'[r])
  BY DEF IndInv, RequestsFit, Fits
<1>5. PICK k : k = req[req'[r].row].key
  OBVIOUS
<1>6. /\ status = 200 => View(req'[r], k) = Authority!Granted(req[r].key, req[r].project)
      /\ status = 401 => View(req'[r], k) = Authority!Refused(req[r].key)
      /\ status = 500 => View(req'[r], k) = Authority!Failed(req[r].key)
  BY <1>1, <1>2, <1>4, Views
<1> QED  BY <1>3, <1>5, <1>6

\* The look-up decides, by the one row that has the key's prefix.
LEMMA LookUpKept ==
  ASSUME IndInv, IndInv', NEW r \in Requests, LookUp(r)
  PROVE  Kept
<1> DEFINE found == {i \in RowsWith(PrefixOf(req[r].key)) : Usable(i)}
<1>1. At(r, "lookup") /\ UNCHANGED <<rows, projects, drawn, now>>
  BY Zenon DEF LookUp
<1>2. /\ req[r].pc = "lookup" /\ req[r].key \in Strings /\ req[r].key # NoKey
      /\ ~At(r, "answered") /\ callBar[r] = Authority!Asked(req[r].key)
      /\ req[r].op = "validate"
  BY <1>1, CallUnderWay DEF At
<1>3. holderBar' = holderBar /\ OneRow(rows)
  BY <1>1, SameRows, KeysHaveOneRow
<1>4. \A i : Holds(rows, req[r].key, i) => i \in found
  BY DEF Holds, RowsWith, Usable
<1>5. CASE found = {}
  <2>1. Answer(r, 401)
    BY <1>5 DEF LookUp
  <2>2. Authority!Becomes(r, Authority!Refused(req[r].key))
    BY <1>1, <1>2, <1>3, <2>1, CallAnswered
  <2>3. HolderIn(rows, req[r].key) = NoProject
    BY <1>3, <1>4, <1>5, HolderFacts
  <2>4. Authority!Refuse(r, req[r].key)
    BY <1>2, <2>2, <2>3, HolderBars DEF Authority!Refuse
  <2> QED  BY <1>2, <2>4 DEF Kept, Authority!Next
<1>6. CASE found # {}
  <2>1. PICK i \in found :
          req' = [req EXCEPT ![r].pc = "compare", ![r].row = i,
                             ![r].project = rows[i].project]
    BY <1>6, OnlyIsMember DEF LookUp
  <2>2. /\ i \in DOMAIN rows /\ Usable(i) /\ rows[i].key = req[i].key
        /\ \A j \in found : j = i
    BY DEF RowsWith, IndInv, TypeOK, RowsAreNamed
  <2>3. /\ req \in [Requests -> RequestStates] /\ req' \in [Requests -> RequestStates]
        /\ req[r] \in RequestStates /\ InLife(req'[r])
    BY DEF IndInv, TypeOK, RequestsFit, Fits
  <2>4. /\ req'[r].pc = "compare" /\ req'[r].row = i /\ req'[r].project = rows[i].project
        /\ req'[r].op = "validate" /\ req'[r].key = req[r].key
        /\ \A q \in Requests : q # r => req'[q] = req[q]
    BY <1>2, <2>1, <2>3 DEF RequestStates
  <2>5. Works(r)
    BY <1>2, <2>3, <2>4 DEF Works
  <2>6. Authority!Becomes(r, View(req'[r], req[i].key))
    BY <1>1, <1>2, <1>3, <2>4, <2>5, CallBecomes
  <2>7. View(req'[r], req[i].key)
          = Authority!Decided(req[r].key, IF req[r].key = req[i].key THEN rows[i].project
                                                                     ELSE NoProject)
    BY <1>2, <2>3, <2>4, Views
  <2>8. HolderIn(rows, req[r].key)
          = IF req[r].key = req[i].key THEN rows[i].project ELSE NoProject
    <3>1. CASE req[r].key = req[i].key
      <4>1. Holds(rows, req[r].key, i)
        BY <2>2, <3>1 DEF Holds, Usable
      <4> QED  BY <1>3, <3>1, <4>1, HolderFacts
    <3>2. CASE req[r].key # req[i].key
      <4>1. \A j : ~Holds(rows, req[r].key, j)
        BY <1>4, <2>2, <3>2 DEF Holds
      <4> QED  BY <1>3, <3>2, <4>1, HolderFacts
    <3> QED  BY <3>1, <3>2
  <2>9. holderBar[req[r].key] = HolderIn(rows, req[r].key)
    BY <1>2, HolderBars
  <2>10. Authority!Decide(r, req[r].key)
    BY <1>2, <2>6, <2>7, <2>8, <2>9 DEF Authority!Decide
  <2> QED  BY <1>2, <2>10 DEF Kept, Authority!Next
<1> QED  BY <1>5, <1>6

\* A comparison reveals what was decided.
LEMMA CompareKept ==
  ASSUME IndInv, IndInv', NEW r \in Requests, Compare(r)
  PROVE  Kept
<1>1. /\ At(r, "compare") /\ drawn' = drawn /\ holderBar' = holderBar
      /\ req[r].pc \in {"lookup", "compare", "touch"} /\ ~At(r, "lookup")
  BY SameRows DEF Compare, At
<1>2. /\ req[r].op = "validate" /\ req[r].key \in Strings /\ req[r].key # NoKey
      /\ ~At(r, "answered") /\ req[r].pc # "insert"
      /\ callBar[r] = Authority!Decided(req[r].key,
                        IF Matches(r) THEN req[r].project ELSE NoProject)
  BY <1>1, CallUnderWay DEF Matches
<1>3. CASE ~Matches(r)
  <2>1. Answer(r, 401)
    BY <1>3 DEF Compare
  <2>2. Authority!Becomes(r, Authority!Refused(req[r].key))
    BY <1>1, <2>1, CallAnswered
  <2>3. Authority!Refuse(r, req[r].key)
    BY <1>2, <1>3, <2>2 DEF Authority!Refuse
  <2> QED  BY <1>2, <2>3 DEF Kept, Authority!Next
<1>4. CASE Matches(r)
  <2>1. req' = [req EXCEPT ![r].pc = "touch", ![r].at = now]
    BY <1>4 DEF Compare
  <2>2. /\ req \in [Requests -> RequestStates] /\ req' \in [Requests -> RequestStates]
        /\ req[r] \in RequestStates /\ InLife(req'[r])
    BY DEF IndInv, TypeOK, RequestsFit, Fits
  <2>3. /\ req'[r].pc = "touch" /\ req'[r].op = "validate" /\ req'[r].key = req[r].key
        /\ req'[r].row = req[r].row /\ req'[r].project = req[r].project
        /\ \A q \in Requests : q # r => req'[q] = req[q]
    BY <1>2, <2>1, <2>2 DEF RequestStates
  <2>4. Works(r)
    BY <1>2, <2>2, <2>3 DEF Works
  <2>5. Authority!Becomes(r, View(req'[r], req[req[r].row].key))
    BY <1>1, <1>2, <2>3, <2>4, CallBecomes
  <2>6. View(req'[r], req[req[r].row].key)
          = Authority!Decided(req[r].key, IF Matches(r) THEN req[r].project ELSE NoProject)
    BY <1>2, <2>2, <2>3, Views DEF Matches
  <2>7. callBar' = callBar
    BY <1>2, <2>5, <2>6 DEF Authority!Becomes, callBar
  <2> QED  BY <1>1, <2>5, <2>7 DEF Kept, Quiet, Authority!Becomes
<1> QED  BY <1>3, <1>4

\* The time of last use is nothing to the holders.
LEMMA TouchedRows ==
  ASSUME IndInv, IndInv', NEW r \in Requests, req[r].row \in DOMAIN rows, rows' = Touched(r)
  PROVE  holderBar' = holderBar
<1>1. \A i \in DOMAIN rows : rows[i] \in Rows
  BY DEF IndInv, TypeOK
<1>2. /\ DOMAIN rows' = DOMAIN rows
      /\ \A i \in DOMAIN rows : /\ rows'[i].key = rows[i].key
                                /\ rows'[i].project = rows[i].project
                                /\ rows'[i].revokedAt = rows[i].revokedAt
  BY <1>1 DEF Touched, Rows
<1> QED  BY <1>2, HoldersStay

\* A call whose key matched is granted the project it was decided for.
LEMMA GrantKept ==
  ASSUME IndInv, IndInv', NEW r \in Requests, At(r, "touch"), Answer(r, 200), drawn' = drawn,
         req[r].row \in DOMAIN rows, rows' = Touched(r)
  PROVE  Kept
<1>1. req[r].pc \in {"lookup", "compare", "touch"} /\ ~At(r, "lookup") /\ holderBar' = holderBar
  BY TouchedRows DEF At
<1>2. /\ req[r].op = "validate" /\ req[r].key \in Strings
      /\ callBar[r] = Authority!Decided(req[r].key,
                        IF req[r].key = req[req[r].row].key THEN req[r].project ELSE NoProject)
  BY <1>1, CallUnderWay
<1>3. req[r].key = req[req[r].row].key /\ req[r].project \in Projects
  BY <1>2, AtWork DEF Fits, HasFields, KnowsRow, Holding, Proven, At
<1>4. Authority!Becomes(r, Authority!Granted(req[r].key, req[r].project))
  BY <1>1, CallAnswered
<1>5. Authority!Grant(r, req[r].key)
  BY <1>2, <1>3, <1>4 DEF Authority!Grant
<1> QED  BY <1>2, <1>5 DEF Kept, Authority!Next

\* A call may fail until it is answered.
LEMMA FailKept ==
  ASSUME IndInv, IndInv', NEW r \in Requests, At(r, "lookup") \/ At(r, "touch"),
         Answer(r, 500), drawn' = drawn,
         \/ rows' = rows
         \/ req[r].row \in DOMAIN rows /\ rows' = Touched(r)
  PROVE  Kept
<1>1. req[r].pc \in {"lookup", "compare", "touch"} /\ holderBar' = holderBar
  BY SameRows, TouchedRows DEF At
<1>2. /\ req[r].key \in Strings
      /\ \/ callBar[r] = Authority!Asked(req[r].key)
         \/ \E p : callBar[r] = Authority!Decided(req[r].key, p)
  BY <1>1, CallUnderWay
<1>3. callBar[r].pc \in {"asked", "decided"} /\ callBar[r].key = req[r].key
  <2>1. CASE callBar[r] = Authority!Asked(req[r].key)
    BY <2>1 DEF Authority!Asked
  <2>2. ASSUME NEW p, callBar[r] = Authority!Decided(req[r].key, p)
        PROVE  callBar[r].pc = "decided" /\ callBar[r].key = req[r].key
    BY <2>2 DEF Authority!Decided
  <2> QED  BY <1>2, <2>1, <2>2
<1>4. Authority!Becomes(r, Authority!Failed(req[r].key))
  BY <1>1, CallAnswered
<1>5. Authority!Fail(r, req[r].key)
  BY <1>3, <1>4 DEF Authority!Fail
<1> QED  BY <1>2, <1>5 DEF Kept, Authority!Next

\* The last write of a validation.
LEMMA UpdateLastUsedAtKept ==
  ASSUME IndInv, IndInv', NEW r \in Requests, UpdateLastUsedAt(r)
  PROVE  Kept
<1>1. At(r, "touch") /\ drawn' = drawn
  BY DEF UpdateLastUsedAt
<1>2. \/ req[r].row \in DOMAIN rows /\ rows' = Touched(r) /\ Answer(r, 200)
      \/ rows' = rows /\ Answer(r, 500)
  BY DEF UpdateLastUsedAt
<1> QED  BY <1>1, <1>2, GrantKept, FailKept

\* A query that fails, with its effect or without.
LEMMA QueryFailsKept ==
  ASSUME IndInv, IndInv', NEW r \in Requests, QueryFails(r)
  PROVE  Kept
<1>1. Answer(r, 500) /\ drawn' = drawn
  BY DEF QueryFails
<1>2. CASE At(r, "insert")
  <2>1. rows' = rows \/ rows' = Inserted(r)
    BY <1>2 DEF QueryFails, At
  <2> QED  BY <1>1, <1>2, <2>1, InsertKept
<1>3. CASE At(r, "update")
  <2>1. \/ rows' = rows
        \/ req[r].row \in DOMAIN rows /\ rows' = Revoked(r)
    BY <1>3 DEF QueryFails, At
  <2> QED  BY <1>1, <1>3, <2>1, UpdateKept
<1>4. CASE At(r, "lookup") \/ At(r, "touch")
  <2>1. \/ rows' = rows
        \/ req[r].row \in DOMAIN rows /\ rows' = Touched(r)
    BY <1>4 DEF QueryFails, At
  <2> QED  BY <1>1, <1>4, <2>1, FailKept
<1>5. CASE req[r].pc \in {"role", "draw", "find"}
  <2>1. rows' = rows
    BY <1>5 DEF QueryFails, At
  <2>2. req[r].op # "validate" /\ ~At(r, "answered") /\ ~At(r, "insert")
    BY <1>5, AtWork DEF Fits, InLife, At
  <2>3. Works(r) /\ ~Validating(r) /\ ~Validating(r)' /\ ~At(r, "insert")'
    BY <1>1, <2>2, AnswerWorks DEF Validating, At
  <2>4. holderBar' = holderBar /\ callBar' = callBar
    BY <2>1, <2>3, SameRows, QuietCall
  <2>5. issuedBar' = issuedBar
    BY <1>1, <2>2, <2>3, IssuedKeys
  <2> QED  BY <2>4, <2>5 DEF Kept, Quiet
<1>6. req[r].pc \in Stages /\ req[r].pc \notin {"new", "compare", "answered"}
  BY AtWork DEF QueryFails, RequestStates
<1> QED  BY <1>2, <1>3, <1>4, <1>5, <1>6 DEF Stages, At

\* Every step is a step of the promise or leaves what it tells of alone.
LEMMA NextRefines ==
  IndInv /\ IndInv' /\ [Next]_vars => [Authority!Next]_(Authority!vars)
<1> SUFFICES ASSUME IndInv, IndInv', [Next]_vars PROVE Kept
  BY DEF Kept, Quiet, Authority!vars
<1>1. ASSUME NEW r \in Requests, Step(r) PROVE Kept
  <2>1. ASSUME InsertApiKey(r) PROVE Kept
    <3>1. /\ At(r, "insert") /\ drawn' = drawn
          /\ (Answer(r, 500) /\ rows' = rows) \/ (Answer(r, 201) /\ rows' = Inserted(r))
      BY <2>1 DEF InsertApiKey
    <3> QED  BY <3>1, InsertKept
  <2>2. ASSUME UpdateRevokedAt(r) PROVE Kept
    <3>1. /\ At(r, "update") /\ drawn' = drawn
          /\ \/ Answer(r, 500) /\ rows' = rows
             \/ Answer(r, 204) /\ req[r].row \in DOMAIN rows /\ rows' = Revoked(r)
      BY <2>2 DEF UpdateRevokedAt
    <3> QED  BY <3>1, UpdateKept
  <2> QED
    BY <1>1, <2>1, <2>2, StartAndRoleKept, DrawKept, ValidateKept, LookUpKept, CompareKept,
       UpdateLastUsedAtKept, QueryFailsKept DEF Step
<1>2. CASE UNCHANGED vars
  BY <1>2 DEF vars, Kept, Quiet, holderBar, Live, issuedBar, callBar, CallOf, Validating,
              Presents, At
<1> QED  BY <1>1, <1>2, EnvironmentKept DEF Next

\* For any number of requests, keys, prefixes and projects: a call is granted the
\* project of exactly the key it presents, when that key is live at one moment of the
\* call, and a key that was handed out and is live is never refused.
THEOREM Refinement == Spec => ImplementsKeyAuthority
BY InitRefines, NextRefines, Invariance, PTL
DEF Spec, Authority!Spec, ImplementsKeyAuthority
=============================================================================
