---------------------------- MODULE KeyAuthority ----------------------------
(***************************************************************************)
(* What API keys promise, without tables, prefixes, hashes or queries.  A   *)
(* key belongs to one project from its issue to its end, and is issued at   *)
(* most once.  A call that presents a key is granted that project if, and   *)
(* refused only if not, the key is live at one moment between the call and  *)
(* its answer; it may also fail.  ApiKeys.tla is checked to implement this. *)
(***************************************************************************)
CONSTANTS
  Keys,      \* all well-formed keys
  Projects,
  Calls,
  NoProject

VARIABLES
  holder,  \* holder[k]: the project key k is live for, or NoProject
  issued,  \* keys that cannot be issued any more
  call     \* what each call is at

vars == <<holder, issued, call>>

Idle == [pc |-> "idle"]
Asked(k)      == [pc |-> "asked", key |-> k]
Decided(k, p) == [pc |-> "decided", key |-> k, project |-> p]
Granted(k, p) == [pc |-> "granted", key |-> k, project |-> p]
Refused(k)    == [pc |-> "refused", key |-> k]
Failed(k)     == [pc |-> "failed", key |-> k]

Init ==
  /\ holder = [k \in Keys |-> NoProject]
  /\ issued = {}
  /\ call = [c \in Calls |-> Idle]

Issue(k, p) ==
  /\ k \notin issued
  /\ holder' = [holder EXCEPT ![k] = p]
  /\ issued' = issued \cup {k}
  /\ UNCHANGED call

\* A key that was made but never issued.
Waste(k) ==
  /\ issued' = issued \cup {k}
  /\ UNCHANGED <<holder, call>>

\* Keys are revoked one by one, and all at once with their project.
End(ks) ==
  /\ holder' = [k \in Keys |-> IF k \in ks THEN NoProject ELSE holder[k]]
  /\ UNCHANGED <<issued, call>>

Becomes(c, state) ==
  /\ call' = [call EXCEPT ![c] = state]
  /\ UNCHANGED <<holder, issued>>

Ask(c, k) == call[c] = Idle /\ Becomes(c, Asked(k))

Decide(c, k) == call[c] = Asked(k) /\ Becomes(c, Decided(k, holder[k]))

Grant(c, k) ==
  \E p \in Projects : call[c] = Decided(k, p) /\ Becomes(c, Granted(k, p))

Refuse(c, k) ==
  /\ \/ call[c] = Asked(k) /\ holder[k] = NoProject
     \/ call[c] = Decided(k, NoProject)
  /\ Becomes(c, Refused(k))

Fail(c, k) ==
  /\ call[c].pc \in {"asked", "decided"} /\ call[c].key = k
  /\ Becomes(c, Failed(k))

Next ==
  \/ \E k \in Keys : Waste(k) \/ \E p \in Projects : Issue(k, p)
  \/ \E ks \in SUBSET Keys : End(ks)
  \/ \E c \in Calls, k \in Keys :
       Ask(c, k) \/ Decide(c, k) \/ Grant(c, k) \/ Refuse(c, k) \/ Fail(c, k)

Spec == Init /\ [][Next]_vars
=============================================================================
