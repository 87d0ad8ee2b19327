---------------------------- MODULE FixedWindow ----------------------------
(***************************************************************************)
(* What the rate limiter promises a client, with no table and no pruning:   *)
(* every identity owns a quota of its own; the first request outside a      *)
(* window opens one, a window admits at most MaxRequests requests and ends  *)
(* Window milliseconds after it opened, whatever is refused meanwhile.      *)
(***************************************************************************)
EXTENDS Naturals

CONSTANTS Identities, Window, MaxRequests

VARIABLES
  now,      \* the clock
  used,     \* used[i]: requests admitted in i's open window, 0 when none is open
  endsAt,   \* endsAt[i]: when i's window ends, 0 when none is open
  decision  \* the last decision, {} before the first: who asked, when, the answer

vars == <<now, used, endsAt, decision>>

Init ==
  /\ now \in Nat
  /\ used = [i \in Identities |-> 0]
  /\ endsAt = [i \in Identities |-> 0]
  /\ decision = {}

\* Time passes; windows that ended close.
Tick ==
  /\ now' \in Nat /\ now' > now
  /\ used' = [i \in Identities |-> IF endsAt[i] > now' THEN used[i] ELSE 0]
  /\ endsAt' = [i \in Identities |-> IF endsAt[i] > now' THEN endsAt[i] ELSE 0]
  /\ UNCHANGED decision

Decide(i, allowed) ==
  decision' = {[identity |-> i, at |-> now, allowed |-> allowed]}

Open(i) ==
  /\ used[i] = 0
  /\ used' = [used EXCEPT ![i] = 1]
  /\ endsAt' = [endsAt EXCEPT ![i] = now + Window]
  /\ Decide(i, TRUE)
  /\ UNCHANGED now

Admit(i) ==
  /\ used[i] \in 1 .. (MaxRequests - 1)
  /\ used' = [used EXCEPT ![i] = @ + 1]
  /\ Decide(i, TRUE)
  /\ UNCHANGED <<now, endsAt>>

Refuse(i) ==
  /\ used[i] = MaxRequests
  /\ Decide(i, FALSE)
  /\ UNCHANGED <<now, used, endsAt>>

Next == Tick \/ \E i \in Identities : Open(i) \/ Admit(i) \/ Refuse(i)

Spec == Init /\ [][Next]_vars
=============================================================================
