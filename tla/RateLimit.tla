----------------------------- MODULE RateLimit -----------------------------
(***************************************************************************)
(* RateLimitGuard of the ingestion service: a fixed window of requests per  *)
(* identity (the hash of the API key header, else the client's address) in  *)
(* a Map that is swept every PruneInterval requests.  canActivate has no    *)
(* await, so a request is one step; the clock (Date.now) moves between      *)
(* requests by any amount.  TLC's instances bound the clock and the number  *)
(* of requests; no property depends on the bounds.                          *)
(***************************************************************************)
EXTENDS Naturals, Sequences, FiniteSets

CONSTANTS
  Identities,     \* what getIdentity tells apart
  Window,         \* RATE_LIMIT_WINDOW_MS
  MaxRequests,    \* RATE_LIMIT_MAX_REQUESTS
  PruneInterval,  \* PRUNE_INTERVAL
  TimeBound,      \* bound: last instant of the clock
  RequestBound    \* bound: number of requests

ASSUME RateLimitAssumption ==
  /\ Window \in Nat \ {0}
  /\ MaxRequests \in Nat \ {0}
  /\ PruneInterval \in Nat \ {0}
  /\ TimeBound \in Nat
  /\ RequestBound \in Nat

VARIABLES
  now,       \* Date.now()
  buckets,   \* the Map: a function on the identities it holds
  answers    \* history: the decision on each request so far, oldest first

vars == <<now, buckets, answers>>

Bucket  == [count : Nat \ {0}, resetAt : Nat]
Answers == [identity : Identities, at : Nat, allowed : BOOLEAN]

\* requestCount of the guard, before the next request is counted.
requestCount == Len(answers)

Init ==
  /\ now = 0
  /\ buckets = [i \in {} |-> 0]
  /\ answers = <<>>

\* A bucket whose time is over: resetAt <= now.
BadExpired(b) == b.resetAt < now
Expired(b)    == b.resetAt <= now

\* pruneExpiredBuckets
BadPruned(map) == [i \in {} |-> map[i]]
Pruned(map)    == [i \in {j \in DOMAIN map : ~Expired(map[j])} |-> map[i]]

\* The Map as canActivate sees it, after the sweep every PruneInterval requests.
BadSwept == buckets
Swept == IF (requestCount + 1) % PruneInterval = 0 THEN Pruned(buckets) ELSE buckets

\* map.set(i, b)
Put(map, i, b) == [j \in DOMAIN map \cup {i} |-> IF j = i THEN b ELSE map[j]]

Answer(i, allowed) ==
  answers' = Append(answers, [identity |-> i, at |-> now, allowed |-> allowed])

\* No bucket, or an expired one: a new window opens.
OpenWindow(i) ==
  /\ requestCount < RequestBound
  /\ i \in DOMAIN Swept => Expired(Swept[i])
  /\ buckets' = Put(Swept, i, [count |-> 1, resetAt |-> now + Window])
  /\ Answer(i, TRUE)
  /\ UNCHANGED now

\* The count goes up whether or not the request is then refused.
BadCounted(b) == [count |-> b.count + 1, resetAt |-> b.resetAt + Window]
Counted(b)    == [b EXCEPT !.count = @ + 1]
Refused(b) == b.count > MaxRequests

CountRequest(i) ==
  /\ requestCount < RequestBound
  /\ i \in DOMAIN Swept
  /\ ~Expired(Swept[i])
  /\ LET b == Counted(Swept[i]) IN
       /\ buckets' = Put(Swept, i, b)
       /\ Answer(i, ~Refused(b))
  /\ UNCHANGED now

Tick ==
  /\ \E t \in (now + 1) .. TimeBound : now' = t
  /\ UNCHANGED <<buckets, answers>>

Next == Tick \/ \E i \in Identities : OpenWindow(i) \/ CountRequest(i)

Spec == Init /\ [][Next]_vars

-----------------------------------------------------------------------------
(* Properties. *)

\* The Map and the history keep their shape, the clock is not behind any answer,
\* and no window ends more than Window from now, however many requests it counts.
TypeOK ==
  /\ now \in Nat
  /\ DOMAIN buckets \subseteq Identities
  /\ \A i \in DOMAIN buckets : /\ buckets[i] \in Bucket
                               /\ buckets[i].resetAt <= now + Window
  /\ answers \in Seq(Answers)
  /\ \A k \in 1 .. Len(answers) : answers[k].at <= now

\* Positions of i's answers in the window of length Window that ends at t.
Recent(i, t) ==
  {k \in 1 .. Len(answers) :
     answers[k].identity = i /\ answers[k].at <= t /\ answers[k].at + Window > t}
Admitted(K) == {k \in K : answers[k].allowed}

\* Over any stretch of Window milliseconds, however it lies across the windows
\* and the sweeps, an identity gets at most twice its quota through.
SlidingQuota ==
  \A i \in Identities : \A t \in 0 .. now :
    Cardinality(Admitted(Recent(i, t))) <= 2 * MaxRequests

\* The Map cannot accumulate dead identities: a bucket in it has outlived no
\* sweep, so each expired one was used since the last sweep or expired after it.
SweepLeavesNoExpired ==
  \A i \in DOMAIN buckets : \A k \in 1 .. Len(answers) :
    k % PruneInterval = 0 => answers[k].at < buckets[i].resetAt

\* The windows the guard's table stands for: sweeping changes nothing a client
\* can see.
Live(i) == i \in DOMAIN buckets /\ ~Expired(buckets[i])
usedBar   == [i \in Identities |->
                IF ~Live(i) THEN 0
                ELSE IF Refused(buckets[i]) THEN MaxRequests
                ELSE buckets[i].count]
endsAtBar == [i \in Identities |-> IF Live(i) THEN buckets[i].resetAt ELSE 0]
decisionBar == IF answers = <<>> THEN {} ELSE {answers[Len(answers)]}
Promise == INSTANCE FixedWindow WITH
  used <- usedBar, endsAt <- endsAtBar, decision <- decisionBar

ImplementsFixedWindow == Promise!Spec
=============================================================================
