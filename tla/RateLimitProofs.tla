-------------------------- MODULE RateLimitProofs --------------------------
(***************************************************************************)
(* For any quota, window length, sweep interval and set of identities, the  *)
(* guard's swept table implements the plain fixed window: sweeping is       *)
(* invisible to clients, since Swept and buckets hold the same live         *)
(* windows.  For the sliding quota every admitted request is assigned to a  *)
(* window that had room for it.                                             *)
(***************************************************************************)
EXTENDS RateLimit, FiniteSetTheorems, TLAPS

IndInv == TypeOK /\ SweepLeavesNoExpired

\* A sweep removes expired buckets and nothing else.
LEMMA SweepKeepsLive ==
  ASSUME TypeOK
  PROVE  /\ DOMAIN Swept \subseteq DOMAIN buckets
         /\ \A i \in DOMAIN Swept : Swept[i] = buckets[i]
         /\ \A i \in DOMAIN buckets : i \in DOMAIN Swept \/ Expired(buckets[i])
         /\ (requestCount + 1) % PruneInterval = 0
              => \A i \in DOMAIN Swept : ~Expired(Swept[i])
BY DEF Swept, Pruned

\* The step common to both outcomes of a request: bucket b is stored for i.
LEMMA RequestInd ==
  ASSUME IndInv, NEW i \in Identities, NEW b \in Bucket, NEW allowed \in BOOLEAN,
         b.resetAt > now, b.resetAt <= now + Window,
         buckets' = Put(Swept, i, b), Answer(i, allowed), UNCHANGED now
  PROVE  IndInv'
<1>1. /\ TypeOK /\ now \in Nat /\ answers \in Seq(Answers)
      /\ Len(answers) \in Nat
  BY DEF IndInv, TypeOK
<1>2. /\ DOMAIN buckets' = DOMAIN Swept \cup {i}
      /\ buckets'[i] = b
      /\ \A j \in DOMAIN Swept : j # i => buckets'[j] = buckets[j] /\ j \in DOMAIN buckets
  <2>1. /\ DOMAIN Put(Swept, i, b) = DOMAIN Swept \cup {i}
        /\ Put(Swept, i, b)[i] = b
        /\ \A j \in DOMAIN Swept : j # i => Put(Swept, i, b)[j] = Swept[j]
    BY DEF Put
  <2>2. \A j \in DOMAIN Swept : Swept[j] = buckets[j] /\ j \in DOMAIN buckets
    BY <1>1, SweepKeepsLive
  <2> QED  BY <2>1, <2>2
<1>3. /\ DOMAIN buckets' \subseteq Identities
      /\ \A j \in DOMAIN buckets' : /\ buckets'[j] \in Bucket
                                    /\ buckets'[j].resetAt <= now' + Window
  BY <1>1, <1>2 DEF TypeOK
<1>4. /\ answers' \in Seq(Answers) /\ Len(answers') = Len(answers) + 1
      /\ \A k \in 1 .. Len(answers) : answers'[k] = answers[k]
      /\ answers'[Len(answers')].at = now
  BY <1>1 DEF Answer, Answers
<1>5. \A k \in 1 .. Len(answers') : answers'[k].at <= now'
  <2> SUFFICES ASSUME NEW k \in 1 .. Len(answers') PROVE answers'[k].at <= now'
    OBVIOUS
  <2>1. k \in 1 .. Len(answers) \/ k = Len(answers')
    BY <1>1, <1>4
  <2>2. CASE k \in 1 .. Len(answers)
    BY <1>1, <1>4, <2>2 DEF TypeOK
  <2>3. CASE k = Len(answers')
    BY <1>1, <1>4, <2>3
  <2> QED  BY <2>1, <2>2, <2>3
<1>6. TypeOK'
  BY <1>1, <1>3, <1>4, <1>5 DEF TypeOK
<1>7. SweepLeavesNoExpired'
  <2> SUFFICES ASSUME NEW j \in DOMAIN buckets', NEW k \in 1 .. Len(answers'),
                      k % PruneInterval = 0
               PROVE  answers'[k].at < buckets'[j].resetAt
    BY DEF SweepLeavesNoExpired
  <2>1. CASE j = i
    <3>0. answers'[k] \in Answers
      BY <1>4
    <3>1. answers'[k].at <= now /\ answers'[k].at \in Nat
      BY <1>5, <3>0 DEF Answers
    <3>2. buckets'[j].resetAt > now /\ buckets'[j].resetAt \in Nat
      BY <1>2, <2>1 DEF Bucket
    <3> QED  BY <1>1, <3>1, <3>2
  <2>2. CASE j # i
    <3>1. j \in DOMAIN Swept /\ j \in DOMAIN buckets /\ buckets'[j] = buckets[j]
      BY <1>2, <2>2
    <3>2. CASE k \in 1 .. Len(answers)
      BY <1>4, <3>1, <3>2 DEF IndInv, SweepLeavesNoExpired
    <3>3. CASE k = Len(answers')
      <4>1. (requestCount + 1) % PruneInterval = 0
        BY <1>4, <3>3 DEF requestCount
      <4>2. ~Expired(buckets[j])
        BY <1>1, <3>1, <4>1, SweepKeepsLive
      <4>3. buckets[j].resetAt \in Nat
        BY <1>1, <3>1 DEF TypeOK, Bucket
      <4> QED  BY <1>1, <1>4, <3>1, <3>3, <4>2, <4>3 DEF Expired
    <3>4. k \in 1 .. Len(answers) \/ k = Len(answers')
      BY <1>1, <1>4
    <3> QED  BY <3>2, <3>3, <3>4
  <2> QED  BY <2>1, <2>2
<1> QED
  BY <1>6, <1>7 DEF IndInv

\* The empty Map satisfies the invariant.
LEMMA InitInd == Init => IndInv
BY RateLimitAssumption DEF Init, IndInv, TypeOK, SweepLeavesNoExpired

\* A new window opens.
LEMMA OpenWindowInd ==
  ASSUME IndInv, NEW i \in Identities, OpenWindow(i) PROVE IndInv'
<1> DEFINE b == [count |-> 1, resetAt |-> now + Window]
<1>1. b \in Bucket /\ b.resetAt > now /\ b.resetAt <= now + Window
  BY RateLimitAssumption DEF IndInv, TypeOK, Bucket
<1> QED
  BY <1>1, RequestInd DEF OpenWindow

\* A request that finds a live window is counted in it.
LEMMA CountedFacts ==
  ASSUME IndInv, NEW i \in Identities, CountRequest(i)
  PROVE  /\ Live(i) /\ Swept[i] = buckets[i]
         /\ buckets[i] \in Bucket /\ buckets[i].resetAt > now
         /\ Counted(buckets[i]) \in Bucket
         /\ Counted(buckets[i]).resetAt = buckets[i].resetAt
         /\ Counted(buckets[i]).count = buckets[i].count + 1
<1>1. Swept[i] = buckets[i] /\ i \in DOMAIN buckets /\ ~Expired(buckets[i])
  BY SweepKeepsLive DEF IndInv, CountRequest
<1>2. buckets[i] \in Bucket /\ now \in Nat
  BY <1>1 DEF IndInv, TypeOK
<1> QED
  BY <1>1, <1>2 DEF Live, Expired, Counted, Bucket

\* A request is counted in its window.
LEMMA CountRequestInd ==
  ASSUME IndInv, NEW i \in Identities, CountRequest(i) PROVE IndInv'
<1> DEFINE b == Counted(buckets[i])
<1>1. b \in Bucket /\ b.resetAt > now /\ b.resetAt <= now + Window
  <2>1. buckets[i].resetAt <= now + Window
    BY CountedFacts DEF IndInv, TypeOK, Live
  <2> QED  BY <2>1, CountedFacts
<1>2. /\ buckets' = Put(Swept, i, b) /\ Answer(i, ~Refused(b)) /\ UNCHANGED now
  BY CountedFacts DEF CountRequest
<1>3. PICK allowed \in BOOLEAN : Answer(i, allowed)
  <2>1. (~Refused(b)) \in BOOLEAN
    BY DEF Refused
  <2> QED  BY <1>2, <2>1, Zenon
<1> QED
  BY <1>1, <1>2, <1>3, RequestInd

\* Time passes.
LEMMA TickInd == ASSUME IndInv, Tick PROVE IndInv'
<1>1. now' \in Nat /\ now' > now /\ UNCHANGED <<buckets, answers>>
  BY RateLimitAssumption DEF Tick, IndInv, TypeOK
<1>2. TypeOK'
  <2>1. ASSUME NEW i \in DOMAIN buckets PROVE buckets[i].resetAt <= now' + Window
    <3>1. buckets[i].resetAt \in Nat /\ buckets[i].resetAt <= now + Window /\ now \in Nat
      BY DEF IndInv, TypeOK, Bucket
    <3> QED  BY <1>1, <3>1, RateLimitAssumption
  <2>2. ASSUME NEW k \in 1 .. Len(answers) PROVE answers[k].at <= now'
    <3>0. answers[k] \in Answers
      BY DEF IndInv, TypeOK
    <3>1. answers[k].at \in Nat /\ answers[k].at <= now /\ now \in Nat
      BY <3>0 DEF IndInv, TypeOK, Answers
    <3> QED  BY <1>1, <3>1
  <2> QED  BY <1>1, <2>1, <2>2 DEF IndInv, TypeOK
<1> QED
  BY <1>1, <1>2 DEF IndInv, SweepLeavesNoExpired

\* Every step preserves the invariant.
LEMMA NextInd == IndInv /\ [Next]_vars => IndInv'
<1> SUFFICES ASSUME IndInv, [Next]_vars PROVE IndInv'
  OBVIOUS
<1>1. CASE Tick
  BY <1>1, TickInd
<1>2. ASSUME NEW i \in Identities, OpenWindow(i) PROVE IndInv'
  BY <1>2, OpenWindowInd
<1>3. ASSUME NEW i \in Identities, CountRequest(i) PROVE IndInv'
  BY <1>3, CountRequestInd
<1>4. CASE UNCHANGED vars
  BY <1>4 DEF vars, IndInv, TypeOK, SweepLeavesNoExpired
<1> QED
  BY <1>1, <1>2, <1>3, <1>4 DEF Next

\* The inductive invariant holds in every reachable state.
THEOREM Invariance == Spec => []IndInv
BY InitInd, NextInd, PTL DEF Spec

\* No bucket outlives a sweep it was expired at.
THEOREM SweepIsThorough == Spec => []SweepLeavesNoExpired
<1>1. IndInv => SweepLeavesNoExpired
  BY DEF IndInv
<1> QED
  BY <1>1, Invariance, PTL

\* The guard's table has the shape the model gives it.
THEOREM TypeCorrect == Spec => []TypeOK
<1>1. IndInv => TypeOK
  BY DEF IndInv
<1> QED
  BY <1>1, Invariance, PTL

-----------------------------------------------------------------------------
(* The quota over any stretch of time.  The history does not say in which   *)
(* window a request was admitted, and a window is forgotten once swept or   *)
(* replaced; so the invariant is that the admitted requests can be assigned *)
(* to windows, given by their ends, at most MaxRequests to each.            *)

Mine(i) == {k \in 1 .. Len(answers) : answers[k].identity = i /\ answers[k].allowed}
Assigned(i, w, e) == {k \in Mine(i) : w[k] = e}

\* A request was admitted during its window, and windows do not overlap.
Covers(i, w) ==
  /\ \A k \in Mine(i) : answers[k].at < w[k] /\ w[k] <= answers[k].at + Window
  /\ \A k, l \in Mine(i) : w[k] < w[l] => w[k] + Window <= w[l]

WithinQuota(i, w) == \A e \in Nat : Cardinality(Assigned(i, w, e)) <= MaxRequests

\* The bucket is the last window and counts what it admitted; without one all
\* windows are over.
AgreesWithBucket(i, w) ==
  IF i \in DOMAIN buckets
    THEN /\ \A k \in Mine(i) : \/ w[k] = buckets[i].resetAt
                               \/ w[k] + Window <= buckets[i].resetAt
         /\ Cardinality(Assigned(i, w, buckets[i].resetAt)) <= buckets[i].count
    ELSE \A k \in Mine(i) : w[k] <= now

Assignment(i, w) == Covers(i, w) /\ WithinQuota(i, w) /\ AgreesWithBucket(i, w)

QuotaInv == \A i \in Identities : \E w \in [Mine(i) -> Nat] : Assignment(i, w)

\* The history is finite, and so is every part of it.
LEMMA PartIsFinite ==
  ASSUME answers \in Seq(Answers), NEW S, S \subseteq 1 .. Len(answers)
  PROVE  IsFiniteSet(S) /\ Cardinality(S) \in Nat
<1>1. IsFiniteSet(1 .. Len(answers))
  BY FS_Interval
<1>2. IsFiniteSet(S)
  BY <1>1, FS_Subset
<1> QED  BY <1>2, FS_CardinalityType

\* One more member makes a set larger by one at most.
LEMMA OneMoreMember ==
  ASSUME NEW S, IsFiniteSet(S), NEW x
  PROVE  Cardinality(S \cup {x}) \in Nat /\ Cardinality(S \cup {x}) <= Cardinality(S) + 1
<1>1. Cardinality(S) \in Nat
  BY FS_CardinalityType
<1>2. Cardinality(S \cup {x}) = IF x \in S THEN Cardinality(S) ELSE Cardinality(S) + 1
  BY FS_AddElement
<1> QED  BY <1>1, <1>2

\* An assignment stays one while the identity's history and bucket stay, or the
\* bucket is swept.
LEMMA AssignmentStays ==
  ASSUME TypeOK, now' \in Nat, now' >= now,
         NEW i \in Identities, NEW w \in [Mine(i) -> Nat], Assignment(i, w),
         Mine(i)' = Mine(i), \A k \in Mine(i) : answers'[k] = answers[k],
         \/ i \in DOMAIN buckets /\ i \in DOMAIN buckets' /\ buckets'[i] = buckets[i]
         \/ i \in DOMAIN buckets /\ i \notin DOMAIN buckets' /\ buckets[i].resetAt <= now
         \/ i \notin DOMAIN buckets /\ i \notin DOMAIN buckets'
  PROVE  Assignment(i, w)'
<1>1. Covers(i, w)' /\ WithinQuota(i, w)'
  BY DEF Assignment, Covers, WithinQuota, Assigned
<1>2. \A k \in Mine(i) : w[k] \in Nat
  OBVIOUS
<1>3. AgreesWithBucket(i, w)'
  <2>1. CASE i \in DOMAIN buckets /\ i \in DOMAIN buckets' /\ buckets'[i] = buckets[i]
    BY <2>1 DEF Assignment, AgreesWithBucket, Assigned
  <2>2. CASE i \in DOMAIN buckets /\ i \notin DOMAIN buckets' /\ buckets[i].resetAt <= now
    <3>1. buckets[i].resetAt \in Nat /\ now \in Nat
      BY <2>2 DEF TypeOK, Bucket
    <3>2. \A k \in Mine(i) : w[k] <= now'
      BY <1>2, <2>2, <3>1, RateLimitAssumption DEF Assignment, AgreesWithBucket
    <3> QED  BY <2>2, <3>2 DEF AgreesWithBucket
  <2>3. CASE i \notin DOMAIN buckets /\ i \notin DOMAIN buckets'
    BY <1>2, <2>3 DEF Assignment, AgreesWithBucket, TypeOK
  <2> QED  BY <2>1, <2>2, <2>3
<1> QED  BY <1>1, <1>3 DEF Assignment

\* An admitted request is assigned to the window its bucket stands for.
LEMMA AdmittedIsAssigned ==
  ASSUME TypeOK, NEW i \in Identities, NEW w \in [Mine(i) -> Nat],
         Covers(i, w), WithinQuota(i, w), Answer(i, TRUE), UNCHANGED now,
         NEW e \in Nat, now < e, e <= now + Window,
         \A k \in Mine(i) : w[k] = e \/ w[k] + Window <= e,
         i \in DOMAIN buckets', buckets'[i].resetAt = e, buckets'[i].count \in Nat,
         Cardinality(Assigned(i, w, e)) + 1 <= buckets'[i].count,
         Cardinality(Assigned(i, w, e)) + 1 <= MaxRequests
  PROVE  \E v \in [Mine(i)' -> Nat] : Assignment(i, v)'
<1>1. PICK n \in Nat : n = Len(answers) + 1
  BY DEF TypeOK
<1>2. /\ answers' \in Seq(Answers) /\ Len(answers') = n /\ n \notin 1 .. Len(answers)
      /\ 1 .. n = 1 .. Len(answers) \cup {n}
      /\ \A k \in 1 .. Len(answers) : answers'[k] = answers[k]
      /\ answers'[n] = [identity |-> i, at |-> now, allowed |-> TRUE]
  BY <1>1 DEF TypeOK, Answer, Answers
<1>3. Mine(i)' = Mine(i) \cup {n} /\ n \notin Mine(i)
  BY <1>2 DEF Mine
<1>4. PICK v : v = [k \in Mine(i) \cup {n} |-> IF k = n THEN e ELSE w[k]]
  OBVIOUS
<1>5. /\ v \in [Mine(i)' -> Nat] /\ v[n] = e
      /\ \A k \in Mine(i) : v[k] = w[k] /\ w[k] \in Nat
  BY <1>3, <1>4
<1>6. Covers(i, v)'
  <2>1. \A k \in Mine(i) : answers'[k] = answers[k]
    BY <1>2 DEF Mine
  <2>2. answers'[n].at = now /\ now \in Nat
    BY <1>2 DEF TypeOK
  <2>3. \A k \in Mine(i)' : answers'[k].at < v[k] /\ v[k] <= answers'[k].at + Window
    BY <1>3, <1>5, <2>1, <2>2 DEF Covers
  <2>4. \A k, l \in Mine(i)' : v[k] < v[l] => v[k] + Window <= v[l]
    <3>1. \A k, l \in Mine(i) : v[k] < v[l] => v[k] + Window <= v[l]
      BY <1>5 DEF Covers
    <3>2. \A k \in Mine(i) : v[k] = e \/ v[k] + Window <= e
      BY <1>5
    <3> QED  BY <1>3, <1>5, <3>1, <3>2, RateLimitAssumption
  <2> QED  BY <2>3, <2>4 DEF Covers
<1>7. \A x \in Nat : Assigned(i, v, x)' = IF x = e THEN Assigned(i, w, e) \cup {n}
                                                   ELSE Assigned(i, w, x)
  BY <1>3, <1>5 DEF Assigned
<1>8. Cardinality(Assigned(i, v, e)') <= Cardinality(Assigned(i, w, e)) + 1
  <2>1. Assigned(i, w, e) \subseteq 1 .. Len(answers)
    BY DEF Assigned, Mine
  <2>2. IsFiniteSet(Assigned(i, w, e)) /\ Cardinality(Assigned(i, w, e)) \in Nat
    BY <2>1, PartIsFinite DEF TypeOK
  <2>3. Assigned(i, v, e)' = Assigned(i, w, e) \cup {n}
    BY <1>7
  <2> QED  BY <2>2, <2>3, OneMoreMember
<1>9. Cardinality(Assigned(i, v, e)') \in Nat /\ Cardinality(Assigned(i, w, e)) \in Nat
  <2>1. Assigned(i, v, e)' \subseteq 1 .. Len(answers')
    BY DEF Assigned, Mine
  <2>2. Assigned(i, w, e) \subseteq 1 .. Len(answers)
    BY DEF Assigned, Mine
  <2>3. IsFiniteSet(1 .. Len(answers')) /\ IsFiniteSet(1 .. Len(answers))
    BY <1>1, <1>2, FS_Interval
  <2> QED  BY <2>1, <2>2, <2>3, FS_Subset, FS_CardinalityType
<1>10. WithinQuota(i, v)'
  <2> SUFFICES ASSUME NEW x \in Nat PROVE Cardinality(Assigned(i, v, x)') <= MaxRequests
    BY DEF WithinQuota
  <2>1. CASE x = e
    BY <1>8, <1>9, <2>1, RateLimitAssumption
  <2>2. CASE x # e
    BY <1>7, <2>2 DEF WithinQuota
  <2> QED  BY <2>1, <2>2
<1>11. AgreesWithBucket(i, v)'
  <2>1. \A k \in Mine(i)' : v[k] = e \/ v[k] + Window <= e
    BY <1>3, <1>5
  <2>2. Cardinality(Assigned(i, v, e)') <= buckets'[i].count
    BY <1>8, <1>9
  <2> QED  BY <2>1, <2>2 DEF AgreesWithBucket
<1> QED  BY <1>5, <1>6, <1>10, <1>11 DEF Assignment

\* A request of i leaves the assignments of the others as they are.
LEMMA OthersStayAssigned ==
  ASSUME IndInv, NEW i \in Identities, NEW b, NEW allowed \in BOOLEAN,
         buckets' = Put(Swept, i, b), Answer(i, allowed), UNCHANGED now,
         NEW j \in Identities, j # i, NEW w \in [Mine(j) -> Nat], Assignment(j, w)
  PROVE  Mine(j)' = Mine(j) /\ Assignment(j, w)'
<1>1. TypeOK /\ now \in Nat
  BY DEF IndInv, TypeOK
<1>2. /\ Len(answers') = Len(answers) + 1 /\ Len(answers) \in Nat
      /\ \A k \in 1 .. Len(answers) : answers'[k] = answers[k]
      /\ answers'[Len(answers) + 1].identity = i
  BY <1>1 DEF TypeOK, Answer, Answers
<1>3. Mine(j)' = Mine(j) /\ \A k \in Mine(j) : answers'[k] = answers[k]
  BY <1>2 DEF Mine
<1>4. /\ j \in DOMAIN buckets' <=> j \in DOMAIN Swept
      /\ j \in DOMAIN Swept => buckets'[j] = Swept[j]
  BY DEF Put
<1>5. /\ j \in DOMAIN Swept => j \in DOMAIN buckets /\ Swept[j] = buckets[j]
      /\ j \in DOMAIN buckets => j \in DOMAIN Swept \/ Expired(buckets[j])
  BY <1>1, SweepKeepsLive
<1>6. \/ j \in DOMAIN buckets /\ j \in DOMAIN buckets' /\ buckets'[j] = buckets[j]
      \/ j \in DOMAIN buckets /\ j \notin DOMAIN buckets' /\ buckets[j].resetAt <= now
      \/ j \notin DOMAIN buckets /\ j \notin DOMAIN buckets'
  BY <1>4, <1>5 DEF Expired
<1> QED  BY <1>1, <1>3, <1>6, AssignmentStays

\* The first request of a window is assigned to the new window.
LEMMA OpenWindowQuota ==
  ASSUME IndInv, QuotaInv, NEW i \in Identities, OpenWindow(i) PROVE QuotaInv'
<1> DEFINE b == [count |-> 1, resetAt |-> now + Window]
<1>1. /\ buckets' = Put(Swept, i, b) /\ Answer(i, TRUE) /\ UNCHANGED now
      /\ TypeOK /\ now \in Nat
  BY DEF OpenWindow, IndInv, TypeOK
<1>2. PICK w \in [Mine(i) -> Nat] : Assignment(i, w)
  BY DEF QuotaInv
<1>3. \A k \in Mine(i) : w[k] <= now
  <2>1. CASE i \in DOMAIN buckets
    <3>1. Expired(buckets[i]) /\ buckets[i].resetAt \in Nat
      BY <1>1, <2>1, SweepKeepsLive DEF OpenWindow, TypeOK, Bucket
    <3>2. \A k \in Mine(i) : w[k] \in Nat
      OBVIOUS
    <3> QED
      BY <1>1, <1>2, <2>1, <3>1, <3>2, RateLimitAssumption
      DEF Assignment, AgreesWithBucket, Expired
  <2>2. CASE i \notin DOMAIN buckets
    BY <1>2, <2>2 DEF Assignment, AgreesWithBucket
  <2> QED  BY <2>1, <2>2
<1>4. i \in DOMAIN buckets' /\ buckets'[i].resetAt = now + Window /\ buckets'[i].count = 1
  BY <1>1 DEF Put
<1>5. Assigned(i, w, now + Window) = {}
  <2>1. \A k \in Mine(i) : w[k] \in Nat /\ w[k] # now + Window
    BY <1>1, <1>3, RateLimitAssumption
  <2> QED  BY <2>1 DEF Assigned
<1>6. \E v \in [Mine(i)' -> Nat] : Assignment(i, v)'
  <2>1. PICK e \in Nat : e = now + Window
    BY <1>1, RateLimitAssumption
  <2>2. now < e /\ e <= now + Window /\ \A k \in Mine(i) : w[k] + Window <= e
    <3>1. \A k \in Mine(i) : w[k] \in Nat
      OBVIOUS
    <3> QED  BY <1>1, <1>3, <2>1, <3>1, RateLimitAssumption
  <2>3. /\ Cardinality(Assigned(i, w, e)) + 1 <= buckets'[i].count
        /\ Cardinality(Assigned(i, w, e)) + 1 <= MaxRequests
    <3>1. Cardinality(Assigned(i, w, e)) = 0
      BY <1>5, <2>1, FS_EmptySet
    <3> QED  BY <1>4, <3>1, RateLimitAssumption
  <2>4. buckets'[i].resetAt = e /\ buckets'[i].count \in Nat
    BY <1>4, <2>1
  <2>5. Covers(i, w) /\ WithinQuota(i, w)
    BY <1>2 DEF Assignment
  <2> HIDE DEF b
  <2> QED  BY <1>1, <1>4, <2>2, <2>3, <2>4, <2>5, AdmittedIsAssigned
<1>7. ASSUME NEW j \in Identities, j # i
      PROVE  \E v \in [Mine(j)' -> Nat] : Assignment(j, v)'
  <2>1. PICK v \in [Mine(j) -> Nat] : Assignment(j, v)
    BY DEF QuotaInv
  <2> QED  BY <1>1, <1>7, <2>1, OthersStayAssigned
<1> QED  BY <1>6, <1>7 DEF QuotaInv

\* A counted request is assigned to the open window, if it is admitted.
LEMMA CountRequestQuota ==
  ASSUME IndInv, QuotaInv, NEW i \in Identities, CountRequest(i) PROVE QuotaInv'
<1> DEFINE b == Counted(buckets[i])
           e == buckets[i].resetAt
<1>1. /\ buckets' = Put(Swept, i, b) /\ Answer(i, ~Refused(b)) /\ UNCHANGED now
      /\ TypeOK /\ now \in Nat /\ i \in DOMAIN buckets
  BY CountedFacts DEF CountRequest, IndInv, TypeOK, Live
<1>2. PICK w \in [Mine(i) -> Nat] : Assignment(i, w)
  BY DEF QuotaInv
<1>3. /\ b.resetAt = e /\ b.count = buckets[i].count + 1 /\ buckets[i].count \in Nat
      /\ e \in Nat /\ now < e /\ e <= now + Window
  BY <1>1, CountedFacts DEF TypeOK, Bucket
<1>4. i \in DOMAIN buckets' /\ buckets'[i] = b
  BY <1>1 DEF Put
<1>5. /\ \A k \in Mine(i) : w[k] = e \/ w[k] + Window <= e
      /\ Cardinality(Assigned(i, w, e)) <= buckets[i].count
  BY <1>1, <1>2 DEF Assignment, AgreesWithBucket
<1>6. Cardinality(Assigned(i, w, e)) \in Nat
  BY <1>1, PartIsFinite DEF TypeOK, Assigned, Mine
<1>7. \E v \in [Mine(i)' -> Nat] : Assignment(i, v)'
  <2>1. CASE ~Refused(b)
    <3>1. Answer(i, TRUE)
      BY <1>1, <2>1, Zenon
    <3>2. /\ Cardinality(Assigned(i, w, e)) + 1 <= buckets'[i].count
          /\ Cardinality(Assigned(i, w, e)) + 1 <= MaxRequests
          /\ buckets'[i].resetAt = e /\ buckets'[i].count \in Nat
      BY <1>3, <1>4, <1>5, <1>6, <2>1, RateLimitAssumption DEF Refused
    <3> HIDE DEF b, e
    <3>3. PICK x \in Nat : x = e
      BY <1>3
    <3> QED
      BY <1>1, <1>2, <1>3, <1>4, <1>5, <3>1, <3>2, <3>3, AdmittedIsAssigned DEF Assignment
  <2>2. CASE Refused(b)
    <3>1. Answer(i, FALSE)
      BY <1>1, <2>2, Zenon
    <3>2. Mine(i)' = Mine(i) /\ \A k \in Mine(i) : answers'[k] = answers[k]
      <4>1. /\ Len(answers') = Len(answers) + 1 /\ Len(answers) \in Nat
            /\ \A k \in 1 .. Len(answers) : answers'[k] = answers[k]
            /\ answers'[Len(answers) + 1].allowed = FALSE
        BY <1>1, <3>1 DEF TypeOK, Answer, Answers
      <4> QED  BY <4>1 DEF Mine
    <3>3. Covers(i, w)' /\ WithinQuota(i, w)'
      BY <1>2, <3>2 DEF Assignment, Covers, WithinQuota, Assigned
    <3>4. AgreesWithBucket(i, w)'
      <4>1. Assigned(i, w, e)' = Assigned(i, w, e)
        BY <1>3, <1>4, <3>2 DEF Assigned
      <4>2. Cardinality(Assigned(i, w, e)) <= buckets'[i].count
        BY <1>3, <1>4, <1>5, <1>6
      <4> QED  BY <1>3, <1>4, <1>5, <3>2, <4>1, <4>2 DEF AgreesWithBucket, Assigned
    <3> QED  BY <3>2, <3>3, <3>4 DEF Assignment
  <2> QED  BY <2>1, <2>2
<1>8. ASSUME NEW j \in Identities, j # i
      PROVE  \E v \in [Mine(j)' -> Nat] : Assignment(j, v)'
  <2>1. PICK v \in [Mine(j) -> Nat] : Assignment(j, v)
    BY DEF QuotaInv
  <2>2. PICK allowed \in BOOLEAN : Answer(i, allowed)
    <3>1. (~Refused(b)) \in BOOLEAN
      BY DEF Refused
    <3> QED  BY <1>1, <3>1, Zenon
  <2> HIDE DEF b
  <2> QED  BY <1>1, <1>8, <2>1, <2>2, OthersStayAssigned
<1> QED  BY <1>7, <1>8 DEF QuotaInv

\* The assignments survive every step.
LEMMA QuotaNext == IndInv /\ QuotaInv /\ [Next]_vars => QuotaInv'
<1> SUFFICES ASSUME IndInv, QuotaInv, [Next]_vars PROVE QuotaInv'
  OBVIOUS
<1>1. CASE Tick \/ UNCHANGED vars
  <2>1. now' \in Nat /\ now' >= now /\ UNCHANGED <<buckets, answers>>
    BY <1>1, RateLimitAssumption DEF Tick, vars, IndInv, TypeOK
  <2>2. ASSUME NEW i \in Identities
        PROVE  \E w \in [Mine(i)' -> Nat] : Assignment(i, w)'
    <3>1. PICK w \in [Mine(i) -> Nat] : Assignment(i, w)
      BY DEF QuotaInv
    <3>2. Mine(i)' = Mine(i)
      BY <2>1 DEF Mine
    <3>3. Assignment(i, w)'
      BY <2>1, <3>1, <3>2, AssignmentStays DEF IndInv
    <3> QED  BY <3>2, <3>3
  <2> QED  BY <2>2 DEF QuotaInv
<1>2. ASSUME NEW i \in Identities, OpenWindow(i) PROVE QuotaInv'
  BY <1>2, OpenWindowQuota
<1>3. ASSUME NEW i \in Identities, CountRequest(i) PROVE QuotaInv'
  BY <1>3, CountRequestQuota
<1> QED  BY <1>1, <1>2, <1>3 DEF Next

\* Nothing is admitted yet.
LEMMA QuotaInit == Init => QuotaInv
<1> SUFFICES ASSUME Init, NEW i \in Identities
             PROVE  \E w \in [Mine(i) -> Nat] : Assignment(i, w)
  BY DEF QuotaInv
<1>1. Mine(i) = {} /\ DOMAIN buckets = {}
  BY DEF Init, Mine
<1>2. PICK w : w = [k \in Mine(i) |-> 0]
  OBVIOUS
<1>3. WithinQuota(i, w)
  <2>1. \A e \in Nat : Assigned(i, w, e) = {}
    BY <1>1 DEF Assigned
  <2> QED  BY <2>1, FS_EmptySet, RateLimitAssumption DEF WithinQuota
<1>4. Covers(i, w) /\ AgreesWithBucket(i, w)
  BY <1>1 DEF Covers, AgreesWithBucket
<1>5. w \in [Mine(i) -> Nat]
  BY <1>2
<1> QED  BY <1>3, <1>4, <1>5 DEF Assignment

\* A stretch of length Window meets two windows at most.
LEMMA StretchMeetsTwo ==
  ASSUME TypeOK, NEW i \in Identities, NEW t \in Nat,
         NEW w \in [Mine(i) -> Nat], Covers(i, w)
  PROVE  \E d, e \in Nat : Admitted(Recent(i, t)) \subseteq Assigned(i, w, d) \cup Assigned(i, w, e)
<1> DEFINE A == Admitted(Recent(i, t))
<1>1. A \subseteq Mine(i)
  BY DEF Admitted, Recent, Mine
<1>2. \A k \in A : w[k] \in Nat /\ t < w[k] + Window /\ w[k] <= t + Window
  <2> SUFFICES ASSUME NEW k \in A
               PROVE  w[k] \in Nat /\ t < w[k] + Window /\ w[k] <= t + Window
    OBVIOUS
  <2>1. /\ k \in Mine(i) /\ w[k] \in Nat /\ answers[k] \in Answers
        /\ answers[k].at <= t /\ answers[k].at + Window > t
    BY <1>1 DEF Admitted, Recent, TypeOK
  <2>2. answers[k].at \in Nat
    BY <2>1 DEF Answers
  <2> QED  BY <2>1, <2>2, RateLimitAssumption DEF Covers
<1>3. \A k, l \in A : w[k] < w[l] => w[k] + Window <= w[l]
  BY <1>1 DEF Covers
<1> HIDE DEF A
<1>4. CASE \E k, l \in A : w[k] < w[l]
  <2>1. PICK k, l \in A : w[k] < w[l]
    BY <1>4
  <2>2. \A m \in A : w[m] = w[k] \/ w[m] = w[l]
    BY <1>2, <1>3, <2>1, RateLimitAssumption
  <2>3. A \subseteq Assigned(i, w, w[k]) \cup Assigned(i, w, w[l])
    BY <1>1, <2>2 DEF Assigned
  <2> QED  BY <1>2, <2>3 DEF A
<1>5. CASE \A k, l \in A : w[k] = w[l]
  <2>1. CASE A = {}
    BY <2>1 DEF A
  <2>2. CASE A # {}
    <3>1. PICK k \in A : TRUE
      BY <2>2
    <3>2. A \subseteq Assigned(i, w, w[k]) \cup Assigned(i, w, w[k])
      BY <1>1, <1>5, <3>1 DEF Assigned
    <3> QED  BY <1>2, <3>2 DEF A
  <2> QED  BY <2>1, <2>2
<1>6. \/ \E k, l \in A : w[k] < w[l]
      \/ \A k, l \in A : w[k] = w[l]
  BY <1>2
<1> QED  BY <1>4, <1>5, <1>6

\* Over any stretch of Window milliseconds, at any time and for any quota, an
\* identity gets at most twice its quota through.
THEOREM QuotaHolds == Spec => []SlidingQuota
<1>1. IndInv /\ QuotaInv => SlidingQuota
  <2> SUFFICES ASSUME IndInv, QuotaInv, NEW i \in Identities, NEW t \in 0 .. now
               PROVE  Cardinality(Admitted(Recent(i, t))) <= 2 * MaxRequests
    BY DEF SlidingQuota
  <2>1. TypeOK /\ t \in Nat
    BY DEF IndInv, TypeOK
  <2>2. PICK w \in [Mine(i) -> Nat] : Assignment(i, w)
    BY DEF QuotaInv
  <2>3. PICK d, e \in Nat :
          Admitted(Recent(i, t)) \subseteq Assigned(i, w, d) \cup Assigned(i, w, e)
    BY <2>1, <2>2, StretchMeetsTwo DEF Assignment
  <2> DEFINE D == Assigned(i, w, d)
             E == Assigned(i, w, e)
  <2>4. /\ IsFiniteSet(D) /\ Cardinality(D) \in Nat /\ Cardinality(D) <= MaxRequests
        /\ IsFiniteSet(E) /\ Cardinality(E) \in Nat /\ Cardinality(E) <= MaxRequests
    <3>1. D \subseteq 1 .. Len(answers) /\ E \subseteq 1 .. Len(answers)
      BY DEF Assigned, Mine
    <3>2. answers \in Seq(Answers)
      BY <2>1 DEF TypeOK
    <3> QED  BY <2>2, <3>1, <3>2, PartIsFinite DEF Assignment, WithinQuota
  <2> HIDE DEF D, E
  <2>5. /\ IsFiniteSet(D \cup E)
        /\ Cardinality(D \cup E) = Cardinality(D) + Cardinality(E) - Cardinality(D \cap E)
    BY <2>4, FS_Union
  <2>6. Cardinality(D \cap E) \in Nat /\ Cardinality(D \cup E) \in Nat
    BY <2>4, <2>5, FS_Intersection, FS_CardinalityType
  <2>7. Cardinality(Admitted(Recent(i, t))) <= Cardinality(D \cup E)
    BY <2>3, <2>5, FS_Subset DEF D, E
  <2>8. Cardinality(Admitted(Recent(i, t))) \in Nat
    BY <2>3, <2>5, FS_Subset, FS_CardinalityType DEF D, E
  <2> QED  BY <2>4, <2>5, <2>6, <2>7, <2>8, RateLimitAssumption
<1>2. Spec => [](IndInv /\ QuotaInv)
  BY InitInd, NextInd, QuotaInit, QuotaNext, PTL DEF Spec
<1> QED
  BY <1>1, <1>2, PTL

-----------------------------------------------------------------------------
(* Refinement. *)

\* The answer to the last request is what the fixed window decided.
LEMMA AnswerIsDecision ==
  ASSUME IndInv, NEW i, NEW allowed, Answer(i, allowed)
  PROVE  decisionBar' = {[identity |-> i, at |-> now, allowed |-> allowed]}
BY DEF IndInv, TypeOK, Answer, decisionBar

\* A request touches no window but its own, swept or not.
LEMMA OtherWindowsKept ==
  ASSUME IndInv, NEW i \in Identities, NEW b,
         buckets' = Put(Swept, i, b), UNCHANGED now,
         NEW j \in Identities, j # i
  PROVE  /\ usedBar'[j] = usedBar[j]
         /\ endsAtBar'[j] = endsAtBar[j]
<1>1. /\ j \in DOMAIN buckets' <=> j \in DOMAIN Swept
      /\ j \in DOMAIN Swept => buckets'[j] = Swept[j]
  BY DEF Put
<1>2. /\ j \in DOMAIN Swept => j \in DOMAIN buckets /\ Swept[j] = buckets[j]
      /\ j \in DOMAIN buckets => j \in DOMAIN Swept \/ Expired(buckets[j])
  BY SweepKeepsLive DEF IndInv
<1>3. Live(j)' <=> Live(j)
  BY <1>1, <1>2 DEF Live, Expired
<1>4. Live(j) => buckets'[j] = buckets[j]
  BY <1>1, <1>2 DEF Live
<1> QED
  BY <1>3, <1>4 DEF usedBar, endsAtBar, Refused

\* Every step of the guard is a step of the plain fixed window, or none.
LEMMA RefinesNext ==
  ASSUME IndInv, IndInv', [Next]_vars PROVE [Promise!Next]_Promise!vars
<1>0. now \in Nat /\ (\A i \in DOMAIN buckets : buckets[i] \in Bucket)
  BY DEF IndInv, TypeOK
<1>1. CASE Tick
  <2>1. now' \in Nat /\ now' > now /\ UNCHANGED <<buckets, answers>>
    BY <1>0, <1>1, RateLimitAssumption DEF Tick
  <2>2. ASSUME NEW i \in Identities
        PROVE  /\ usedBar'[i] = IF endsAtBar[i] > now' THEN usedBar[i] ELSE 0
               /\ endsAtBar'[i] = IF endsAtBar[i] > now' THEN endsAtBar[i] ELSE 0
    <3>1. CASE i \notin DOMAIN buckets
      BY <2>1, <3>1 DEF usedBar, endsAtBar, Live
    <3>2. CASE i \in DOMAIN buckets
      <4>1. buckets[i].resetAt \in Nat
        BY <1>0, <3>2 DEF Bucket
      <4> QED
        BY <1>0, <2>1, <3>2, <4>1 DEF usedBar, endsAtBar, Live, Expired, Refused
    <3> QED  BY <3>1, <3>2
  <2>3. Promise!Tick
    BY <2>1, <2>2 DEF Promise!Tick, usedBar, endsAtBar, decisionBar
  <2> QED  BY <2>3 DEF Promise!Next
<1>2. ASSUME NEW i \in Identities, OpenWindow(i) PROVE Promise!Open(i)
  <2> DEFINE b == [count |-> 1, resetAt |-> now + Window]
  <2>1. buckets' = Put(Swept, i, b) /\ UNCHANGED now
    BY <1>2 DEF OpenWindow
  <2>2. \A j \in Identities : j # i => usedBar'[j] = usedBar[j] /\ endsAtBar'[j] = endsAtBar[j]
    BY <2>1, OtherWindowsKept
  <2>3. ~Live(i)
    BY <1>2, SweepKeepsLive DEF OpenWindow, Live, IndInv
  <2>4. i \in DOMAIN buckets' /\ buckets'[i] = b
    BY <2>1 DEF Put
  <2>5. Live(i)' /\ ~Refused(b)
    BY <1>0, <2>1, <2>4, RateLimitAssumption DEF Live, Expired, Refused
  <2>6. /\ usedBar[i] = 0
        /\ usedBar'[i] = 1 /\ endsAtBar'[i] = now + Window
    BY <2>3, <2>4, <2>5 DEF usedBar, endsAtBar
  <2>7. /\ usedBar' = [usedBar EXCEPT ![i] = 1]
        /\ endsAtBar' = [endsAtBar EXCEPT ![i] = now + Window]
    BY <2>2, <2>6 DEF usedBar, endsAtBar
  <2>8. decisionBar' = {[identity |-> i, at |-> now, allowed |-> TRUE]}
    BY <1>2, AnswerIsDecision DEF OpenWindow
  <2> QED
    BY <2>1, <2>6, <2>7, <2>8
       DEF Promise!Open, Promise!Decide, usedBar, endsAtBar, decisionBar
<1>3. ASSUME NEW i \in Identities, CountRequest(i)
      PROVE  Promise!Admit(i) \/ Promise!Refuse(i)
  <2> DEFINE b == Counted(buckets[i])
             n == buckets[i].count
  <2>1. /\ buckets' = Put(Swept, i, b) /\ UNCHANGED now
        /\ Live(i) /\ b.count = n + 1 /\ b.resetAt = buckets[i].resetAt
        /\ n \in Nat \ {0} /\ buckets[i].resetAt \in Nat /\ b.resetAt > now
    BY <1>3, CountedFacts DEF CountRequest, Bucket
  <2>2. \A j \in Identities : j # i => usedBar'[j] = usedBar[j] /\ endsAtBar'[j] = endsAtBar[j]
    BY <2>1, OtherWindowsKept
  <2>3. i \in DOMAIN buckets' /\ buckets'[i] = b
    BY <2>1 DEF Put
  <2>4. Live(i)' /\ endsAtBar'[i] = endsAtBar[i]
    BY <1>0, <2>1, <2>3 DEF Live, Expired, endsAtBar
  <2>5. endsAtBar' = endsAtBar
    BY <2>2, <2>4 DEF endsAtBar
  <2>6. /\ usedBar[i] = IF n > MaxRequests THEN MaxRequests ELSE n
        /\ usedBar'[i] = IF n + 1 > MaxRequests THEN MaxRequests ELSE n + 1
    BY <2>1, <2>3, <2>4 DEF usedBar, Refused
  <2>7. CASE n < MaxRequests
    <3>1. usedBar[i] = n /\ n \in 1 .. (MaxRequests - 1) /\ usedBar'[i] = n + 1
      BY <2>1, <2>6, <2>7, RateLimitAssumption
    <3>2. usedBar' = [usedBar EXCEPT ![i] = usedBar[i] + 1]
      BY <2>2, <3>1 DEF usedBar
    <3>3. ~Refused(b)
      BY <2>1, <2>7, RateLimitAssumption DEF Refused
    <3>4. Answer(i, TRUE)
      BY <1>3, <3>3, CountedFacts, Zenon DEF CountRequest
    <3>5. decisionBar' = {[identity |-> i, at |-> now, allowed |-> TRUE]}
      BY <3>4, AnswerIsDecision
    <3> QED
      BY <2>1, <2>5, <3>1, <3>2, <3>5
         DEF Promise!Admit, Promise!Decide, usedBar, endsAtBar, decisionBar
  <2>8. CASE n >= MaxRequests
    <3>1. usedBar[i] = MaxRequests /\ usedBar'[i] = MaxRequests
      BY <2>1, <2>6, <2>8, RateLimitAssumption
    <3>2. usedBar' = usedBar
      BY <2>2, <3>1 DEF usedBar
    <3>3. Refused(b)
      BY <2>1, <2>8, RateLimitAssumption DEF Refused
    <3>4. Answer(i, FALSE)
      BY <1>3, <3>3, CountedFacts, Zenon DEF CountRequest
    <3>5. decisionBar' = {[identity |-> i, at |-> now, allowed |-> FALSE]}
      BY <3>4, AnswerIsDecision
    <3> QED
      BY <2>1, <2>5, <3>1, <3>2, <3>5
         DEF Promise!Refuse, Promise!Decide, usedBar, endsAtBar, decisionBar
  <2> QED  BY <2>1, <2>7, <2>8, RateLimitAssumption
<1>4. CASE UNCHANGED vars
  BY <1>4
     DEF vars, Promise!vars, usedBar, endsAtBar, decisionBar, Live, Expired, Refused
<1> QED
  BY <1>1, <1>2, <1>3, <1>4 DEF Next, Promise!Next

\* The empty Map stands for no open window.
LEMMA RefinesInit == Init => Promise!Init
BY DEF Init, Promise!Init, usedBar, endsAtBar, decisionBar, Live

\* The guard with its swept table is the plain fixed window.
THEOREM Refinement == Spec => ImplementsFixedWindow
<1>1. IndInv /\ IndInv' /\ [Next]_vars => [Promise!Next]_Promise!vars
  BY RefinesNext
<1> QED
  BY <1>1, RefinesInit, Invariance, PTL DEF Spec, Promise!Spec, ImplementsFixedWindow
=============================================================================
