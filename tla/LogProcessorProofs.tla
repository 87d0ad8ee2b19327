------------------------- MODULE LogProcessorProofs -------------------------
(***************************************************************************)
(* Safety of the log processor for any number of replicas, partitions,      *)
(* events and failures.  The inductive invariant is the conjunction of the  *)
(* checked invariants: what a handler knows at each await (HandlersInStep)  *)
(* is what makes the offset it commits safe (NoSilentLoss), and a new       *)
(* handler takes its knowledge from the committed offset.  That repetition  *)
(* needs failures (RepetitionInv) is a budget: who can still send a record  *)
(* and what was sent of it never outgrow the failures there were.           *)
(***************************************************************************)
EXTENDS LogProcessor, FiniteSetTheorems, TLAPS

IndInv ==
  /\ TypeOK
  /\ HandlersInStep
  /\ NoSilentLoss
  /\ InOrder
  /\ BroadcastIsSearchable

\* No action takes anything back: logs, documents, counts and skipped offsets
\* only grow.
Grows ==
  /\ \A p \in Partitions :
       /\ Len(topic[p]) <= Len(topic'[p])
       /\ \A o \in 1 .. Len(topic[p]) : topic'[p][o] = topic[p][o]
       /\ skipped[p] \subseteq skipped'[p]
       /\ \A o \in Offsets : /\ broadcasts[p][o] <= broadcasts'[p][o]
                             /\ deadLetters[p][o] <= deadLetters'[p][o]
  /\ documents \subseteq documents'

-----------------------------------------------------------------------------
(* What growth preserves. *)

\* An event that reached its destination is never un-settled.
LEMMA SettledGrows ==
  ASSUME TypeOK, TypeOK', Grows, NEW p \in Partitions, NEW o \in 1 .. Len(topic[p]),
         Settled(p, o)
  PROVE  Settled(p, o)'
<1>1. o \in Offsets
  BY ConstantsAssumption DEF TypeOK, Offsets
<1>2. /\ broadcasts[p][o] \in Nat /\ broadcasts'[p][o] \in Nat
      /\ deadLetters[p][o] \in Nat /\ deadLetters'[p][o] \in Nat
  BY <1>1 DEF TypeOK
<1>3. topic'[p][o] = topic[p][o]
  BY DEF Grows
<1> QED
  BY <1>1, <1>2, <1>3 DEF Grows, Settled, TypeOK

\* An offset accounted for stays accounted for.
LEMMA CoveredGrows ==
  ASSUME TypeOK, TypeOK', Grows, NEW p \in Partitions, NEW o \in 1 .. Len(topic[p]),
         Covered(p, o)
  PROVE  Covered(p, o)'
BY SettledGrows DEF Covered, Grows

\* A handler that does not move keeps what it knows.
LEMMA HandlerKept ==
  ASSUME TypeOK, TypeOK', Grows, NEW c \in Consumers, NEW p \in Partitions,
         HandlerInStep(c, p), task'[c][p] = task[c][p]
  PROVE  HandlerInStep(c, p)'
<1> DEFINE t == task[c][p]
<1>1. t \in Tasks /\ Len(topic[p]) \in Nat /\ Len(topic'[p]) \in Nat
  BY DEF TypeOK
<1>2. Len(topic[p]) <= Len(topic'[p])
  BY DEF Grows
<1>3. ASSUME t.pc # "idle"
      PROVE  /\ t.pos \in 1 .. (Len(topic'[p]) + 1)
             /\ \A o \in 1 .. (t.pos - 1) : Covered(p, o)'
  <2>1. t.pos \in 1 .. (Len(topic[p]) + 1)
    BY <1>3 DEF HandlerInStep
  <2>2. ASSUME NEW o \in 1 .. (t.pos - 1) PROVE Covered(p, o)'
    <3>1. o \in 1 .. Len(topic[p])
      BY <1>1, <2>1
    <3> QED  BY <1>3, <3>1, CoveredGrows DEF HandlerInStep
  <2> QED  BY <1>1, <1>2, <2>1, <2>2
<1>4. ASSUME t.pc \in InFlight
      PROVE  /\ t.pos \in 1 .. Len(topic[p])
             /\ topic'[p][t.pos] = topic[p][t.pos]
  BY <1>1, <1>4 DEF HandlerInStep, InFlight, Grows
<1>5. t.pc \in InFlight => t.pos <= Len(topic'[p])
  BY <1>1, <1>2, <1>4
<1>6. t.pc \in {"index", "publish"} => topic'[p][t.pos] \notin Dead
  BY <1>4 DEF HandlerInStep, InFlight
<1>7. t.pc = "publish" => topic'[p][t.pos] \in documents'
  BY <1>4 DEF HandlerInStep, InFlight, Grows
<1>8. t.pc = "dlq" => topic'[p][t.pos] \in Dead
  BY <1>4 DEF HandlerInStep, InFlight
<1>9. t.pc = "commit" => Settled(p, t.pos)'
  BY <1>4, SettledGrows DEF HandlerInStep, InFlight
<1> QED
  BY <1>3, <1>5, <1>6, <1>7, <1>8, <1>9 DEF HandlerInStep

\* An offset that is not committed anew still covers what it passed.
LEMMA CommitKept ==
  ASSUME TypeOK, TypeOK', Grows, NEW p \in Partitions,
         CommitCovered(p), committed'[p] = committed[p]
  PROVE  CommitCovered(p)'
<1>1. /\ Len(topic[p]) \in Nat /\ Len(topic'[p]) \in Nat
      /\ committed[p] \in 0 .. (TopicBound + 1)
      /\ Len(topic[p]) <= Len(topic'[p])
  BY ConstantsAssumption DEF TypeOK, Grows
<1>2. ASSUME NEW o \in 1 .. Len(topic'[p]), o < committed[p]
      PROVE  Covered(p, o)'
  <2>1. o \in 1 .. Len(topic[p])
    BY <1>1, <1>2, ConstantsAssumption DEF CommitCovered
  <2> QED  BY <1>2, <2>1, CoveredGrows DEF CommitCovered
<1>3. committed[p] <= Len(topic'[p]) + 1
  BY <1>1, ConstantsAssumption DEF CommitCovered
<1> QED
  BY <1>2, <1>3 DEF CommitCovered

\* A record whose counts do not change keeps its place in the order.
LEMMA RecordKept ==
  ASSUME TypeOK, TypeOK', Grows, NEW p \in Partitions, NEW o \in Offsets,
         InOrderAt(p, o), SearchableAt(p, o),
         broadcasts'[p][o] = broadcasts[p][o],
         deadLetters'[p][o] = deadLetters[p][o]
  PROVE  InOrderAt(p, o)' /\ SearchableAt(p, o)'
<1>1. /\ Len(topic[p]) \in Nat /\ Len(topic'[p]) \in Nat /\ o \in Nat /\ o >= 1
      /\ Len(topic[p]) <= Len(topic'[p])
      /\ broadcasts[p][o] \in Nat /\ deadLetters[p][o] \in Nat
  <2>1. Len(topic[p]) \in Nat /\ Len(topic'[p]) \in Nat
    BY DEF TypeOK
  <2>2. Len(topic[p]) <= Len(topic'[p])
    BY DEF Grows
  <2>3. broadcasts[p][o] \in Nat /\ deadLetters[p][o] \in Nat
    BY DEF TypeOK
  <2> QED  BY <2>1, <2>2, <2>3, ConstantsAssumption DEF Offsets
<1>2. ASSUME broadcasts[p][o] + deadLetters[p][o] > 0
      PROVE  o <= Len(topic'[p]) /\ \A l \in 1 .. (o - 1) : Covered(p, l)'
  <2>1. o <= Len(topic[p]) /\ \A l \in 1 .. (o - 1) : Covered(p, l)
    BY <1>2 DEF InOrderAt
  <2>2. \A l \in 1 .. (o - 1) : l \in 1 .. Len(topic[p])
    BY <1>1, <2>1
  <2> QED  BY <1>1, <2>1, <2>2, CoveredGrows
<1>3. ASSUME broadcasts[p][o] > 0
      PROVE  o <= Len(topic'[p]) /\ topic'[p][o] \in documents'
  BY <1>1, <1>3 DEF SearchableAt, Grows
<1> QED
  BY <1>2, <1>3 DEF InOrderAt, SearchableAt

-----------------------------------------------------------------------------
(* The effect of a step on the whole invariant. *)

\* Committed offsets that do not change stay safe.
LEMMA CommitsKept ==
  ASSUME IndInv, TypeOK', Grows, UNCHANGED committed
  PROVE  NoSilentLoss'
BY CommitKept DEF IndInv, NoSilentLoss

\* If nothing is broadcast or dead-lettered, the order stays as it is.
LEMMA RecordsKept ==
  ASSUME IndInv, TypeOK', Grows, UNCHANGED <<broadcasts, deadLetters>>
  PROVE  InOrder' /\ BroadcastIsSearchable'
BY RecordKept DEF IndInv, InOrder, BroadcastIsSearchable

\* A step of one handler leaves the others alone.
LEMMA SetTaskFacts ==
  ASSUME TypeOK, NEW c \in Consumers, NEW p \in Partitions, NEW t \in Tasks,
         SetTask(c, p, t)
  PROVE  /\ task' \in [Consumers -> [Partitions -> Tasks]]
         /\ task'[c][p] = t
         /\ \A d \in Consumers, q \in Partitions :
              d # c \/ q # p => task'[d][q] = task[d][q]
BY DEF TypeOK, SetTask

\* So only the handler that moved has something to show.
LEMMA OneHandlerMoves ==
  ASSUME IndInv, TypeOK', Grows, NEW c \in Consumers, NEW p \in Partitions,
         NEW t \in Tasks, SetTask(c, p, t), HandlerInStep(c, p)'
  PROVE  HandlersInStep'
<1>1. TypeOK
  BY DEF IndInv
<1> SUFFICES ASSUME NEW d \in Consumers, NEW q \in Partitions, d # c \/ q # p
             PROVE  HandlerInStep(d, q)'
  BY DEF HandlersInStep
<1>2. task'[d][q] = task[d][q]
  BY <1>1, SetTaskFacts
<1> QED
  BY <1>1, <1>2, HandlerKept DEF IndInv, HandlersInStep

\* What every awaiting handler knows of its own position.
LEMMA AtWork ==
  ASSUME IndInv, NEW c \in Consumers, NEW p \in Partitions, Working(c, p)
  PROVE  /\ task[c][p] \in Tasks
         /\ task[c][p].pos \in 1 .. Len(topic[p])
         /\ task[c][p].pos \in Offsets
         /\ Record(c, p) \in Events
         /\ \A o \in 1 .. (task[c][p].pos - 1) :
              o \in 1 .. Len(topic[p]) /\ Covered(p, o)
<1>1. /\ task[c][p] \in Tasks
      /\ Len(topic[p]) \in Nat
      /\ Len(topic[p]) <= TopicBound
      /\ topic[p] \in Seq(Events)
  BY DEF IndInv, TypeOK
<1>2. HandlerInStep(c, p)
  BY DEF IndInv, HandlersInStep
<1>3. /\ task[c][p].pos \in 1 .. Len(topic[p])
      /\ \A o \in 1 .. (task[c][p].pos - 1) : Covered(p, o)
  BY <1>1, <1>2 DEF HandlerInStep, Working, InFlight
<1>4. task[c][p].pos \in Offsets
  BY <1>1, <1>3, ConstantsAssumption DEF Offsets
<1>5. Record(c, p) \in Events
  BY <1>1, <1>3 DEF Record
<1>6. \A o \in 1 .. (task[c][p].pos - 1) : o \in 1 .. Len(topic[p])
  BY <1>1, <1>3
<1> QED
  BY <1>1, <1>3, <1>4, <1>5, <1>6

\* A handler that moves on to the call s has what HandlerInStep asks at s.
LEMMA StageInStep ==
  ASSUME IndInv, TypeOK', Grows, NEW c \in Consumers, NEW p \in Partitions,
         NEW s \in InFlight,
         task[c][p].pc # "idle", task[c][p].pos \in 1 .. Len(topic[p]),
         SetTask(c, p, [task[c][p] EXCEPT !.pc = s]),
         s \in {"index", "publish"} => Record(c, p) \notin Dead,
         s = "publish" => Record(c, p) \in documents',
         s = "dlq" => Record(c, p) \in Dead,
         s = "commit" => Settled(p, task[c][p].pos)'
  PROVE  HandlersInStep'
<1> DEFINE t == [task[c][p] EXCEPT !.pc = s]
<1>0. TypeOK
  BY DEF IndInv
<1>1. t \in Tasks /\ t.pos = task[c][p].pos /\ t.pc = s
  <2>1. task[c][p] \in Tasks
    BY <1>0 DEF TypeOK
  <2> QED  BY <2>1 DEF Tasks, Stages
<1>2. task'[c][p] = t
  BY <1>0, <1>1, SetTaskFacts
<1>3. /\ Len(topic[p]) \in Nat /\ Len(topic'[p]) \in Nat
      /\ Len(topic[p]) <= Len(topic'[p])
      /\ topic'[p][t.pos] = topic[p][t.pos]
  BY <1>0, <1>1 DEF TypeOK, Grows
<1>4. ASSUME NEW o \in 1 .. (t.pos - 1) PROVE Covered(p, o)'
  <2>1. o \in 1 .. Len(topic[p])
    BY <1>1, <1>3
  <2>2. Covered(p, o)
    BY <1>1 DEF IndInv, HandlersInStep, HandlerInStep
  <2> QED  BY <1>0, <2>1, <2>2, CoveredGrows
<1>5. HandlerInStep(c, p)'
  BY <1>1, <1>2, <1>3, <1>4 DEF HandlerInStep, Record
<1> QED
  BY <1>1, <1>5, OneHandlerMoves

\* A handler that throws is offered its record again, or nothing.
LEMMA RetryInStep ==
  ASSUME IndInv, TypeOK', Grows, NEW c \in Consumers, NEW p \in Partitions,
         Working(c, p), SetTask(c, p, Retry(task[c][p]))
  PROVE  HandlersInStep'
<1> DEFINE t == Retry(task[c][p])
<1>0. TypeOK
  BY DEF IndInv
<1>1. t \in Tasks /\ (t = Idle \/ t = Ready(task[c][p].pos))
  BY AtWork DEF Retry, Ready, Idle, Tasks, Stages
<1>2. task'[c][p] = t
  BY <1>0, <1>1, SetTaskFacts
<1>3. /\ task[c][p].pos \in 1 .. Len(topic'[p])
      /\ \A o \in 1 .. (task[c][p].pos - 1) : Covered(p, o)'
  <2>1. Len(topic[p]) \in Nat /\ Len(topic'[p]) \in Nat /\ Len(topic[p]) <= Len(topic'[p])
    BY <1>0 DEF TypeOK, Grows
  <2> QED  BY <1>0, <2>1, AtWork, CoveredGrows
<1>4. HandlerInStep(c, p)'
  <2>1. Len(topic'[p]) \in Nat
    BY DEF TypeOK
  <2> QED
    BY <1>1, <1>2, <1>3, <2>1 DEF HandlerInStep, Idle, Ready, InFlight
<1> QED
  BY <1>1, <1>4, OneHandlerMoves

\* A handler whose partition is taken away, or left alone, stays in step.
LEMMA RevokedInStep ==
  ASSUME IndInv, TypeOK', Grows,
         \A c \in Consumers, p \in Partitions :
           task'[c][p] \in {task[c][p], Revoked(task[c][p]), Idle}
  PROVE  HandlersInStep'
<1> SUFFICES ASSUME NEW c \in Consumers, NEW p \in Partitions
             PROVE  HandlerInStep(c, p)'
  BY DEF HandlersInStep
<1>0. TypeOK /\ HandlerInStep(c, p)
  BY DEF IndInv, HandlersInStep
<1>1. CASE task'[c][p] = task[c][p]
  BY <1>0, <1>1, HandlerKept
<1>2. CASE task'[c][p] = Idle
  BY <1>2 DEF HandlerInStep, Idle, InFlight
<1>3. CASE Working(c, p) /\ task'[c][p] = [task[c][p] EXCEPT !.fresh = FALSE]
  <2> DEFINE t == task[c][p]
  <2>1. /\ t \in Tasks
        /\ t.pos \in 1 .. Len(topic[p])
        /\ \A o \in 1 .. (t.pos - 1) : o \in 1 .. Len(topic[p]) /\ Covered(p, o)
    BY <1>3, AtWork
  <2>2. task'[c][p].pc = t.pc /\ task'[c][p].pos = t.pos
    BY <1>3, <2>1 DEF Tasks
  <2>3. /\ Len(topic[p]) \in Nat /\ Len(topic'[p]) \in Nat
        /\ Len(topic[p]) <= Len(topic'[p])
        /\ topic'[p][t.pos] = topic[p][t.pos]
        /\ documents \subseteq documents'
    BY <1>0, <2>1 DEF TypeOK, Grows
  <2>4. \A o \in 1 .. (t.pos - 1) : Covered(p, o)'
    BY <1>0, <2>1, CoveredGrows
  <2>5. t.pc = "commit" => Settled(p, t.pos)'
    BY <1>0, <2>1, <2>2, SettledGrows DEF HandlerInStep
  <2>6. t.pos \in 1 .. (Len(topic'[p]) + 1) /\ t.pos <= Len(topic'[p])
    BY <2>1, <2>3
  <2> QED
    BY <1>0, <2>2, <2>3, <2>4, <2>5, <2>6 DEF HandlerInStep
<1> QED
  BY <1>1, <1>2, <1>3 DEF Revoked, Working

-----------------------------------------------------------------------------
(* The invariant. *)

\* Empty partitions satisfy the invariant.
LEMMA InitInd == Init => IndInv
<1> SUFFICES ASSUME Init PROVE IndInv
  OBVIOUS
<1>1. TypeOK
  <2>1. Idle \in Tasks
    BY DEF Idle, Tasks, Stages
  <2>2. committed \in [Partitions -> 0 .. (TopicBound + 1)]
    BY ConstantsAssumption DEF Init, NoOffset
  <2>3. /\ topic \in [Partitions -> Seq(Events)]
        /\ \A p \in Partitions : Len(topic[p]) <= TopicBound
    BY ConstantsAssumption DEF Init
  <2>4. faults \in 0 .. FaultBound
    BY ConstantsAssumption DEF Init
  <2> QED  BY <2>1, <2>2, <2>3, <2>4 DEF Init, TypeOK
<1>2. HandlersInStep
  BY DEF Init, HandlersInStep, HandlerInStep, Idle, InFlight
<1>3. NoSilentLoss
  BY DEF Init, NoSilentLoss, CommitCovered, NoOffset
<1>4. InOrder /\ BroadcastIsSearchable
  BY DEF Init, InOrder, InOrderAt, BroadcastIsSearchable, SearchableAt
<1> QED
  BY <1>1, <1>2, <1>3, <1>4 DEF IndInv

\* Accepting an event disturbs nothing that was there before.
LEMMA ProduceInd ==
  ASSUME IndInv, NEW e \in Events, Produce(e)
  PROVE  IndInv'
<1> DEFINE p == PartitionOf[e]
<1>1. p \in Partitions /\ Len(topic[p]) < TopicBound /\ TypeOK
  BY ConstantsAssumption DEF Produce, IndInv
<1>2. topic' \in [Partitions -> Seq(Events)]
  BY <1>1 DEF Produce, TypeOK
<1>3. \A q \in Partitions :
        /\ Len(topic'[q]) <= TopicBound
        /\ Len(topic[q]) <= Len(topic'[q])
        /\ \A o \in 1 .. Len(topic[q]) : topic'[q][o] = topic[q][o]
  <2> SUFFICES ASSUME NEW q \in Partitions
               PROVE  /\ Len(topic'[q]) <= TopicBound
                      /\ Len(topic[q]) <= Len(topic'[q])
                      /\ \A o \in 1 .. Len(topic[q]) : topic'[q][o] = topic[q][o]
    OBVIOUS
  <2>1. CASE q = p
    <3>1. topic'[q] = Append(topic[q], e) /\ topic[q] \in Seq(Events)
      BY <1>1, <2>1 DEF Produce, TypeOK
    <3> QED  BY <1>1, <2>1, <3>1, ConstantsAssumption
  <2>2. CASE q # p
    <3>1. topic'[q] = topic[q] /\ Len(topic[q]) \in Nat
      BY <1>1, <2>2 DEF Produce, TypeOK
    <3> QED  BY <1>1, <3>1 DEF TypeOK
  <2> QED  BY <2>1, <2>2
<1>4. UNCHANGED <<committed, members, held, task, documents, broadcasts,
                 deadLetters, skipped, faults>>
  BY DEF Produce, group, outcomes
<1>5. TypeOK'
  BY <1>1, <1>2, <1>3, <1>4 DEF TypeOK
<1>6. Grows
  BY <1>1, <1>3, <1>4 DEF Grows, TypeOK
<1>7. HandlersInStep'
  BY <1>4, <1>5, <1>6, RevokedInStep
<1> QED
  BY <1>4, <1>5, <1>6, <1>7, CommitsKept, RecordsKept DEF IndInv

\* Steps that write nothing outside the group.
LEMMA FrameGrows ==
  ASSUME TypeOK, UNCHANGED <<topic, outcomes, skipped>>
  PROVE  Grows
<1>1. UNCHANGED <<topic, documents, broadcasts, deadLetters, skipped>>
  BY DEF outcomes
<1>2. \A p \in Partitions :
        /\ Len(topic[p]) \in Nat
        /\ \A o \in Offsets : broadcasts[p][o] \in Nat /\ deadLetters[p][o] \in Nat
  BY DEF TypeOK
<1> QED
  BY <1>1, <1>2 DEF Grows

\* Counting one more publication.
LEMMA CountUpFacts ==
  ASSUME NEW counts \in [Partitions -> [Offsets -> Nat]],
         NEW p \in Partitions, NEW o \in Offsets
  PROVE  /\ CountUp(counts, p, o) \in [Partitions -> [Offsets -> Nat]]
         /\ CountUp(counts, p, o)[p][o] = counts[p][o] + 1
         /\ \A q \in Partitions, l \in Offsets :
              /\ counts[q][l] <= CountUp(counts, p, o)[q][l]
              /\ q # p \/ l # o => CountUp(counts, p, o)[q][l] = counts[q][l]
BY DEF CountUp

\* The count of the record at hand goes up by one.
LEMMA CountUpAt ==
  ASSUME NEW counts \in [Partitions -> [Offsets -> Nat]],
         NEW p \in Partitions, NEW o \in Offsets
  PROVE  CountUp(counts, p, o)[p][o] = counts[p][o] + 1
BY CountUpFacts

\* No count goes down, and those of other records stay.
LEMMA CountUpGrows ==
  ASSUME NEW counts \in [Partitions -> [Offsets -> Nat]],
         NEW p \in Partitions, NEW o \in Offsets
  PROVE  \A q \in Partitions, l \in Offsets :
           /\ counts[q][l] <= CountUp(counts, p, o)[q][l]
           /\ q # p \/ l # o => CountUp(counts, p, o)[q][l] = counts[q][l]
BY CountUpFacts

\* Every count is a number.
LEMMA CountsAreNumbers ==
  ASSUME NEW counts \in [Partitions -> [Offsets -> Nat]],
         NEW p \in Partitions, NEW o \in Offsets
  PROVE  counts[p][o] \in Nat
OBVIOUS

\* One more of either makes one more in all.
LEMMA OneMoreInAll ==
  ASSUME NEW m \in Nat, NEW n \in Nat
  PROVE  (m + 1) + n = (m + n) + 1 /\ m + (n + 1) = (m + n) + 1
OBVIOUS

\* Rebalances, crashes and refused commits only take handlers away.
LEMMA RevokeInd ==
  ASSUME IndInv, UNCHANGED <<topic, committed, outcomes, skipped>>,
         members' \subseteq Consumers,
         held' \in [Consumers -> SUBSET Partitions],
         faults' \in 0 .. FaultBound,
         task' \in [Consumers -> [Partitions -> Tasks]],
         \A c \in Consumers, p \in Partitions :
           task'[c][p] \in {task[c][p], Revoked(task[c][p]), Idle}
  PROVE  IndInv'
<1>1. TypeOK /\ Grows
  BY FrameGrows DEF IndInv
<1>2. UNCHANGED <<topic, committed, documents, broadcasts, deadLetters, skipped>>
  BY DEF outcomes
<1>3. TypeOK'
  BY <1>1, <1>2 DEF TypeOK
<1> QED
  BY <1>1, <1>2, <1>3, RevokedInStep, CommitsKept, RecordsKept DEF IndInv

\* The count of failures stays within its bound.
LEMMA FaultType == ASSUME TypeOK, Fault PROVE faults' \in 0 .. FaultBound
BY ConstantsAssumption DEF TypeOK, Fault

\* A revoked handler is a handler.
LEMMA RevokedType == \A t \in Tasks : Revoked(t) \in Tasks
BY DEF Revoked, Tasks, Idle, Stages

\* A rebalance takes partitions from handlers, and no more.
LEMMA RebalanceInd ==
  ASSUME IndInv, NEW M \in SUBSET Consumers, RebalanceTo(M),
         faults' \in 0 .. FaultBound
  PROVE  IndInv'
<1> PICK assignment \in [Partitions -> M] : Rebalance(M, assignment)
  BY DEF RebalanceTo
<1>1. TypeOK
  BY DEF IndInv
<1>2. held' \in [Consumers -> SUBSET Partitions]
  BY <1>1 DEF Rebalance, TypeOK
<1>3. /\ task' \in [Consumers -> [Partitions -> Tasks]]
      /\ \A c \in Consumers, p \in Partitions :
           task'[c][p] \in {task[c][p], Revoked(task[c][p]), Idle}
  BY <1>1, RevokedType DEF Rebalance, TypeOK
<1> QED
  BY <1>2, <1>3, RevokeInd DEF Rebalance

\* A crash drops the handlers of one replica, and no more.
LEMMA CrashInd ==
  ASSUME IndInv, NEW c \in Consumers, Crash(c)
  PROVE  IndInv'
<1>1. TypeOK /\ faults' \in 0 .. FaultBound
  BY FaultType DEF IndInv, Crash
<1>2. members' \subseteq Consumers /\ held' \in [Consumers -> SUBSET Partitions]
  BY <1>1 DEF Crash, TypeOK
<1>3. Idle \in Tasks
  BY DEF Idle, Tasks, Stages
<1>4. /\ task' \in [Consumers -> [Partitions -> Tasks]]
      /\ \A d \in Consumers, p \in Partitions :
           task'[d][p] \in {task[d][p], Revoked(task[d][p]), Idle}
  BY <1>1, <1>3 DEF Crash, TypeOK
<1> QED
  BY <1>1, <1>2, <1>4, RevokeInd DEF Crash

\* A refused commit changes the group only.
LEMMA CommitOffsetRefusedInd ==
  ASSUME IndInv, NEW c \in Consumers, NEW p \in Partitions,
         CommitOffsetRefused(c, p)
  PROVE  IndInv'
<1>1. TypeOK
  BY DEF IndInv
<1>2. /\ members' \subseteq Consumers
      /\ held' \in [Consumers -> SUBSET Partitions]
      /\ faults' \in 0 .. FaultBound
  BY <1>1 DEF CommitOffsetRefused, TypeOK
<1>3. Idle \in Tasks
  BY DEF Idle, Tasks, Stages
<1>4. /\ task' \in [Consumers -> [Partitions -> Tasks]]
      /\ \A d \in Consumers, q \in Partitions :
           task'[d][q] \in {task[d][q], Revoked(task[d][q]), Idle}
  BY <1>1, <1>3, RevokedType DEF CommitOffsetRefused, TypeOK
<1> QED
  BY <1>2, <1>4, RevokeInd DEF CommitOffsetRefused

-----------------------------------------------------------------------------
(* The handler's own steps. *)

\* A partition is entered at the committed offset, below which everything is
\* covered, or at the log's end, below which everything is then skipped.
LEMMA StartPartitionInd ==
  ASSUME IndInv, NEW c \in Consumers, NEW p \in Partitions, StartPartition(c, p)
  PROVE  IndInv'
<1> DEFINE t == Ready(StartOffset(p))
<1>1. /\ TypeOK /\ SetTask(c, p, t)
      /\ UNCHANGED <<topic, committed, members, held, documents, broadcasts,
                     deadLetters, faults>>
  BY DEF IndInv, StartPartition, group, outcomes
<1>2. /\ Len(topic[p]) \in Nat /\ Len(topic[p]) <= TopicBound
      /\ committed[p] \in Nat /\ committed[p] <= Len(topic[p]) + 1
  BY <1>1, ConstantsAssumption DEF TypeOK, IndInv, NoSilentLoss, CommitCovered
<1>3. StartOffset(p) \in 1 .. (Len(topic[p]) + 1)
  BY <1>2 DEF StartOffset, NoOffset
<1>4. t \in Tasks /\ t.pc = "ready" /\ t.pos = StartOffset(p)
  BY <1>2, <1>3 DEF Ready, Tasks, Stages
<1>5. /\ skipped' \in [Partitions -> SUBSET Offsets]
      /\ \A q \in Partitions : skipped[q] \subseteq skipped'[q]
      /\ committed[p] = NoOffset => 1 .. Len(topic[p]) \subseteq skipped'[p]
  <2>1. 1 .. Len(topic[p]) \subseteq Offsets
    BY <1>2, ConstantsAssumption DEF Offsets
  <2> QED  BY <1>1, <2>1 DEF StartPartition, TypeOK
<1>6. TypeOK'
  BY <1>1, <1>4, <1>5, SetTaskFacts DEF TypeOK
<1>7. Grows
  <2>1. \A q \in Partitions :
          /\ Len(topic[q]) \in Nat
          /\ \A o \in Offsets : broadcasts[q][o] \in Nat /\ deadLetters[q][o] \in Nat
    BY <1>1 DEF TypeOK
  <2> QED  BY <1>1, <1>5, <2>1 DEF Grows
<1>8. ASSUME NEW o \in 1 .. (StartOffset(p) - 1) PROVE Covered(p, o)'
  <2>1. o \in 1 .. Len(topic[p])
    BY <1>2, <1>3
  <2>2. CASE committed[p] = NoOffset
    BY <1>5, <2>1, <2>2 DEF Covered
  <2>3. CASE committed[p] # NoOffset
    <3>1. o < committed[p]
      BY <1>2, <2>3 DEF StartOffset
    <3>2. Covered(p, o)
      BY <2>1, <3>1 DEF IndInv, NoSilentLoss, CommitCovered
    <3> QED  BY <1>1, <1>6, <1>7, <2>1, <3>2, CoveredGrows
  <2> QED  BY <2>2, <2>3
<1>9. HandlerInStep(c, p)'
  <2>1. task'[c][p] = t
    BY <1>1, <1>4, SetTaskFacts
  <2>2. StartOffset(p) \in 1 .. (Len(topic'[p]) + 1)
    BY <1>1, <1>3
  <2> QED  BY <1>4, <1>8, <2>1, <2>2 DEF HandlerInStep, InFlight
<1> QED
  BY <1>1, <1>4, <1>6, <1>7, <1>9, OneHandlerMoves, CommitsKept, RecordsKept DEF IndInv

\* A handler picks up the record at its position.
LEMMA HandleMessageInd ==
  ASSUME IndInv, NEW c \in Consumers, NEW p \in Partitions, HandleMessage(c, p)
  PROVE  IndInv'
<1> DEFINE s == FirstStage(Record(c, p))
<1>1. /\ TypeOK /\ task[c][p] \in Tasks
      /\ SetTask(c, p, [task[c][p] EXCEPT !.pc = s])
      /\ UNCHANGED <<topic, committed, members, held, outcomes, skipped, faults>>
  BY DEF IndInv, HandleMessage, TypeOK, group
<1>2. s \in InFlight /\ [task[c][p] EXCEPT !.pc = s] \in Tasks
  BY <1>1 DEF FirstStage, InFlight, Tasks, Stages
<1>3. TypeOK' /\ Grows
  BY <1>1, <1>2, SetTaskFacts, FrameGrows DEF TypeOK, outcomes
<1>4. task[c][p].pc # "idle" /\ task[c][p].pos \in 1 .. Len(topic[p])
  <2>1. Len(topic[p]) \in Nat /\ HandlerInStep(c, p)
    BY <1>1 DEF TypeOK, IndInv, HandlersInStep
  <2> QED  BY <1>1, <2>1 DEF HandleMessage, HandlerInStep, Tasks
<1>5. HandlersInStep'
  BY <1>1, <1>2, <1>3, <1>4, StageInStep DEF FirstStage
<1> QED
  BY <1>1, <1>3, <1>5, CommitsKept, RecordsKept DEF IndInv, outcomes

\* A refused, failed or lost call leaves the record to be offered again.
LEMMA RetryInd ==
  ASSUME IndInv, NEW c \in Consumers, NEW p \in Partitions, Working(c, p),
         SetTask(c, p, Retry(task[c][p])),
         UNCHANGED <<members, held>>, faults' \in 0 .. FaultBound,
         TypeOK' => Grows,
         UNCHANGED <<topic, skipped>>,
         documents' \subseteq Events,
         broadcasts' \in [Partitions -> [Offsets -> Nat]],
         deadLetters' \in [Partitions -> [Offsets -> Nat]],
         committed' \in [Partitions -> 0 .. (TopicBound + 1)]
  PROVE  TypeOK' /\ Grows /\ HandlersInStep'
<1>1. TypeOK
  BY DEF IndInv
<1>2. Retry(task[c][p]) \in Tasks
  BY AtWork DEF Retry, Ready, Idle, Tasks, Stages
<1>3. TypeOK'
  BY <1>1, <1>2, SetTaskFacts DEF TypeOK
<1> QED
  BY <1>3, RetryInStep

\* A stored document is a document of the record's event.
LEMMA IndexGrows ==
  ASSUME IndInv, NEW c \in Consumers, NEW p \in Partitions, Working(c, p),
         Index(c, p) \/ UNCHANGED documents,
         UNCHANGED <<topic, broadcasts, deadLetters, skipped>>
  PROVE  Grows /\ documents' \subseteq Events
<1>1. /\ TypeOK
      /\ documents \subseteq documents'
      /\ documents' \subseteq Events
  BY AtWork DEF IndInv, TypeOK, Index
<1>2. \A q \in Partitions :
        /\ Len(topic[q]) \in Nat
        /\ \A o \in Offsets : broadcasts[q][o] \in Nat /\ deadLetters[q][o] \in Nat
  BY <1>1 DEF TypeOK
<1> QED
  BY <1>1, <1>2 DEF Grows

\* An indexed event may be published.
LEMMA IndexLogInd ==
  ASSUME IndInv, NEW c \in Consumers, NEW p \in Partitions, IndexLog(c, p)
  PROVE  IndInv'
<1>1. /\ Working(c, p) /\ task[c][p].pc = "index" /\ TypeOK
      /\ SetTask(c, p, [task[c][p] EXCEPT !.pc = "publish"])
      /\ UNCHANGED <<topic, committed, members, held, broadcasts, deadLetters,
                     skipped, faults>>
  BY DEF IndexLog, Working, InFlight, Proceed, NextStage, group, IndInv
<1>2. Grows /\ documents' \subseteq Events /\ Record(c, p) \in documents'
  BY <1>1, IndexGrows DEF IndexLog, Index
<1>3. [task[c][p] EXCEPT !.pc = "publish"] \in Tasks
  BY <1>1, AtWork DEF Tasks, Stages, InFlight
<1>4. TypeOK'
  BY <1>1, <1>2, <1>3, SetTaskFacts DEF TypeOK
<1>5. HandlersInStep'
  <2>1. Record(c, p) \notin Dead
    BY <1>1 DEF IndInv, HandlersInStep, HandlerInStep, Record
  <2>2. "publish" \in InFlight
    BY DEF InFlight
  <2> QED  BY <1>1, <1>2, <1>4, <2>1, <2>2, AtWork, StageInStep
<1> QED
  BY <1>1, <1>2, <1>4, <1>5, CommitsKept, RecordsKept DEF IndInv

\* A refused document leaves everything as it was.
LEMMA IndexLogRejectedInd ==
  ASSUME IndInv, NEW c \in Consumers, NEW p \in Partitions, IndexLogRejected(c, p)
  PROVE  IndInv'
<1>1. /\ Working(c, p) /\ TypeOK
      /\ UNCHANGED <<topic, committed, members, held, documents, broadcasts,
                     deadLetters, skipped, faults>>
  BY DEF IndexLogRejected, Working, InFlight, group, outcomes, IndInv
<1>2. TypeOK' /\ Grows /\ HandlersInStep'
  BY <1>1, FrameGrows, RetryInd DEF IndexLogRejected, TypeOK, outcomes
<1> QED
  BY <1>1, <1>2, CommitsKept, RecordsKept DEF IndInv

\* A failed indexing may have stored the document, and is tried again.
LEMMA IndexLogFailsInd ==
  ASSUME IndInv, NEW c \in Consumers, NEW p \in Partitions,
         NEW tookEffect \in BOOLEAN, IndexLogFails(c, p, tookEffect)
  PROVE  IndInv'
<1>1. /\ Working(c, p) /\ TypeOK /\ faults' \in 0 .. FaultBound
      /\ Index(c, p) \/ UNCHANGED documents
      /\ UNCHANGED <<topic, committed, members, held, broadcasts, deadLetters,
                     skipped>>
  BY FaultType DEF IndexLogFails, Working, InFlight, group, IndInv
<1>2. Grows /\ documents' \subseteq Events
  BY <1>1, IndexGrows
<1>3. TypeOK' /\ HandlersInStep'
  BY <1>1, <1>2, RetryInd DEF IndexLogFails, TypeOK
<1> QED
  BY <1>1, <1>2, <1>3, CommitsKept, RecordsKept DEF IndInv

\* One more publication of the record a handler is at: it happens in order, at
\* an offset below which everything is covered.
LEMMA CountInd ==
  ASSUME IndInv, NEW c \in Consumers, NEW p \in Partitions, Working(c, p),
         UNCHANGED <<topic, documents, skipped>>, TypeOK',
         \/ Publish(c, p) /\ UNCHANGED deadLetters /\ Record(c, p) \in documents
         \/ DeadLetter(c, p) /\ UNCHANGED broadcasts
         \/ UNCHANGED <<broadcasts, deadLetters>>
  PROVE  Grows /\ InOrder' /\ BroadcastIsSearchable'
<1>0. PICK o \in Offsets : o = task[c][p].pos
  BY AtWork
<1>1. /\ TypeOK /\ o \in 1 .. Len(topic[p])
      /\ \A l \in 1 .. (o - 1) : l \in 1 .. Len(topic[p]) /\ Covered(p, l)
  BY <1>0, AtWork DEF IndInv
<1>2. \A q \in Partitions, l \in Offsets :
        /\ broadcasts[q][l] \in Nat /\ deadLetters[q][l] \in Nat
        /\ broadcasts[q][l] <= broadcasts'[q][l]
        /\ deadLetters[q][l] <= deadLetters'[q][l]
        /\ q # p \/ l # o => /\ broadcasts'[q][l] = broadcasts[q][l]
                             /\ deadLetters'[q][l] = deadLetters[q][l]
  <2>1. /\ broadcasts \in [Partitions -> [Offsets -> Nat]]
        /\ deadLetters \in [Partitions -> [Offsets -> Nat]]
    BY <1>1 DEF TypeOK
  <2>2. CASE Publish(c, p) /\ UNCHANGED deadLetters
    <3>1. broadcasts' = CountUp(broadcasts, p, o) /\ deadLetters' = deadLetters
      BY <1>0, <2>2 DEF Publish
    <3>2. \A q \in Partitions, l \in Offsets :
            /\ broadcasts[q][l] <= broadcasts'[q][l]
            /\ q # p \/ l # o => broadcasts'[q][l] = broadcasts[q][l]
      <4>1. \A q \in Partitions, l \in Offsets :
              /\ broadcasts[q][l] <= CountUp(broadcasts, p, o)[q][l]
              /\ q # p \/ l # o => CountUp(broadcasts, p, o)[q][l] = broadcasts[q][l]
        BY <2>1, CountUpGrows, Zenon
      <4> QED  BY <3>1, <4>1
    <3>3. \A q \in Partitions, l \in Offsets :
            broadcasts[q][l] \in Nat /\ deadLetters[q][l] \in Nat
      BY <2>1
    <3> QED  BY <3>1, <3>2, <3>3
  <2>3. CASE DeadLetter(c, p) /\ UNCHANGED broadcasts
    <3>1. deadLetters' = CountUp(deadLetters, p, o) /\ broadcasts' = broadcasts
      BY <1>0, <2>3 DEF DeadLetter
    <3>2. \A q \in Partitions, l \in Offsets :
            /\ deadLetters[q][l] <= deadLetters'[q][l]
            /\ q # p \/ l # o => deadLetters'[q][l] = deadLetters[q][l]
      <4>1. \A q \in Partitions, l \in Offsets :
              /\ deadLetters[q][l] <= CountUp(deadLetters, p, o)[q][l]
              /\ q # p \/ l # o => CountUp(deadLetters, p, o)[q][l] = deadLetters[q][l]
        BY <2>1, CountUpGrows, Zenon
      <4> QED  BY <3>1, <4>1
    <3>3. \A q \in Partitions, l \in Offsets :
            deadLetters[q][l] \in Nat /\ broadcasts[q][l] \in Nat
      BY <2>1
    <3> QED  BY <3>1, <3>2, <3>3
  <2>4. CASE UNCHANGED <<broadcasts, deadLetters>>
    BY <2>1, <2>4
  <2> QED  BY <2>2, <2>3, <2>4
<1>3. Grows
  <2>1. \A q \in Partitions : Len(topic[q]) \in Nat
    BY <1>1 DEF TypeOK
  <2> QED  BY <1>2, <2>1 DEF Grows
<1>4. InOrderAt(p, o)'
  <2>1. \A l \in 1 .. (o - 1) : Covered(p, l)'
    BY <1>1, <1>3, CoveredGrows
  <2> QED  BY <1>1, <2>1 DEF InOrderAt
<1>5. SearchableAt(p, o)'
  <2>1. CASE Publish(c, p) /\ Record(c, p) \in documents
    BY <1>0, <1>1, <2>1 DEF SearchableAt, Record
  <2>2. CASE UNCHANGED broadcasts
    BY <1>1, <2>2 DEF IndInv, BroadcastIsSearchable, SearchableAt
  <2> QED  BY <2>1, <2>2
<1> SUFFICES ASSUME NEW q \in Partitions, NEW l \in Offsets, q # p \/ l # o
             PROVE  InOrderAt(q, l)' /\ SearchableAt(q, l)'
  BY <1>3, <1>4, <1>5 DEF InOrder, BroadcastIsSearchable
<1> QED
  BY <1>1, <1>2, <1>3, RecordKept DEF IndInv, InOrder, BroadcastIsSearchable

\* Counting a broadcast keeps the shape of the counts.
LEMMA PublishType ==
  ASSUME IndInv, NEW c \in Consumers, NEW p \in Partitions, Working(c, p),
         Publish(c, p) \/ UNCHANGED broadcasts
  PROVE  broadcasts' \in [Partitions -> [Offsets -> Nat]]
<1>1. broadcasts \in [Partitions -> [Offsets -> Nat]]
  BY DEF IndInv, TypeOK
<1>2. CountUp(broadcasts, p, task[c][p].pos) \in [Partitions -> [Offsets -> Nat]]
  BY <1>1, AtWork, CountUpFacts
<1> QED
  BY <1>1, <1>2 DEF Publish

\* Counting a dead letter keeps the shape of the counts.
LEMMA DeadLetterType ==
  ASSUME IndInv, NEW c \in Consumers, NEW p \in Partitions, Working(c, p),
         DeadLetter(c, p) \/ UNCHANGED deadLetters
  PROVE  deadLetters' \in [Partitions -> [Offsets -> Nat]]
<1>1. deadLetters \in [Partitions -> [Offsets -> Nat]]
  BY DEF IndInv, TypeOK
<1>2. CountUp(deadLetters, p, task[c][p].pos) \in [Partitions -> [Offsets -> Nat]]
  BY <1>1, AtWork, CountUpFacts
<1> QED
  BY <1>1, <1>2 DEF DeadLetter

\* Once its event is indexed and broadcast, or dead-lettered, the handler may
\* commit.
LEMMA ReadyToCommit ==
  ASSUME IndInv, NEW c \in Consumers, NEW p \in Partitions, Working(c, p),
         SetTask(c, p, [task[c][p] EXCEPT !.pc = "commit"]),
         UNCHANGED <<topic, committed, members, held, documents, skipped, faults>>,
         \/ /\ Publish(c, p) /\ UNCHANGED deadLetters
            /\ Record(c, p) \in documents /\ Record(c, p) \notin Dead
         \/ /\ DeadLetter(c, p) /\ UNCHANGED broadcasts /\ Record(c, p) \in Dead
  PROVE  IndInv'
<1>0. PICK o \in Offsets : o = task[c][p].pos
  BY AtWork
<1>1. /\ TypeOK /\ task[c][p] \in Tasks /\ o \in 1 .. Len(topic[p])
      /\ [task[c][p] EXCEPT !.pc = "commit"] \in Tasks
      /\ [task[c][p] EXCEPT !.pc = "commit"].pos = o
  <2>1. TypeOK /\ task[c][p] \in Tasks /\ o \in 1 .. Len(topic[p])
    BY <1>0, AtWork DEF IndInv
  <2> QED  BY <1>0, <2>1 DEF Tasks, Stages, InFlight
<1>2. /\ broadcasts' \in [Partitions -> [Offsets -> Nat]]
      /\ deadLetters' \in [Partitions -> [Offsets -> Nat]]
  BY PublishType, DeadLetterType
<1>3. TypeOK' /\ task'[c][p].pos = o
  <2>1. /\ task' \in [Consumers -> [Partitions -> Tasks]]
        /\ task'[c][p] = [task[c][p] EXCEPT !.pc = "commit"]
    BY <1>1, SetTaskFacts
  <2>2. TypeOK'
    BY <1>1, <1>2, <2>1 DEF TypeOK
  <2> QED  BY <1>1, <2>1, <2>2
<1>4. Grows /\ InOrder' /\ BroadcastIsSearchable'
  BY <1>3, CountInd
<1>5. Settled(p, o)'
  <2>1. /\ broadcasts \in [Partitions -> [Offsets -> Nat]]
        /\ deadLetters \in [Partitions -> [Offsets -> Nat]]
        /\ Record(c, p) = topic'[p][o]
    BY <1>0, <1>1 DEF TypeOK, Record
  <2>2. CASE Publish(c, p) /\ Record(c, p) \in documents /\ Record(c, p) \notin Dead
    <3>1. broadcasts'[p][o] = broadcasts[p][o] + 1 /\ broadcasts[p][o] \in Nat
      <4>1. broadcasts' = CountUp(broadcasts, p, o)
        BY <1>0, <2>2 DEF Publish
      <4>2. CountUp(broadcasts, p, o)[p][o] = broadcasts[p][o] + 1
        BY <2>1, CountUpFacts
      <4> QED  BY <2>1, <4>1, <4>2
    <3> QED  BY <2>1, <2>2, <3>1 DEF Settled
  <2>3. CASE DeadLetter(c, p) /\ Record(c, p) \in Dead
    <3>1. deadLetters'[p][o] = deadLetters[p][o] + 1 /\ deadLetters[p][o] \in Nat
      <4>1. deadLetters' = CountUp(deadLetters, p, o)
        BY <1>0, <2>3 DEF DeadLetter
      <4>2. CountUp(deadLetters, p, o)[p][o] = deadLetters[p][o] + 1
        BY <2>1, CountUpFacts
      <4> QED  BY <2>1, <4>1, <4>2
    <3> QED  BY <2>1, <2>3, <3>1 DEF Settled
  <2> QED  BY <2>2, <2>3
<1>6. HandlersInStep'
  <2>1. "commit" \in InFlight /\ task[c][p].pc # "idle"
    BY DEF InFlight, Working
  <2>2. task'[c][p].pos = o /\ task[c][p].pos \in 1 .. Len(topic[p])
    BY <1>0, <1>1, <1>3
  <2>3. Settled(p, task[c][p].pos)'
    BY <1>5, <2>2
  <2> QED  BY <1>3, <1>4, <2>1, <2>2, <2>3, StageInStep
<1> QED
  BY <1>3, <1>4, <1>6, CommitsKept DEF IndInv

\* A broadcast settles its record, in order.
LEMMA PublishRealtimeInd ==
  ASSUME IndInv, NEW c \in Consumers, NEW p \in Partitions, PublishRealtime(c, p)
  PROVE  IndInv'
<1>1. Working(c, p) /\ SetTask(c, p, [task[c][p] EXCEPT !.pc = "commit"])
  BY DEF PublishRealtime, Working, InFlight, Proceed, NextStage
<1>2. Record(c, p) \in documents /\ Record(c, p) \notin Dead
  BY DEF PublishRealtime, IndInv, HandlersInStep, HandlerInStep, Record
<1> QED
  BY <1>1, <1>2, ReadyToCommit DEF PublishRealtime, group

\* A dead letter settles its record, in order.
LEMMA SendToDeadLetterQueueInd ==
  ASSUME IndInv, NEW c \in Consumers, NEW p \in Partitions,
         SendToDeadLetterQueue(c, p)
  PROVE  IndInv'
<1>1. Working(c, p) /\ SetTask(c, p, [task[c][p] EXCEPT !.pc = "commit"])
  BY DEF SendToDeadLetterQueue, Working, InFlight, Proceed, NextStage
<1>2. Record(c, p) \in Dead
  BY DEF SendToDeadLetterQueue, IndInv, HandlersInStep, HandlerInStep, Record
<1> QED
  BY <1>1, <1>2, ReadyToCommit DEF SendToDeadLetterQueue, group

\* A failed broadcast may have been sent, and is tried again.
LEMMA PublishRealtimeFailsInd ==
  ASSUME IndInv, NEW c \in Consumers, NEW p \in Partitions,
         NEW tookEffect \in BOOLEAN, PublishRealtimeFails(c, p, tookEffect)
  PROVE  IndInv'
<1>1. /\ Working(c, p) /\ TypeOK /\ faults' \in 0 .. FaultBound
      /\ Publish(c, p) \/ UNCHANGED broadcasts
      /\ SetTask(c, p, Retry(task[c][p]))
      /\ UNCHANGED <<topic, committed, members, held, documents, deadLetters,
                     skipped>>
  BY FaultType DEF PublishRealtimeFails, Working, InFlight, group, IndInv
<1>2. Record(c, p) \in documents
  BY DEF PublishRealtimeFails, IndInv, HandlersInStep, HandlerInStep, Record
<1>3. broadcasts' \in [Partitions -> [Offsets -> Nat]]
  BY <1>1, PublishType
<1>4. TypeOK' => Grows /\ InOrder' /\ BroadcastIsSearchable'
  BY <1>1, <1>2, CountInd
<1>5. TypeOK' /\ HandlersInStep'
  BY <1>1, <1>3, <1>4, RetryInd DEF TypeOK
<1> QED
  BY <1>1, <1>4, <1>5, CommitsKept DEF IndInv

\* A failed dead letter may have been sent, and is tried again.
LEMMA SendToDeadLetterQueueFailsInd ==
  ASSUME IndInv, NEW c \in Consumers, NEW p \in Partitions,
         NEW tookEffect \in BOOLEAN, SendToDeadLetterQueueFails(c, p, tookEffect)
  PROVE  IndInv'
<1>1. /\ Working(c, p) /\ TypeOK /\ faults' \in 0 .. FaultBound
      /\ DeadLetter(c, p) \/ UNCHANGED deadLetters
      /\ SetTask(c, p, Retry(task[c][p]))
      /\ UNCHANGED <<topic, committed, members, held, documents, broadcasts,
                     skipped>>
  BY FaultType DEF SendToDeadLetterQueueFails, Working, InFlight, group, IndInv
<1>2. deadLetters' \in [Partitions -> [Offsets -> Nat]]
  BY <1>1, DeadLetterType
<1>3. TypeOK' => Grows /\ InOrder' /\ BroadcastIsSearchable'
  BY <1>1, CountInd
<1>4. TypeOK' /\ HandlersInStep'
  BY <1>1, <1>2, <1>3, RetryInd DEF TypeOK
<1> QED
  BY <1>1, <1>3, <1>4, CommitsKept DEF IndInv

\* Committing the record at hand covers exactly what the handler knows to be
\* settled, so it is safe even when it moves the offset back.
LEMMA CommitInd ==
  ASSUME IndInv, NEW c \in Consumers, NEW p \in Partitions,
         task[c][p].pc = "commit",
         Commit(c, p) \/ UNCHANGED committed,
         UNCHANGED <<topic, members, held, outcomes, skipped>>,
         faults' \in 0 .. FaultBound,
         task' \in [Consumers -> [Partitions -> Tasks]]
  PROVE  TypeOK' /\ Grows /\ NoSilentLoss' /\ InOrder' /\ BroadcastIsSearchable'
<1>0. PICK o \in Offsets : o = task[c][p].pos
  BY AtWork DEF Working, InFlight
<1>1. /\ TypeOK /\ o \in 1 .. Len(topic[p]) /\ Grows
      /\ Len(topic[p]) \in Nat /\ Len(topic[p]) <= TopicBound
      /\ \A l \in 1 .. (o - 1) : Covered(p, l)
  BY <1>0, AtWork, FrameGrows DEF Working, InFlight, IndInv, TypeOK
<1>2. Covered(p, o)
  BY <1>0 DEF IndInv, HandlersInStep, HandlerInStep, Covered
<1>3. UNCHANGED <<topic, documents, broadcasts, deadLetters, skipped>>
  BY DEF outcomes
<1>4. /\ committed' \in [Partitions -> 0 .. (TopicBound + 1)]
      /\ \A q \in Partitions : \/ committed'[q] = committed[q]
                               \/ q = p /\ committed'[q] = o + 1
  <2>1. o + 1 \in 0 .. (TopicBound + 1)
    BY <1>1, ConstantsAssumption
  <2>2. committed \in [Partitions -> 0 .. (TopicBound + 1)]
    BY <1>1 DEF TypeOK
  <2> QED  BY <1>0, <2>1, <2>2 DEF Commit, CommittedOffset
<1>5. TypeOK'
  BY <1>1, <1>3, <1>4 DEF TypeOK
<1>6. NoSilentLoss'
  <2> SUFFICES ASSUME NEW q \in Partitions PROVE CommitCovered(q)'
    BY DEF NoSilentLoss
  <2>1. CASE committed'[q] = committed[q]
    BY <1>1, <1>5, <2>1, CommitKept DEF IndInv, NoSilentLoss
  <2>2. CASE q = p /\ committed'[q] = o + 1
    <3>1. committed'[q] <= Len(topic'[q]) + 1
      BY <1>1, <1>3, <2>2
    <3>2. ASSUME NEW l \in 1 .. Len(topic'[q]), l < committed'[q]
          PROVE  Covered(q, l)'
      <4>1. l \in 1 .. Len(topic[q]) /\ (l \in 1 .. (o - 1) \/ l = o)
        BY <1>1, <1>3, <2>2, <3>2
      <4>2. Covered(q, l)
        BY <1>1, <1>2, <2>2, <4>1
      <4> QED  BY <1>1, <1>5, <4>1, <4>2, CoveredGrows
    <3> QED  BY <3>1, <3>2 DEF CommitCovered
  <2> QED  BY <1>4, <2>1, <2>2
<1> QED
  BY <1>1, <1>3, <1>5, <1>6, RecordsKept

\* A commit passes a settled record and what is covered below it.
LEMMA CommitOffsetInd ==
  ASSUME IndInv, NEW c \in Consumers, NEW p \in Partitions, CommitOffset(c, p)
  PROVE  IndInv'
<1> DEFINE t == Advance(task[c][p])
<1>1. /\ TypeOK /\ Working(c, p) /\ HandlerInStep(c, p) /\ task[c][p].pc = "commit"
      /\ SetTask(c, p, t)
  BY DEF CommitOffset, Working, InFlight, IndInv, HandlersInStep
<1>2. PICK o \in Offsets : o = task[c][p].pos
  BY <1>1, AtWork
<1>3. t \in Tasks /\ (t = Idle \/ t = Ready(o + 1))
  BY <1>2 DEF Advance, Ready, Idle, Tasks, Stages, Offsets
<1>4. task'[c][p] = t /\ task' \in [Consumers -> [Partitions -> Tasks]]
  BY <1>1, <1>3, SetTaskFacts
<1>5. TypeOK' /\ Grows /\ NoSilentLoss' /\ InOrder' /\ BroadcastIsSearchable'
  <2>1. faults' \in 0 .. FaultBound
    BY <1>1 DEF CommitOffset, TypeOK
  <2> QED  BY <1>4, <2>1, CommitInd DEF CommitOffset
<1>6. o \in 1 .. Len(topic[p]) /\ Len(topic[p]) \in Nat /\ topic' = topic
  BY <1>1, <1>2, AtWork DEF TypeOK, CommitOffset
<1>7. ASSUME NEW l \in 1 .. o PROVE Covered(p, l)'
  <2>1. l \in 1 .. Len(topic[p]) /\ (l \in 1 .. (o - 1) \/ l = o)
    BY <1>6
  <2>2. Covered(p, l)
    BY <1>1, <1>2, <2>1, AtWork DEF HandlerInStep, Covered
  <2> QED  BY <1>1, <1>5, <2>1, <2>2, CoveredGrows
<1>8. HandlerInStep(c, p)'
  <2>1. CASE t = Idle
    BY <1>4, <2>1 DEF HandlerInStep, Idle, InFlight
  <2>2. CASE t = Ready(o + 1)
    <3>1. o + 1 \in 1 .. (Len(topic'[p]) + 1) /\ (o + 1) - 1 = o
      BY <1>6
    <3> QED  BY <1>4, <1>7, <2>2, <3>1 DEF HandlerInStep, Ready, InFlight
  <2> QED  BY <1>3, <2>1, <2>2
<1> QED
  BY <1>1, <1>3, <1>5, <1>8, OneHandlerMoves DEF IndInv

\* So does a commit whose answer was lost.
LEMMA CommitOffsetFailsInd ==
  ASSUME IndInv, NEW c \in Consumers, NEW p \in Partitions,
         NEW tookEffect \in BOOLEAN, CommitOffsetFails(c, p, tookEffect)
  PROVE  IndInv'
<1>1. /\ TypeOK /\ Working(c, p) /\ faults' \in 0 .. FaultBound
      /\ SetTask(c, p, Retry(task[c][p]))
  BY FaultType DEF CommitOffsetFails, Working, InFlight, IndInv
<1>2. Retry(task[c][p]) \in Tasks
  BY <1>1, AtWork DEF Retry, Ready, Idle, Tasks, Stages
<1>3. task' \in [Consumers -> [Partitions -> Tasks]]
  BY <1>1, <1>2, SetTaskFacts
<1>4. TypeOK' /\ Grows /\ NoSilentLoss' /\ InOrder' /\ BroadcastIsSearchable'
  BY <1>1, <1>3, CommitInd DEF CommitOffsetFails
<1>5. HandlersInStep'
  BY <1>1, <1>4, RetryInStep
<1> QED
  BY <1>4, <1>5 DEF IndInv

-----------------------------------------------------------------------------
(* Invariance. *)

\* Nothing happens.
LEMMA StutterInd == ASSUME IndInv, UNCHANGED vars PROVE IndInv'
<1>1. /\ TypeOK
      /\ UNCHANGED <<topic, committed, members, held, task, documents,
                     broadcasts, deadLetters, skipped, faults, outcomes>>
  BY DEF vars, outcomes, IndInv
<1>2. /\ members' \subseteq Consumers /\ held' \in [Consumers -> SUBSET Partitions]
      /\ faults' \in 0 .. FaultBound /\ task' \in [Consumers -> [Partitions -> Tasks]]
  BY <1>1 DEF TypeOK
<1> QED
  BY <1>1, <1>2, RevokeInd

\* Every step preserves the invariant.
LEMMA NextInd == IndInv /\ [Next]_vars => IndInv'
<1> SUFFICES ASSUME IndInv, [Next]_vars PROVE IndInv'
  OBVIOUS
<1>1. ASSUME NEW e \in Events, Produce(e) PROVE IndInv'
  BY <1>1, ProduceInd
<1>2. CASE NeededRebalance
  <2>1. faults' \in 0 .. FaultBound
    BY <1>2 DEF NeededRebalance, IndInv, TypeOK
  <2> QED  BY <1>2, <2>1, RebalanceInd DEF NeededRebalance
<1>3. CASE UnprovokedRebalance
  BY <1>3, FaultType, RebalanceInd DEF UnprovokedRebalance, IndInv
<1>4. ASSUME NEW c \in Consumers, Crash(c) PROVE IndInv'
  BY <1>4, CrashInd
<1>5. ASSUME NEW c \in Consumers, NEW p \in Partitions, Step(c, p) PROVE IndInv'
  BY <1>5, StartPartitionInd, HandleMessageInd, IndexLogInd, IndexLogRejectedInd,
     PublishRealtimeInd, SendToDeadLetterQueueInd, CommitOffsetInd,
     CommitOffsetRefusedInd
     DEF Step
<1>6. ASSUME NEW c \in Consumers, NEW p \in Partitions, Failure(c, p) PROVE IndInv'
  BY <1>6, IndexLogFailsInd, PublishRealtimeFailsInd,
     SendToDeadLetterQueueFailsInd, CommitOffsetFailsInd
     DEF Failure
<1>7. CASE UNCHANGED vars
  BY <1>7, StutterInd
<1> QED
  BY <1>1, <1>2, <1>3, <1>4, <1>5, <1>6, <1>7 DEF Next

\* The inductive invariant holds in every reachable state: what every handler
\* knows at its await, together with what the commits and broadcasts rest on.
THEOREM Invariance == Spec => []IndInv
BY InitInd, NextInd, PTL DEF Spec

\* The variables keep their shape, and the committed offset stays at the log.
THEOREM TypeCorrect == Spec => []TypeOK
<1>1. IndInv => TypeOK
  BY DEF IndInv
<1> QED
  BY <1>1, Invariance, PTL

\* commitOffset never lets the group forget an event that is not settled.
THEOREM CommitsAreSafe == Spec => []NoSilentLoss
<1>1. IndInv => NoSilentLoss
  BY DEF IndInv
<1> QED
  BY <1>1, Invariance, PTL

\* Events of a project reach their destinations in the order of acceptance.
THEOREM DeliveryIsOrdered == Spec => []InOrder
<1>1. IndInv => InOrder
  BY DEF IndInv
<1> QED
  BY <1>1, Invariance, PTL

\* What is shown live can be found by a search.
THEOREM LiveEventsAreSearchable == Spec => []BroadcastIsSearchable
<1>1. IndInv => BroadcastIsSearchable
  BY DEF IndInv
<1> QED
  BY <1>1, Invariance, PTL

\* At each of its awaits a handler's knowledge of the log still holds.
THEOREM HandlersStayInStep == Spec => []HandlersInStep
<1>1. IndInv => HandlersInStep
  BY DEF IndInv
<1> QED
  BY <1>1, Invariance, PTL

-----------------------------------------------------------------------------
(* The log processor implements LogDelivery.  A step that writes no count   *)
(* settles nothing (an indexed event settles only when it is broadcast); a  *)
(* broadcast or a dead letter settles the record its handler is at, below   *)
(* which all is accounted for; a commit acknowledges such a record.         *)

\* Without a new broadcast or dead letter, nothing becomes settled.
LEMMA NothingSettles ==
  ASSUME IndInv, UNCHANGED <<topic, broadcasts, deadLetters>>,
         documents \subseteq documents'
  PROVE  settledBar' = settledBar
<1>1. ASSUME NEW p \in Partitions, NEW o \in 1 .. Len(topic[p])
      PROVE  Settled(p, o)' <=> Settled(p, o)
  <2>1. SearchableAt(p, o)
    <3>1. o \in Offsets
      BY ConstantsAssumption DEF IndInv, TypeOK, Offsets
    <3> QED  BY <3>1 DEF IndInv, BroadcastIsSearchable
  <2> QED  BY <2>1 DEF Settled, SearchableAt
<1> QED
  BY <1>1 DEF settledBar

\* A new broadcast or dead letter settles at most the record at hand.
LEMMA AtMostOneSettles ==
  ASSUME IndInv, IndInv', NEW c \in Consumers, NEW p \in Partitions, Working(c, p),
         UNCHANGED <<topic, committed, documents, skipped>>,
         \/ Publish(c, p) /\ UNCHANGED deadLetters
         \/ DeadLetter(c, p) /\ UNCHANGED broadcasts
  PROVE  [Delivery!Next]_Delivery!vars
<1>0. PICK o \in Offsets : o = task[c][p].pos
  BY AtWork
<1>1. /\ o \in 1 .. Len(topic[p])
      /\ \A l \in 1 .. (o - 1) : l \in 1 .. Len(topic[p]) /\ Covered(p, l)
  BY <1>0, AtWork
<1>2. \A q \in Partitions, l \in Offsets : q # p \/ l # o =>
        /\ broadcasts'[q][l] = broadcasts[q][l]
        /\ deadLetters'[q][l] = deadLetters[q][l]
  <2>1. /\ broadcasts \in [Partitions -> [Offsets -> Nat]]
        /\ deadLetters \in [Partitions -> [Offsets -> Nat]]
    BY DEF IndInv, TypeOK
  <2> QED  BY <1>0, <2>1 DEF Publish, DeadLetter, CountUp
<1>3. ASSUME NEW q \in Partitions, NEW l \in 1 .. Len(topic[q]), q # p \/ l # o
      PROVE  Settled(q, l)' <=> Settled(q, l)
  <2>1. l \in Offsets
    BY ConstantsAssumption DEF IndInv, TypeOK, Offsets
  <2> QED  BY <1>2, <1>3, <2>1 DEF Settled
<1>4. Settled(p, o) => Settled(p, o)'
  <2>1. /\ broadcasts[p][o] \in Nat /\ deadLetters[p][o] \in Nat
        /\ broadcasts \in [Partitions -> [Offsets -> Nat]]
        /\ deadLetters \in [Partitions -> [Offsets -> Nat]]
    <3>1. /\ broadcasts \in [Partitions -> [Offsets -> Nat]]
          /\ deadLetters \in [Partitions -> [Offsets -> Nat]]
      BY DEF IndInv, TypeOK
    <3> QED  BY <3>1
  <2>2. /\ broadcasts'[p][o] \in {broadcasts[p][o], broadcasts[p][o] + 1}
        /\ deadLetters'[p][o] \in {deadLetters[p][o], deadLetters[p][o] + 1}
    <3>1. \/ broadcasts' = CountUp(broadcasts, p, o) /\ deadLetters' = deadLetters
          \/ deadLetters' = CountUp(deadLetters, p, o) /\ broadcasts' = broadcasts
      BY <1>0 DEF Publish, DeadLetter
    <3>2. /\ CountUp(broadcasts, p, o)[p][o] = broadcasts[p][o] + 1
          /\ CountUp(deadLetters, p, o)[p][o] = deadLetters[p][o] + 1
      BY <2>1, CountUpAt
    <3>3. broadcasts'[p][o] \in {broadcasts[p][o], broadcasts[p][o] + 1}
      BY <3>1, <3>2
    <3>4. deadLetters'[p][o] \in {deadLetters[p][o], deadLetters[p][o] + 1}
      BY <3>1, <3>2
    <3> QED  BY <3>3, <3>4
  <2> QED  BY <2>1, <2>2 DEF Settled
<1>5. CASE Settled(p, o)' /\ ~Settled(p, o)
  <2>1. settledBar' = [settledBar EXCEPT ![p] = @ \cup {o}]
    BY <1>1, <1>3, <1>5 DEF settledBar
  <2>2. Delivery!AccountedBelow(p, o)
    BY <1>1 DEF Delivery!AccountedBelow, Delivery!Accounted, Covered, settledBar
  <2>3. Delivery!Settle(p, o)
    BY <2>1, <2>2 DEF Delivery!Settle
  <2> QED  BY <1>1, <2>3 DEF Delivery!Next
<1>6. CASE Settled(p, o)' <=> Settled(p, o)
  <2>1. settledBar' = settledBar
    BY <1>3, <1>6 DEF settledBar
  <2> QED  BY <2>1 DEF Delivery!vars
<1> QED
  BY <1>4, <1>5, <1>6

\* A commit acknowledges a record that is settled, as all below it are.
LEMMA CommitAcknowledges ==
  ASSUME IndInv, NEW c \in Consumers, NEW p \in Partitions,
         task[c][p].pc = "commit", Commit(c, p),
         UNCHANGED <<topic, outcomes, skipped>>
  PROVE  Delivery!Next
<1>0. PICK o \in Offsets : o = task[c][p].pos
  BY AtWork DEF Working, InFlight
<1>1. /\ o \in 1 .. Len(topic[p]) /\ Settled(p, o)
      /\ \A l \in 1 .. (o - 1) : l \in 1 .. Len(topic[p]) /\ Covered(p, l)
  BY <1>0, AtWork DEF Working, InFlight, IndInv, HandlersInStep, HandlerInStep
<1>2. Delivery!AccountedBelow(p, o) /\ o \in settledBar[p]
  BY <1>1 DEF Delivery!AccountedBelow, Delivery!Accounted, Covered, settledBar
<1>3. settledBar' = settledBar
  BY NothingSettles DEF outcomes
<1>4. Delivery!Acknowledge(p, o)
  BY <1>0, <1>2, <1>3 DEF Delivery!Acknowledge, Commit, CommittedOffset
<1> QED
  BY <1>1, <1>4 DEF Delivery!Next

\* An accepted event arrives unsettled at the end of its partition.
LEMMA ProduceAccepts ==
  ASSUME IndInv, NEW e \in Events, Produce(e)
  PROVE  Delivery!Next
<1> DEFINE p == PartitionOf[e]
<1>1. /\ p \in Partitions /\ Len(topic[p]) < TopicBound
      /\ topic \in [Partitions -> Seq(Events)]
      /\ topic' = [topic EXCEPT ![p] = Append(@, e)]
      /\ UNCHANGED <<committed, documents, broadcasts, deadLetters, skipped>>
  BY ConstantsAssumption DEF Produce, IndInv, TypeOK, group, outcomes
<1>2. ASSUME NEW q \in Partitions, q # p
      PROVE  settledBar'[q] = settledBar[q]
  BY <1>1, <1>2 DEF settledBar, Settled
<1>3. settledBar'[p] = settledBar[p]
  <2> DEFINE n == Len(topic[p]) + 1
  <2>1. /\ topic'[p] = Append(topic[p], e) /\ topic[p] \in Seq(Events)
        /\ Len(topic'[p]) = n /\ Len(topic[p]) \in Nat
        /\ \A o \in 1 .. Len(topic[p]) : topic'[p][o] = topic[p][o]
    BY <1>1
  <2>2. n \in Offsets
    BY <1>1, <2>1, ConstantsAssumption DEF Offsets
  <2>3. broadcasts[p][n] = 0 /\ deadLetters[p][n] = 0
    <3>1. broadcasts[p][n] \in Nat /\ deadLetters[p][n] \in Nat
      BY <1>1, <2>2 DEF IndInv, TypeOK
    <3>2. InOrderAt(p, n)
      BY <1>1, <2>2 DEF IndInv, InOrder
    <3> QED  BY <2>1, <3>1, <3>2 DEF InOrderAt
  <2>4. \A o \in 1 .. Len(topic[p]) : Settled(p, o)' <=> Settled(p, o)
    BY <1>1, <2>1 DEF Settled
  <2>5. ASSUME NEW o \in 1 .. n, o \notin 1 .. Len(topic[p])
        PROVE  ~Settled(p, o)'
    <3>1. o = n
      BY <2>1, <2>5
    <3> QED  BY <1>1, <2>3, <3>1 DEF Settled
  <2>6. 1 .. Len(topic[p]) \subseteq 1 .. n
    BY <2>1
  <2> QED
    BY <1>1, <2>1, <2>4, <2>5, <2>6 DEF settledBar
<1>4. settledBar' = settledBar
  BY <1>2, <1>3 DEF settledBar
<1>5. Delivery!Accept(p, e)
  BY <1>1, <1>4 DEF Delivery!Accept
<1> QED
  BY <1>1, <1>5 DEF Delivery!Next

\* A start at the end of the log skips what is there.
LEMMA StartSkips ==
  ASSUME IndInv, NEW c \in Consumers, NEW p \in Partitions, StartPartition(c, p)
  PROVE  [Delivery!Next]_Delivery!vars
<1>1. /\ settledBar' = settledBar
      /\ UNCHANGED <<topic, committed>>
  BY NothingSettles DEF StartPartition, group, outcomes
<1>2. CASE committed[p] = NoOffset
  <2>1. Delivery!Skip(p)
    BY <1>1, <1>2 DEF Delivery!Skip, StartPartition, NoOffset
  <2> QED  BY <2>1 DEF Delivery!Next
<1>3. CASE committed[p] # NoOffset
  <2>1. skipped' = skipped
    BY <1>3 DEF StartPartition, IndInv, TypeOK
  <2> QED  BY <1>1, <2>1 DEF Delivery!vars
<1> QED
  BY <1>2, <1>3

\* Steps that only move handlers or store documents are invisible.
LEMMA Invisible ==
  ASSUME IndInv, UNCHANGED <<topic, committed, broadcasts, deadLetters, skipped>>,
         documents \subseteq documents'
  PROVE  UNCHANGED Delivery!vars
BY NothingSettles DEF Delivery!vars

\* Every step of a handler is a step of the promise or invisible.
LEMMA StepRefines ==
  ASSUME IndInv, IndInv', NEW c \in Consumers, NEW p \in Partitions, Step(c, p)
  PROVE  [Delivery!Next]_Delivery!vars
<1>1. CASE StartPartition(c, p)
  BY <1>1, StartSkips
<1>2. CASE HandleMessage(c, p)
  BY <1>2, Invisible DEF HandleMessage, group, outcomes
<1>3. CASE IndexLog(c, p)
  BY <1>3, Invisible DEF IndexLog, Index, group
<1>4. CASE IndexLogRejected(c, p)
  BY <1>4, Invisible DEF IndexLogRejected, group, outcomes
<1>5. CASE PublishRealtime(c, p)
  BY <1>5, AtMostOneSettles DEF PublishRealtime, Working, InFlight, group
<1>6. CASE SendToDeadLetterQueue(c, p)
  BY <1>6, AtMostOneSettles DEF SendToDeadLetterQueue, Working, InFlight, group
<1>7. CASE CommitOffset(c, p)
  BY <1>7, CommitAcknowledges DEF CommitOffset
<1>8. CASE CommitOffsetRefused(c, p)
  BY <1>8, Invisible DEF CommitOffsetRefused, outcomes
<1> QED
  BY <1>1, <1>2, <1>3, <1>4, <1>5, <1>6, <1>7, <1>8 DEF Step

\* So is every failed call, with or without its effect.
LEMMA FailureRefines ==
  ASSUME IndInv, IndInv', NEW c \in Consumers, NEW p \in Partitions, Failure(c, p)
  PROVE  [Delivery!Next]_Delivery!vars
<1> PICK tookEffect \in BOOLEAN :
      \/ IndexLogFails(c, p, tookEffect)
      \/ PublishRealtimeFails(c, p, tookEffect)
      \/ SendToDeadLetterQueueFails(c, p, tookEffect)
      \/ CommitOffsetFails(c, p, tookEffect)
  BY DEF Failure
<1>1. CASE IndexLogFails(c, p, tookEffect)
  BY <1>1, Invisible DEF IndexLogFails, Index, group
<1>2. CASE PublishRealtimeFails(c, p, tookEffect)
  <2>1. CASE Publish(c, p)
    BY <1>2, <2>1, AtMostOneSettles DEF PublishRealtimeFails, Working, InFlight, group
  <2>2. CASE UNCHANGED broadcasts
    BY <1>2, <2>2, Invisible DEF PublishRealtimeFails, group
  <2> QED  BY <1>2, <2>1, <2>2 DEF PublishRealtimeFails
<1>3. CASE SendToDeadLetterQueueFails(c, p, tookEffect)
  <2>1. CASE DeadLetter(c, p)
    BY <1>3, <2>1, AtMostOneSettles
       DEF SendToDeadLetterQueueFails, Working, InFlight, group
  <2>2. CASE UNCHANGED deadLetters
    BY <1>3, <2>2, Invisible DEF SendToDeadLetterQueueFails, group
  <2> QED  BY <1>3, <2>1, <2>2 DEF SendToDeadLetterQueueFails
<1>4. CASE CommitOffsetFails(c, p, tookEffect)
  <2>1. CASE Commit(c, p)
    BY <1>4, <2>1, CommitAcknowledges DEF CommitOffsetFails
  <2>2. CASE UNCHANGED committed
    BY <1>4, <2>2, Invisible DEF CommitOffsetFails, outcomes
  <2> QED  BY <1>4, <2>1, <2>2 DEF CommitOffsetFails
<1> QED
  BY <1>1, <1>2, <1>3, <1>4

\* So is every step of the system.
LEMMA NextRefines ==
  IndInv /\ IndInv' /\ [Next]_vars => [Delivery!Next]_Delivery!vars
<1> SUFFICES ASSUME IndInv, IndInv', [Next]_vars
             PROVE  [Delivery!Next]_Delivery!vars
  OBVIOUS
<1>1. ASSUME NEW e \in Events, Produce(e) PROVE Delivery!Next
  BY <1>1, ProduceAccepts
<1>2. CASE NeededRebalance \/ UnprovokedRebalance
  BY <1>2, Invisible
     DEF NeededRebalance, UnprovokedRebalance, RebalanceTo, Rebalance, outcomes
<1>3. ASSUME NEW c \in Consumers, Crash(c) PROVE UNCHANGED Delivery!vars
  BY <1>3, Invisible DEF Crash, outcomes
<1>4. CASE UNCHANGED vars
  BY <1>4, Invisible DEF vars
<1> QED
  BY <1>1, <1>2, <1>3, <1>4, StepRefines, FailureRefines DEF Next

\* The initial states map to those of the promise.
LEMMA InitRefines == Init => Delivery!Init
BY DEF Init, Delivery!Init, settledBar, NoOffset

\* Replicas, rebalances, crashes and failed calls together keep the promise.
THEOREM Refinement == Spec => ImplementsDelivery
BY InitRefines, NextRefines, Invariance, PTL
   DEF Spec, Delivery!Spec, ImplementsDelivery

-----------------------------------------------------------------------------
(* Repetition. *)

\* Replica c is handling record o and has not sent it on yet.
Sending(c, p, o) ==
  task[c][p].pc \in {"index", "publish", "dlq"} /\ task[c][p].pos = o

\* Replica c comes to record o later, as things stand: it still has to start the
\* partition, now or when the handler that a rebalance left running returns, or has
\* not got that far.
Coming(c, p, o) ==
  /\ p \in held[c]
  /\ \/ task[c][p].pc = "idle"
     \/ task[c][p].pc = "ready" /\ task[c][p].pos <= o
     \/ task[c][p].pc \in InFlight /\ (task[c][p].fresh => task[c][p].pos < o)

\* What can still send record o without another failure.
Pending(p, o) ==
  {a \in Consumers \X {"sending", "coming"} :
     IF a[2] = "sending" THEN Sending(a[1], p, o) ELSE Coming(a[1], p, o)}

\* The rebalance that an abandoned partition needs is paid for by the crash that
\* abandoned it, or is the group's first.
Owed == IF \E p \in Partitions : Orphaned(p) THEN 1 ELSE 0

Sent(p, o) == broadcasts[p][o] + deadLetters[p][o]

WithinBudget(p, o) ==
  /\ IsFiniteSet(Pending(p, o))
  /\ Cardinality(Pending(p, o)) + Owed + Sent(p, o) <= 1 + faults

\* Only who holds a partition has a position in it, and only a handler runs on.
PositionFits(c, p) ==
  /\ task[c][p].pc = "idle" => task[c][p] = Idle
  /\ task[c][p].pc = "ready" => task[c][p].fresh
  /\ task[c][p].pc # "idle" /\ task[c][p].fresh => p \in held[c]

RepetitionInv ==
  /\ \A c \in Consumers, p \in Partitions : PositionFits(c, p)
  /\ \A p \in Partitions, o \in Offsets : WithinBudget(p, o)

\* A part of a finite set is finite and no larger.
LEMMA Smaller ==
  ASSUME NEW P, IsFiniteSet(P), NEW Q, Q \subseteq P
  PROVE  IsFiniteSet(Q) /\ Cardinality(Q) \in Nat /\ Cardinality(Q) <= Cardinality(P)
BY FS_Subset, FS_CardinalityType

\* A set that won at most one member.
LEMMA OneMore ==
  ASSUME NEW P, IsFiniteSet(P), NEW Q, NEW y, Q \subseteq P \cup {y}
  PROVE  IsFiniteSet(Q) /\ Cardinality(Q) \in Nat /\ Cardinality(Q) <= Cardinality(P) + 1
<1>1. /\ IsFiniteSet(P \cup {y}) /\ Cardinality(P) \in Nat
      /\ Cardinality(P \cup {y}) <= Cardinality(P) + 1
  BY FS_AddElement, FS_CardinalityType
<1>2. /\ IsFiniteSet(Q) /\ Cardinality(Q) \in Nat /\ Cardinality(P \cup {y}) \in Nat
      /\ Cardinality(Q) <= Cardinality(P \cup {y})
  BY <1>1, Smaller, FS_CardinalityType
<1> QED  BY <1>1, <1>2

\* A set that lost at least one member.
LEMMA OneLess ==
  ASSUME NEW P, IsFiniteSet(P), NEW Q, NEW x \in P, Q \subseteq P \ {x}
  PROVE  IsFiniteSet(Q) /\ Cardinality(Q) \in Nat /\ Cardinality(Q) + 1 <= Cardinality(P)
<1>1. /\ IsFiniteSet(P \ {x}) /\ Cardinality(P) \in Nat
      /\ Cardinality(P \ {x}) = Cardinality(P) - 1
  BY FS_RemoveElement, FS_CardinalityType
<1>2. /\ IsFiniteSet(Q) /\ Cardinality(Q) \in Nat
      /\ Cardinality(Q) <= Cardinality(P \ {x})
  BY <1>1, Smaller
<1> QED  BY <1>1, <1>2

\* A set that lost a member and won at most one.
LEMMA OneForOne ==
  ASSUME NEW P, IsFiniteSet(P), NEW Q, NEW x \in P, NEW y, Q \subseteq (P \ {x}) \cup {y}
  PROVE  IsFiniteSet(Q) /\ Cardinality(Q) \in Nat /\ Cardinality(Q) <= Cardinality(P)
<1>1. /\ IsFiniteSet(P \ {x}) /\ Cardinality(P) \in Nat
      /\ Cardinality(P \ {x}) = Cardinality(P) - 1
  BY FS_RemoveElement, FS_CardinalityType
<1>2. /\ IsFiniteSet(Q) /\ Cardinality(Q) \in Nat /\ Cardinality(P \ {x}) \in Nat
      /\ Cardinality(Q) <= Cardinality(P \ {x}) + 1
  BY <1>1, OneMore, FS_CardinalityType
<1> QED  BY <1>1, <1>2

\* A step pays for record o: what may still be sent and what was sent grow by no more
\* than the failures.
Pays(p, o) ==
  /\ IsFiniteSet(Pending(p, o)')
  /\ Cardinality(Pending(p, o)') + Owed' + Sent(p, o)' + faults
       <= Cardinality(Pending(p, o)) + Owed + Sent(p, o) + faults'

\* The numbers that the budget adds up.
LEMMA BudgetNumbers ==
  ASSUME TypeOK, RepetitionInv, NEW p \in Partitions, NEW o \in Offsets
  PROVE  /\ IsFiniteSet(Pending(p, o)) /\ Cardinality(Pending(p, o)) \in Nat
         /\ Owed \in {0, 1} /\ Sent(p, o) \in Nat /\ faults \in Nat
         /\ Cardinality(Pending(p, o)) + Owed + Sent(p, o) <= 1 + faults
<1>1. WithinBudget(p, o)
  BY DEF RepetitionInv
<1>2. Cardinality(Pending(p, o)) \in Nat
  BY <1>1, FS_CardinalityType DEF WithinBudget
<1>3. broadcasts[p][o] \in Nat /\ deadLetters[p][o] \in Nat /\ faults \in Nat
  BY ConstantsAssumption DEF TypeOK
<1>4. Sent(p, o) \in Nat /\ Owed \in {0, 1}
  BY <1>3 DEF Sent, Owed
<1> QED  BY <1>1, <1>2, <1>3, <1>4 DEF WithinBudget

\* A step that pays for every record stays within the budget.
LEMMA PaysInd ==
  ASSUME TypeOK, TypeOK', RepetitionInv,
         \A c \in Consumers, p \in Partitions : PositionFits(c, p)',
         \A p \in Partitions, o \in Offsets : Pays(p, o)
  PROVE  RepetitionInv'
<1>1. ASSUME NEW p \in Partitions, NEW o \in Offsets PROVE WithinBudget(p, o)'
  <2>1. PICK P : P = Pending(p, o)'
    OBVIOUS
  <2>2. /\ IsFiniteSet(P)
        /\ Cardinality(P) + Owed' + Sent(p, o)' + faults
             <= Cardinality(Pending(p, o)) + Owed + Sent(p, o) + faults'
    BY <2>1 DEF Pays
  <2>3. Cardinality(P) \in Nat
    BY <2>2, FS_CardinalityType
  <2>4. /\ Cardinality(Pending(p, o)) \in Nat /\ Owed \in Nat /\ Sent(p, o) \in Nat
        /\ faults \in Nat /\ Cardinality(Pending(p, o)) + Owed + Sent(p, o) <= 1 + faults
    BY BudgetNumbers
  <2>5. Owed' \in Nat /\ Sent(p, o)' \in Nat /\ faults' \in Nat
    BY ConstantsAssumption DEF Owed, Sent, TypeOK
  <2>6. Cardinality(P) + Owed' + Sent(p, o)' <= 1 + faults'
    BY <2>2, <2>3, <2>4, <2>5
  <2> QED  BY <2>1, <2>2, <2>6 DEF WithinBudget
<1> QED  BY <1>1 DEF RepetitionInv

\* Who is pending, one replica at a time.
LEMMA PendingPairs ==
  ASSUME NEW p, NEW o, NEW c \in Consumers
  PROVE  /\ <<c, "sending">> \in Pending(p, o) <=> Sending(c, p, o)
         /\ <<c, "coming">> \in Pending(p, o) <=> Coming(c, p, o)
BY DEF Pending

\* Nobody else is pending after a step than before.
LEMMA PendingShrinks ==
  ASSUME NEW p, NEW o,
         \A c \in Consumers : /\ Sending(c, p, o)' => Sending(c, p, o)
                              /\ Coming(c, p, o)' => Coming(c, p, o)
  PROVE  Pending(p, o)' \subseteq Pending(p, o)
BY DEF Pending

\* At first nothing was sent, and nobody is there.
LEMMA RepetitionInit == Init => RepetitionInv
<1> SUFFICES ASSUME Init PROVE RepetitionInv
  OBVIOUS
<1>1. /\ \A c \in Consumers : held[c] = {}
      /\ \A c \in Consumers, p \in Partitions : task[c][p] = Idle
      /\ \A p \in Partitions, o \in Offsets : broadcasts[p][o] = 0 /\ deadLetters[p][o] = 0
      /\ faults = 0
  BY DEF Init
<1>2. ASSUME NEW p \in Partitions, NEW o \in Offsets PROVE WithinBudget(p, o)
  <2>1. Pending(p, o) = {}
    BY <1>1 DEF Pending, Sending, Coming, Idle
  <2>2. IsFiniteSet(Pending(p, o)) /\ Cardinality(Pending(p, o)) = 0
    BY <2>1, FS_EmptySet
  <2>3. Owed \in {0, 1} /\ Sent(p, o) = 0
    BY <1>1 DEF Owed, Sent
  <2> QED  BY <1>1, <2>2, <2>3 DEF WithinBudget
<1> QED  BY <1>1, <1>2 DEF RepetitionInv, PositionFits, Idle

\* A step after which nothing else is pending, and which sends nothing.
LEMMA QuietPays ==
  ASSUME TypeOK, TypeOK', RepetitionInv, NEW p \in Partitions, NEW o \in Offsets,
         Pending(p, o)' \subseteq Pending(p, o),
         broadcasts'[p][o] = broadcasts[p][o], deadLetters'[p][o] = deadLetters[p][o],
         Owed' + faults <= Owed + faults'
  PROVE  Pays(p, o)
<1>1. PICK P : P = Pending(p, o)'
  OBVIOUS
<1>2. /\ IsFiniteSet(Pending(p, o)) /\ Cardinality(Pending(p, o)) \in Nat
      /\ Owed \in Nat /\ Sent(p, o) \in Nat /\ faults \in Nat
  BY BudgetNumbers
<1>3. IsFiniteSet(P) /\ Cardinality(P) \in Nat /\ Cardinality(P) <= Cardinality(Pending(p, o))
  BY <1>1, <1>2, Smaller
<1>4. Sent(p, o)' = Sent(p, o) /\ Owed' \in Nat /\ faults' \in Nat
  BY ConstantsAssumption DEF Sent, Owed, TypeOK
<1>5. Cardinality(P) + Owed' + Sent(p, o)' + faults
        <= Cardinality(Pending(p, o)) + Owed + Sent(p, o) + faults'
  BY <1>2, <1>3, <1>4
<1> QED  BY <1>1, <1>3, <1>5 DEF Pays

\* Replica c changes what it does in partition p, and holds what it held.
Turns(c, p, t) ==
  /\ c \in Consumers /\ p \in Partitions /\ t \in Tasks
  /\ SetTask(c, p, t) /\ held' = held /\ members' = members

\* The other replicas and partitions are as pending as before.
LEMMA OthersPend ==
  ASSUME TypeOK, NEW c, NEW p, NEW t, Turns(c, p, t)
  PROVE  /\ task'[c][p] = t
         /\ \A q \in Partitions : \A o : q # p => Pending(q, o)' = Pending(q, o)
         /\ \A o : Pending(p, o)' \subseteq
                     Pending(p, o) \cup {<<c, "sending">>, <<c, "coming">>}
         /\ Owed' = Owed
<1>1. /\ task'[c][p] = t /\ held' = held /\ members' = members
      /\ \A d \in Consumers, q \in Partitions : d # c \/ q # p => task'[d][q] = task[d][q]
  BY SetTaskFacts DEF Turns
<1>2. \A d \in Consumers, q \in Partitions : \A o : d # c \/ q # p =>
        /\ Sending(d, q, o)' <=> Sending(d, q, o)
        /\ Coming(d, q, o)' <=> Coming(d, q, o)
  BY <1>1 DEF Sending, Coming
<1>3. \A q \in Partitions : \A o : q # p => Pending(q, o)' = Pending(q, o)
  BY <1>2 DEF Pending
<1>4. \A o : Pending(p, o)' \subseteq Pending(p, o) \cup {<<c, "sending">>, <<c, "coming">>}
  <2>1. p \in Partitions
    BY DEF Turns
  <2>2. ASSUME NEW o, NEW a \in Pending(p, o)', a \notin {<<c, "sending">>, <<c, "coming">>}
        PROVE  a \in Pending(p, o)
    <3>1. PICK d \in Consumers, s \in {"sending", "coming"} : a = <<d, s>>
      BY <2>2 DEF Pending
    <3>2. d # c
      BY <2>2, <3>1
    <3>3. IF s = "sending" THEN Sending(d, p, o)' ELSE Coming(d, p, o)'
      BY <2>2, <3>1 DEF Pending
    <3>4. IF s = "sending" THEN Sending(d, p, o) ELSE Coming(d, p, o)
      BY <1>2, <2>1, <3>2, <3>3
    <3> QED  BY <3>1, <3>4 DEF Pending
  <2> QED  BY <2>2
<1>5. Owed' = Owed
  BY <1>1 DEF Owed, Orphaned
<1> QED  BY <1>1, <1>3, <1>4, <1>5

\* Positions fit when the new one does.
LEMMA TurnFits ==
  ASSUME TypeOK, RepetitionInv, NEW c, NEW p, NEW t, Turns(c, p, t),
         t.pc = "idle" => t = Idle, t.pc = "ready" => t.fresh,
         t.pc # "idle" /\ t.fresh => p \in held[c]
  PROVE  \A d \in Consumers, q \in Partitions : PositionFits(d, q)'
<1>1. /\ task'[c][p] = t /\ held' = held
      /\ \A d \in Consumers, q \in Partitions : d # c \/ q # p => task'[d][q] = task[d][q]
  BY SetTaskFacts DEF Turns
<1> SUFFICES ASSUME NEW d \in Consumers, NEW q \in Partitions PROVE PositionFits(d, q)'
  OBVIOUS
<1>2. CASE d = c /\ q = p
  BY <1>1, <1>2 DEF PositionFits
<1>3. CASE d # c \/ q # p
  BY <1>1, <1>3 DEF RepetitionInv, PositionFits
<1> QED  BY <1>2, <1>3

\* What is pending of the record o after the replica that turns to t is, at most.
LEMMA TurnPends ==
  ASSUME TypeOK, NEW c, NEW p, NEW t, Turns(c, p, t), NEW o
  PROVE  /\ <<c, "sending">> \in Pending(p, o)' <=>
              t.pc \in {"index", "publish", "dlq"} /\ t.pos = o
         /\ <<c, "coming">> \in Pending(p, o)' <=>
              /\ p \in held[c]
              /\ \/ t.pc = "idle"
                 \/ t.pc = "ready" /\ t.pos <= o
                 \/ t.pc \in InFlight /\ (t.fresh => t.pos < o)
<1>1. task'[c][p] = t /\ held' = held /\ c \in Consumers
  BY OthersPend DEF Turns
<1>2. /\ <<c, "sending">> \in Pending(p, o)' <=> Sending(c, p, o)'
      /\ <<c, "coming">> \in Pending(p, o)' <=> Coming(c, p, o)'
  BY <1>1 DEF Pending
<1> QED  BY <1>1, <1>2 DEF Sending, Coming

\* What is pending of a record shrinks, swaps one for another, or grows by one for a
\* failure.
Exchanges(p, o) ==
  \/ Pending(p, o)' \subseteq Pending(p, o)
  \/ \E x \in Pending(p, o) : \E y : Pending(p, o)' \subseteq (Pending(p, o) \ {x}) \cup {y}
  \/ faults' = faults + 1 /\ \E y : Pending(p, o)' \subseteq Pending(p, o) \cup {y}

\* A handler of one partition moves without sending and without a failure: nothing
\* that was not pending becomes so, or coming to the record turns into sending it.
LEMMA TurnPays ==
  ASSUME TypeOK, TypeOK', RepetitionInv, NEW c, NEW p, NEW t, Turns(c, p, t),
         UNCHANGED <<broadcasts, deadLetters>>,
         faults <= faults',
         \A o \in Offsets : Exchanges(p, o)
  PROVE  \A q \in Partitions, o \in Offsets : Pays(q, o)
<1>1. \A q \in Partitions : \A o : q # p => Pending(q, o)' = Pending(q, o)
  BY OthersPend
<1>2. faults \in Nat /\ faults' \in Nat /\ Owed \in Nat
  BY ConstantsAssumption DEF TypeOK, Owed
<1>9. PICK w : w = Owed'
  OBVIOUS
<1>10. w = Owed
  BY OthersPend, <1>9
<1>11. PICK f : f = faults'
  OBVIOUS
<1>12. w + faults <= Owed + f
  <2>1. faults <= f /\ f \in Nat
    BY <1>2, <1>11
  <2> QED  BY <1>2, <1>10, <2>1
<1>3. Owed' + faults <= Owed + faults'
  BY <1>9, <1>11, <1>12
<1> SUFFICES ASSUME NEW q \in Partitions, NEW o \in Offsets PROVE Pays(q, o)
  OBVIOUS
<1>4. CASE Pending(q, o)' \subseteq Pending(q, o)
  BY <1>3, <1>4, QuietPays
<1>5. PICK P : P = Pending(q, o)'
  OBVIOUS
<1>6. /\ IsFiniteSet(Pending(q, o)) /\ Cardinality(Pending(q, o)) \in Nat
      /\ Sent(q, o) \in Nat /\ Sent(q, o)' = Sent(q, o)
  BY BudgetNumbers DEF Sent
<1>7. CASE \E x \in Pending(q, o) : \E y : P \subseteq (Pending(q, o) \ {x}) \cup {y}
  <2>1. IsFiniteSet(P) /\ Cardinality(P) \in Nat /\ Cardinality(P) <= Cardinality(Pending(q, o))
    BY <1>6, <1>7, OneForOne
  <2>2. Cardinality(P) + w + Sent(q, o)' + faults
          <= Cardinality(Pending(q, o)) + Owed + Sent(q, o) + faults'
    BY <1>2, <1>6, <1>10, <2>1
  <2> QED  BY <1>5, <1>9, <2>1, <2>2 DEF Pays
<1>8. CASE faults' = faults + 1 /\ \E y : P \subseteq Pending(q, o) \cup {y}
  <2>1. /\ IsFiniteSet(P) /\ Cardinality(P) \in Nat
        /\ Cardinality(P) <= Cardinality(Pending(q, o)) + 1
    BY <1>6, <1>8, OneMore
  <2>2. Cardinality(P) + w + Sent(q, o)' + faults
          <= Cardinality(Pending(q, o)) + Owed + Sent(q, o) + faults'
    BY <1>2, <1>6, <1>8, <1>10, <2>1
  <2> QED  BY <1>5, <1>9, <2>1, <2>2 DEF Pays
<1> QED  BY <1>1, <1>4, <1>5, <1>7, <1>8 DEF Exchanges

\* A handler that sends record n: it was pending and no longer is, unless it failed.
LEMMA SendPays ==
  ASSUME TypeOK, TypeOK', RepetitionInv, NEW c, NEW p, NEW t, Turns(c, p, t),
         NEW n \in Offsets, NEW x \in Pending(p, n),
         Sent(p, n)' = Sent(p, n) + 1,
         \A q \in Partitions, o \in Offsets : q # p \/ o # n => Sent(q, o)' = Sent(q, o),
         \A o \in Offsets : o # n => Pending(p, o)' \subseteq Pending(p, o),
         \/ faults' = faults /\ Pending(p, n)' \subseteq Pending(p, n) \ {x}
         \/ faults' = faults + 1
            /\ \E y : Pending(p, n)' \subseteq (Pending(p, n) \ {x}) \cup {y}
  PROVE  \A q \in Partitions, o \in Offsets : Pays(q, o)
<1>1. PICK w : w = Owed'
  OBVIOUS
<1>2. w = Owed /\ Owed \in Nat
  BY OthersPend, <1>1 DEF Owed
<1>3. PICK f : f = faults'
  OBVIOUS
<1>4. faults \in Nat /\ f \in Nat /\ (f = faults \/ f = faults + 1)
  BY <1>3, ConstantsAssumption DEF TypeOK
<1> SUFFICES ASSUME NEW q \in Partitions, NEW o \in Offsets PROVE Pays(q, o)
  OBVIOUS
<1>5. PICK P : P = Pending(q, o)'
  OBVIOUS
<1>6. /\ IsFiniteSet(Pending(q, o)) /\ Cardinality(Pending(q, o)) \in Nat
      /\ Sent(q, o) \in Nat
  BY BudgetNumbers
<1>7. CASE q # p \/ o # n
  <2>1. P \subseteq Pending(q, o)
    BY <1>5, <1>7, OthersPend
  <2>2. IsFiniteSet(P) /\ Cardinality(P) \in Nat /\ Cardinality(P) <= Cardinality(Pending(q, o))
    BY <1>6, <2>1, Smaller
  <2>3. Cardinality(P) + w + Sent(q, o) + faults
          <= Cardinality(Pending(q, o)) + Owed + Sent(q, o) + f
    BY <1>2, <1>4, <1>6, <2>2
  <2>4. Sent(q, o)' = Sent(q, o)
    BY <1>7
  <2> QED  BY <1>1, <1>3, <1>5, <2>2, <2>3, <2>4 DEF Pays
<1>8. CASE q = p /\ o = n /\ f = faults
  <2>1. f # faults + 1
    BY <1>4, <1>8
  <2>2. P \subseteq Pending(q, o) \ {x} /\ x \in Pending(q, o)
    BY <1>3, <1>5, <1>8, <2>1
  <2>3. /\ IsFiniteSet(P) /\ Cardinality(P) \in Nat
        /\ Cardinality(P) + 1 <= Cardinality(Pending(q, o))
    BY <1>6, <2>2, OneLess
  <2>4. Cardinality(P) + w + (Sent(q, o) + 1) + faults
          <= Cardinality(Pending(q, o)) + Owed + Sent(q, o) + f
    BY <1>2, <1>4, <1>6, <1>8, <2>3
  <2>5. Sent(q, o)' = Sent(q, o) + 1
    BY <1>8
  <2> QED  BY <1>1, <1>3, <1>5, <2>3, <2>4, <2>5 DEF Pays
<1>9. CASE q = p /\ o = n /\ f = faults + 1
  <2>1. f # faults
    BY <1>4, <1>9
  <2>2. x \in Pending(q, o) /\ \E y : P \subseteq (Pending(q, o) \ {x}) \cup {y}
    BY <1>3, <1>5, <1>9, <2>1
  <2>3. IsFiniteSet(P) /\ Cardinality(P) \in Nat /\ Cardinality(P) <= Cardinality(Pending(q, o))
    BY <1>6, <2>2, OneForOne
  <2>4. Cardinality(P) + w + (Sent(q, o) + 1) + faults
          <= Cardinality(Pending(q, o)) + Owed + Sent(q, o) + f
    BY <1>2, <1>4, <1>6, <1>9, <2>3
  <2>5. Sent(q, o)' = Sent(q, o) + 1
    BY <1>9
  <2> QED  BY <1>1, <1>3, <1>5, <2>3, <2>4, <2>5 DEF Pays
<1> QED  BY <1>4, <1>7, <1>8, <1>9

\* A handler that is offered its record again turns to that.
LEMMA RetryTurns ==
  ASSUME IndInv, NEW c \in Consumers, NEW p \in Partitions, Working(c, p),
         SetTask(c, p, Retry(task[c][p])), held' = held, members' = members
  PROVE  Turns(c, p, Retry(task[c][p]))
<1>1. task[c][p] \in Tasks
  BY AtWork
<1>2. Retry(task[c][p]) \in Tasks
  BY <1>1 DEF Retry, Ready, Idle, Tasks, Stages
<1> QED  BY <1>2 DEF Turns

\* A failed handler is at most coming to the record it was sending.
LEMMA RetryPends ==
  ASSUME IndInv, RepetitionInv, NEW c \in Consumers, NEW p \in Partitions, Working(c, p),
         Turns(c, p, Retry(task[c][p]))
  PROVE  /\ \A o : Pending(p, o)' \subseteq
                     (Pending(p, o) \ {<<c, "sending">>}) \cup {<<c, "coming">>}
         /\ \A o \in Offsets : o # task[c][p].pos => Pending(p, o)' \subseteq Pending(p, o)
         /\ \A d \in Consumers, q \in Partitions : PositionFits(d, q)'
<1> DEFINE t == Retry(task[c][p])
<1>1. TypeOK /\ task[c][p] \in Tasks /\ PositionFits(c, p) /\ task[c][p].pos \in Offsets
  BY AtWork DEF IndInv, RepetitionInv
<1>2. /\ task[c][p].fresh => t.pc = "ready" /\ t.pos = task[c][p].pos /\ t.fresh
      /\ ~task[c][p].fresh => t = Idle /\ t.pc = "idle"
  BY DEF Retry, Ready, Idle
<1>3. /\ task[c][p].pc # "idle" /\ task[c][p].fresh \in BOOLEAN
      /\ task[c][p].pc \in InFlight
  BY <1>1 DEF Working, InFlight, Tasks
<1> HIDE DEF t
<1>4. \A o : <<c, "sending">> \notin Pending(p, o)'
  <2>1. Turns(c, p, t)
    BY DEF t
  <2>2. \A o : <<c, "sending">> \in Pending(p, o)'
                => t.pc \in {"index", "publish", "dlq"}
    BY <1>1, <2>1, TurnPends
  <2>3. t.pc \in {"ready", "idle"}
    BY <1>2, <1>3
  <2> QED  BY <2>2, <2>3
<1>5. \A o : Pending(p, o)' \subseteq Pending(p, o) \cup {<<c, "sending">>, <<c, "coming">>}
  BY <1>1, OthersPend
<1>6. \A o \in Offsets : o # task[c][p].pos /\ <<c, "coming">> \in Pending(p, o)'
                           => <<c, "coming">> \in Pending(p, o)
  <2>1. ASSUME NEW o \in Offsets, o # task[c][p].pos, <<c, "coming">> \in Pending(p, o)'
        PROVE  <<c, "coming">> \in Pending(p, o)
    <3>1. p \in held[c] /\ (t.pc = "ready" => t.pos <= o)
      BY <1>1, <2>1, TurnPends DEF t, InFlight
    <3>2. task[c][p].fresh => task[c][p].pos < o
      BY <1>1, <1>2, <2>1, <3>1 DEF Offsets
    <3>3. Coming(c, p, o)
      BY <1>3, <3>1, <3>2 DEF Coming
    <3> QED  BY <3>3, PendingPairs
  <2> QED  BY <2>1
<1>7. \A d \in Consumers, q \in Partitions : PositionFits(d, q)'
  <2>1. p \in held[c] \/ ~task[c][p].fresh
    BY <1>1, <1>3 DEF PositionFits
  <2> QED  BY <1>1, <1>2, <1>3, <2>1, TurnFits DEF t
<1> QED  BY <1>4, <1>5, <1>6, <1>7

\* A call fails, or Elasticsearch refuses, and nothing was sent: only a failed commit
\* makes the record pending again, and it is a failure.
LEMMA RetryQuiet ==
  ASSUME IndInv, IndInv', RepetitionInv, NEW c \in Consumers, NEW p \in Partitions,
         Working(c, p), Turns(c, p, Retry(task[c][p])),
         UNCHANGED <<broadcasts, deadLetters>>,
         \/ faults' = faults /\ task[c][p].pc # "commit"
         \/ faults' = faults + 1
  PROVE  RepetitionInv'
<1>1. TypeOK /\ TypeOK' /\ task[c][p].pos \in Offsets
  BY AtWork DEF IndInv
<1>2. ASSUME NEW o \in Offsets PROVE Exchanges(p, o)
  <2>1. CASE o # task[c][p].pos
    BY <2>1, RetryPends DEF Exchanges
  <2>2. CASE o = task[c][p].pos /\ task[c][p].pc # "commit"
    <3>1. <<c, "sending">> \in Pending(p, o)
      BY <2>2, PendingPairs DEF Working, InFlight, Sending
    <3> QED  BY <3>1, RetryPends DEF Exchanges
  <2>3. CASE faults' = faults + 1
    <3>1. Pending(p, o)' \subseteq Pending(p, o) \cup {<<c, "coming">>}
      BY RetryPends
    <3> QED  BY <2>3, <3>1 DEF Exchanges
  <2> QED  BY <2>1, <2>2, <2>3
<1>3. faults <= faults'
  <2>1. PICK f : f = faults'
    OBVIOUS
  <2>2. faults \in Nat /\ (f = faults \/ f = faults + 1)
    BY <1>1, <2>1, ConstantsAssumption DEF TypeOK
  <2>3. faults <= f
    BY <2>2
  <2> QED  BY <2>1, <2>3
<1>4. \A q \in Partitions, o \in Offsets : Pays(q, o)
  BY <1>1, <1>2, <1>3, TurnPays
<1> QED  BY <1>1, <1>4, RetryPends, PaysInd

\* A handler turns without sending or failing, and nothing more is pending.
LEMMA TurnQuiet ==
  ASSUME IndInv, IndInv', RepetitionInv, NEW c, NEW p, NEW t, Turns(c, p, t),
         UNCHANGED <<broadcasts, deadLetters, faults>>,
         \A o \in Offsets : Exchanges(p, o),
         \A d \in Consumers, q \in Partitions : PositionFits(d, q)'
  PROVE  RepetitionInv'
<1>1. TypeOK /\ TypeOK'
  BY DEF IndInv
<1>2. faults <= faults'
  BY <1>1, ConstantsAssumption DEF TypeOK
<1>3. \A q \in Partitions, o \in Offsets : Pays(q, o)
  BY <1>1, <1>2, TurnPays
<1> QED  BY <1>1, <1>3, PaysInd

\* The partition is entered by who was to enter it.
LEMMA StartPartitionRepeats ==
  ASSUME IndInv, IndInv', RepetitionInv, NEW c \in Consumers, NEW p \in Partitions,
         StartPartition(c, p)
  PROVE  RepetitionInv'
<1>1. PICK t : t = Ready(StartOffset(p))
  OBVIOUS
<1>2. /\ TypeOK /\ p \in held[c] /\ task[c][p].pc = "idle"
      /\ UNCHANGED <<broadcasts, deadLetters, faults, held, members>>
      /\ t.pc = "ready" /\ t.fresh
  BY <1>1 DEF IndInv, StartPartition, outcomes, group, Idle, Ready
<1>3. Turns(c, p, t)
  <2>1. StartOffset(p) \in Nat
    BY <1>2, ConstantsAssumption DEF StartOffset, TypeOK
  <2>2. t \in Tasks
    BY <1>1, <2>1 DEF Ready, Tasks, Stages
  <2> QED  BY <1>1, <1>2, <2>2 DEF Turns, StartPartition
<1>4. ASSUME NEW o \in Offsets PROVE Exchanges(p, o)
  <2>1. <<c, "coming">> \in Pending(p, o)
    BY <1>2, PendingPairs DEF Coming
  <2>2. <<c, "sending">> \notin Pending(p, o)'
    BY <1>2, <1>3, TurnPends
  <2> QED  BY <1>2, <1>3, <2>1, <2>2, OthersPend DEF Exchanges
<1>5. \A d \in Consumers, q \in Partitions : PositionFits(d, q)'
  BY <1>2, <1>3, TurnFits
<1> QED  BY <1>2, <1>3, <1>4, <1>5, TurnQuiet

\* The record at hand was to come and is now being sent.
LEMMA HandleMessageRepeats ==
  ASSUME IndInv, IndInv', RepetitionInv, NEW c \in Consumers, NEW p \in Partitions,
         HandleMessage(c, p)
  PROVE  RepetitionInv'
<1>1. PICK t : t = [task[c][p] EXCEPT !.pc = FirstStage(Record(c, p))]
  OBVIOUS
<1>2. /\ TypeOK /\ task[c][p].pc = "ready" /\ task[c][p].fresh /\ p \in held[c]
      /\ task[c][p] \in Tasks
      /\ UNCHANGED <<broadcasts, deadLetters, faults, held, members>>
  BY DEF IndInv, HandleMessage, outcomes, group, RepetitionInv, PositionFits, TypeOK
<1>3. /\ t \in Tasks /\ t.pc \in InFlight /\ t.fresh /\ t.pos = task[c][p].pos
      /\ t.pc # "idle" /\ t.pc # "ready"
  BY <1>1, <1>2 DEF FirstStage, Tasks, Stages, InFlight
<1>4. Turns(c, p, t)
  BY <1>1, <1>2, <1>3 DEF Turns, HandleMessage
<1>5. ASSUME NEW o \in Offsets PROVE Exchanges(p, o)
  <2>1. /\ <<c, "sending">> \in Pending(p, o)' => t.pos = o
        /\ <<c, "coming">> \in Pending(p, o)' => t.pos < o
    BY <1>2, <1>3, <1>4, TurnPends
  <2>2. task[c][p].pos <= o => <<c, "coming">> \in Pending(p, o)
    BY <1>2, PendingPairs DEF Coming
  <2>3. t.pos \in Nat /\ o \in Nat
    BY <1>3 DEF Tasks, Offsets
  <2>4. Pending(p, o)' \subseteq Pending(p, o) \cup {<<c, "sending">>, <<c, "coming">>}
    BY <1>2, <1>4, OthersPend
  <2>5. CASE t.pos = o
    <3>1. <<c, "coming">> \in Pending(p, o) /\ <<c, "coming">> \notin Pending(p, o)'
      BY <1>3, <2>1, <2>2, <2>3, <2>5
    <3>2. Pending(p, o)' \subseteq (Pending(p, o) \ {<<c, "coming">>}) \cup {<<c, "sending">>}
      BY <2>4, <3>1
    <3> QED  BY <3>1, <3>2 DEF Exchanges
  <2>6. CASE t.pos # o
    <3>1. <<c, "coming">> \in Pending(p, o)' => <<c, "coming">> \in Pending(p, o)
      BY <1>3, <2>1, <2>2, <2>3
    <3> QED  BY <2>1, <2>4, <2>6, <3>1 DEF Exchanges
  <2> QED  BY <2>5, <2>6
<1>6. \A d \in Consumers, q \in Partitions : PositionFits(d, q)'
  BY <1>2, <1>3, <1>4, TurnFits
<1> QED  BY <1>2, <1>4, <1>5, <1>6, TurnQuiet

\* A handler that goes on to another call is pending as before, except that one at its
\* commit sends nothing.
LEMMA ProceedPends ==
  ASSUME IndInv, RepetitionInv, NEW c \in Consumers, NEW p \in Partitions,
         task[c][p].pc \in {"index", "publish", "dlq"}, NEW s \in InFlight,
         SetTask(c, p, [task[c][p] EXCEPT !.pc = s]), held' = held, members' = members
  PROVE  /\ Turns(c, p, [task[c][p] EXCEPT !.pc = s])
         /\ \A o : Pending(p, o)' \subseteq Pending(p, o)
         /\ s = "commit" => \A o : <<c, "sending">> \notin Pending(p, o)'
         /\ \A d \in Consumers, q \in Partitions : PositionFits(d, q)'
<1>1. PICK t : t = [task[c][p] EXCEPT !.pc = s]
  OBVIOUS
<1>2. TypeOK /\ task[c][p] \in Tasks /\ PositionFits(c, p)
  BY DEF IndInv, RepetitionInv, TypeOK
<1>3. /\ t \in Tasks /\ t.pc = s /\ t.pos = task[c][p].pos /\ t.fresh = task[c][p].fresh
      /\ t.pc # "idle" /\ t.pc # "ready" /\ task[c][p].pc # "idle" /\ task[c][p].pc \in InFlight
  BY <1>1, <1>2 DEF Tasks, Stages, InFlight
<1>4. Turns(c, p, t)
  BY <1>1, <1>3 DEF Turns
<1>5. ASSUME NEW o
      PROVE  /\ Pending(p, o)' \subseteq Pending(p, o)
             /\ s = "commit" => <<c, "sending">> \notin Pending(p, o)'
  <2>1. /\ <<c, "sending">> \in Pending(p, o)' => t.pc \in {"index", "publish", "dlq"}
                                                  /\ t.pos = o
        /\ <<c, "coming">> \in Pending(p, o)' => p \in held[c] /\ (t.fresh => t.pos < o)
    BY <1>2, <1>3, <1>4, TurnPends
  <2>2. /\ <<c, "sending">> \in Pending(p, o)' => <<c, "sending">> \in Pending(p, o)
        /\ <<c, "coming">> \in Pending(p, o)' => <<c, "coming">> \in Pending(p, o)
    BY <1>3, <2>1, PendingPairs DEF Sending, Coming
  <2>3. Pending(p, o)' \subseteq Pending(p, o) \cup {<<c, "sending">>, <<c, "coming">>}
    BY <1>2, <1>4, OthersPend
  <2> QED  BY <1>3, <2>1, <2>2, <2>3
<1>6. \A d \in Consumers, q \in Partitions : PositionFits(d, q)'
  BY <1>2, <1>3, <1>4, TurnFits DEF PositionFits
<1> QED  BY <1>1, <1>4, <1>5, <1>6

\* An indexed record is still to be sent.
LEMMA IndexLogRepeats ==
  ASSUME IndInv, IndInv', RepetitionInv, NEW c \in Consumers, NEW p \in Partitions,
         IndexLog(c, p)
  PROVE  RepetitionInv'
<1>1. /\ task[c][p].pc = "index" /\ "publish" \in InFlight
      /\ SetTask(c, p, [task[c][p] EXCEPT !.pc = "publish"])
      /\ UNCHANGED <<broadcasts, deadLetters, faults, held, members>>
  BY DEF IndexLog, Proceed, NextStage, group, InFlight
<1>2. \A o \in Offsets : Exchanges(p, o)
  BY <1>1, ProceedPends DEF Exchanges
<1> QED  BY <1>1, <1>2, ProceedPends, TurnQuiet

\* One more publication of a record leaves the other counts alone.
LEMMA CountUpOthers ==
  ASSUME NEW counts \in [Partitions -> [Offsets -> Nat]],
         NEW p \in Partitions, NEW n \in Offsets
  PROVE  \A q \in Partitions, o \in Offsets :
           q # p \/ o # n => CountUp(counts, p, n)[q][o] = counts[q][o]
BY CountUpFacts

\* A broadcast or dead letter is counted once, for the record at hand.
LEMMA SentOnce ==
  ASSUME IndInv, NEW c \in Consumers, NEW p \in Partitions, Working(c, p),
         NEW n \in Offsets, n = task[c][p].pos,
         \/ Publish(c, p) /\ UNCHANGED deadLetters
         \/ DeadLetter(c, p) /\ UNCHANGED broadcasts
  PROVE  /\ Sent(p, n)' = Sent(p, n) + 1
         /\ \A q \in Partitions, o \in Offsets : q # p \/ o # n => Sent(q, o)' = Sent(q, o)
<1>1. /\ broadcasts \in [Partitions -> [Offsets -> Nat]]
      /\ deadLetters \in [Partitions -> [Offsets -> Nat]]
  BY DEF IndInv, TypeOK
<1>2. broadcasts[p][n] \in Nat /\ deadLetters[p][n] \in Nat
  BY <1>1, CountsAreNumbers, Zenon
<1>3. CASE Publish(c, p) /\ UNCHANGED deadLetters
  <2>1. broadcasts' = CountUp(broadcasts, p, n) /\ deadLetters' = deadLetters
    BY <1>3 DEF Publish
  <2>2. CountUp(broadcasts, p, n)[p][n] = broadcasts[p][n] + 1
    BY <1>1, CountUpAt
  <2>3. \A q \in Partitions, o \in Offsets :
          q # p \/ o # n => CountUp(broadcasts, p, n)[q][o] = broadcasts[q][o]
    BY <1>1, CountUpOthers
  <2>4. (broadcasts[p][n] + 1) + deadLetters[p][n] = (broadcasts[p][n] + deadLetters[p][n]) + 1
    BY <1>2, OneMoreInAll, Zenon
  <2> QED  BY <2>1, <2>2, <2>3, <2>4 DEF Sent
<1>4. CASE DeadLetter(c, p) /\ UNCHANGED broadcasts
  <2>1. deadLetters' = CountUp(deadLetters, p, n) /\ broadcasts' = broadcasts
    BY <1>4 DEF DeadLetter
  <2>2. CountUp(deadLetters, p, n)[p][n] = deadLetters[p][n] + 1
    BY <1>1, CountUpAt
  <2>3. \A q \in Partitions, o \in Offsets :
          q # p \/ o # n => CountUp(deadLetters, p, n)[q][o] = deadLetters[q][o]
    BY <1>1, CountUpOthers
  <2>4. broadcasts[p][n] + (deadLetters[p][n] + 1) = (broadcasts[p][n] + deadLetters[p][n]) + 1
    BY <1>2, OneMoreInAll
  <2> QED  BY <2>1, <2>2, <2>3, <2>4 DEF Sent
<1> QED  BY <1>3, <1>4

\* A record that is sent was being sent.
LEMMA SendRepeats ==
  ASSUME IndInv, IndInv', RepetitionInv, NEW c \in Consumers, NEW p \in Partitions,
         PublishRealtime(c, p) \/ SendToDeadLetterQueue(c, p)
  PROVE  RepetitionInv'
<1>1. /\ task[c][p].pc \in {"publish", "dlq"} /\ "commit" \in InFlight /\ Working(c, p)
      /\ SetTask(c, p, [task[c][p] EXCEPT !.pc = "commit"])
      /\ UNCHANGED <<faults, held, members>>
      /\ \/ Publish(c, p) /\ UNCHANGED deadLetters
         \/ DeadLetter(c, p) /\ UNCHANGED broadcasts
  BY DEF PublishRealtime, SendToDeadLetterQueue, Proceed, NextStage, group, InFlight, Working
<1>2. PICK n \in Offsets : n = task[c][p].pos
  BY <1>1, AtWork
<1>3. TypeOK /\ TypeOK'
  BY DEF IndInv
<1>4. <<c, "sending">> \in Pending(p, n)
  BY <1>1, <1>2, PendingPairs DEF Sending
<1>5. /\ Turns(c, p, [task[c][p] EXCEPT !.pc = "commit"])
      /\ \A o \in Offsets : Pending(p, o)' \subseteq Pending(p, o)
      /\ Pending(p, n)' \subseteq Pending(p, n) \ {<<c, "sending">>}
      /\ \A d \in Consumers, q \in Partitions : PositionFits(d, q)'
  BY <1>1, ProceedPends
<1>6. /\ Sent(p, n)' = Sent(p, n) + 1
      /\ \A q \in Partitions, o \in Offsets : q # p \/ o # n => Sent(q, o)' = Sent(q, o)
  BY <1>1, <1>2, SentOnce
<1>7. \A q \in Partitions, o \in Offsets : Pays(q, o)
  BY <1>1, <1>3, <1>4, <1>5, <1>6, SendPays
<1> QED  BY <1>3, <1>5, <1>7, PaysInd

\* A call that failed may have sent the record, which is offered again.
LEMMA SendFailsRepeats ==
  ASSUME IndInv, IndInv', RepetitionInv, NEW c \in Consumers, NEW p \in Partitions,
         NEW tookEffect \in BOOLEAN,
         PublishRealtimeFails(c, p, tookEffect) \/ SendToDeadLetterQueueFails(c, p, tookEffect)
  PROVE  RepetitionInv'
<1>1. /\ task[c][p].pc \in {"publish", "dlq"} /\ Working(c, p)
      /\ SetTask(c, p, Retry(task[c][p])) /\ faults' = faults + 1
      /\ held' = held /\ members' = members
      /\ \/ Publish(c, p) /\ UNCHANGED deadLetters
         \/ DeadLetter(c, p) /\ UNCHANGED broadcasts
         \/ UNCHANGED <<broadcasts, deadLetters>>
  BY DEF PublishRealtimeFails, SendToDeadLetterQueueFails, Fault, group, InFlight, Working
<1>2. PICK n \in Offsets : n = task[c][p].pos
  BY <1>1, AtWork
<1>3. TypeOK /\ TypeOK'
  BY DEF IndInv
<1>4. Turns(c, p, Retry(task[c][p]))
  BY <1>1, RetryTurns
<1>5. CASE UNCHANGED <<broadcasts, deadLetters>>
  BY <1>1, <1>4, <1>5, RetryQuiet
<1>6. CASE \/ Publish(c, p) /\ UNCHANGED deadLetters
           \/ DeadLetter(c, p) /\ UNCHANGED broadcasts
  <2>1. <<c, "sending">> \in Pending(p, n)
    BY <1>1, <1>2, PendingPairs DEF Sending
  <2>2. /\ \A o \in Offsets : o # n => Pending(p, o)' \subseteq Pending(p, o)
        /\ \A d \in Consumers, q \in Partitions : PositionFits(d, q)'
    BY <1>1, <1>2, <1>4, RetryPends
  <2>3. Pending(p, n)' \subseteq (Pending(p, n) \ {<<c, "sending">>}) \cup {<<c, "coming">>}
    BY <1>1, <1>4, RetryPends
  <2>4. /\ Sent(p, n)' = Sent(p, n) + 1
        /\ \A q \in Partitions, o \in Offsets : q # p \/ o # n => Sent(q, o)' = Sent(q, o)
    BY <1>1, <1>2, <1>6, SentOnce
  <2>5. \A q \in Partitions, o \in Offsets : Pays(q, o)
    BY <1>1, <1>3, <1>4, <2>1, <2>2, <2>3, <2>4, SendPays
  <2> QED  BY <1>3, <2>2, <2>5, PaysInd
<1> QED  BY <1>1, <1>5, <1>6

\* Other failed calls, and documents that are refused, send nothing.
LEMMA OtherFailsRepeats ==
  ASSUME IndInv, IndInv', RepetitionInv, NEW c \in Consumers, NEW p \in Partitions,
         NEW tookEffect \in BOOLEAN,
         \/ IndexLogRejected(c, p)
         \/ IndexLogFails(c, p, tookEffect) \/ CommitOffsetFails(c, p, tookEffect)
  PROVE  RepetitionInv'
<1>1. /\ Working(c, p) /\ SetTask(c, p, Retry(task[c][p]))
      /\ held' = held /\ members' = members /\ UNCHANGED <<broadcasts, deadLetters>>
      /\ \/ faults' = faults /\ task[c][p].pc # "commit"
         \/ faults' = faults + 1
  BY DEF IndexLogRejected, IndexLogFails, CommitOffsetFails, Fault, group, outcomes, InFlight,
         Working
<1>2. Turns(c, p, Retry(task[c][p]))
  BY <1>1, RetryTurns
<1> QED  BY <1>1, <1>2, RetryQuiet

\* A committed record is behind the handler.
LEMMA CommitOffsetRepeats ==
  ASSUME IndInv, IndInv', RepetitionInv, NEW c \in Consumers, NEW p \in Partitions,
         CommitOffset(c, p)
  PROVE  RepetitionInv'
<1>1. PICK t : t = Advance(task[c][p])
  OBVIOUS
<1>2. /\ TypeOK /\ task[c][p] \in Tasks /\ PositionFits(c, p) /\ task[c][p].pc = "commit"
      /\ task[c][p].pos \in Nat
      /\ UNCHANGED <<broadcasts, deadLetters, faults, held, members>>
  BY DEF IndInv, CommitOffset, outcomes, RepetitionInv, TypeOK, Tasks
<1>3. /\ task[c][p].fresh => t = Ready(task[c][p].pos + 1)
      /\ ~task[c][p].fresh => t = Idle
  BY <1>1 DEF Advance
<1>4. /\ task[c][p].fresh => /\ t.pc = "ready" /\ t.fresh /\ t.pos = task[c][p].pos + 1
                             /\ p \in held[c]
      /\ ~task[c][p].fresh => t.pc = "idle"
  BY <1>2, <1>3 DEF Ready, Idle, PositionFits
<1>5. t \in Tasks
  <2>1. task[c][p].pos + 1 \in Nat /\ task[c][p].fresh \in BOOLEAN
    BY <1>2 DEF Tasks
  <2>2. Ready(task[c][p].pos + 1) \in Tasks /\ Idle \in Tasks
    BY <2>1 DEF Ready, Idle, Tasks, Stages
  <2> QED  BY <1>3, <2>1, <2>2
<1>6. Turns(c, p, t)
  BY <1>1, <1>2, <1>5 DEF CommitOffset, Turns
<1>7. ASSUME NEW o \in Offsets PROVE Exchanges(p, o)
  <2>1. /\ <<c, "sending">> \notin Pending(p, o)'
        /\ <<c, "coming">> \in Pending(p, o)' =>
             p \in held[c] /\ (t.pc = "ready" => t.pos <= o)
    BY <1>2, <1>4, <1>6, TurnPends DEF InFlight
  <2>2. <<c, "coming">> \in Pending(p, o)' => <<c, "coming">> \in Pending(p, o)
    <3>1. ASSUME <<c, "coming">> \in Pending(p, o)' PROVE Coming(c, p, o)
      <4>1. task[c][p].fresh => task[c][p].pos < o
        BY <1>2, <1>4, <2>1, <3>1 DEF Offsets
      <4> QED  BY <1>2, <2>1, <3>1, <4>1 DEF Coming, InFlight
    <3> QED  BY <3>1, PendingPairs
  <2>3. Pending(p, o)' \subseteq Pending(p, o) \cup {<<c, "sending">>, <<c, "coming">>}
    BY <1>2, <1>6, OthersPend
  <2> QED  BY <2>1, <2>2, <2>3 DEF Exchanges
<1>8. \A d \in Consumers, q \in Partitions : PositionFits(d, q)'
  BY <1>2, <1>3, <1>4, <1>6, TurnFits
<1> QED  BY <1>2, <1>6, <1>7, <1>8, TurnQuiet

\* Nothing is sent, and the rebalance that may be owed is paid for by a failure.
LEMMA GroupQuiet ==
  ASSUME IndInv, IndInv', RepetitionInv, UNCHANGED <<broadcasts, deadLetters>>,
         \A c \in Consumers, p \in Partitions : PositionFits(c, p)',
         \A p \in Partitions, o \in Offsets : Pending(p, o)' \subseteq Pending(p, o),
         \/ faults' = faults /\ Owed' = Owed
         \/ faults' = faults + 1
  PROVE  RepetitionInv'
<1>1. TypeOK /\ TypeOK'
  BY DEF IndInv
<1>2. PICK w : w = Owed'
  OBVIOUS
<1>3. PICK f : f = faults'
  OBVIOUS
<1>4. w \in {0, 1} /\ Owed \in {0, 1} /\ faults \in Nat
  BY <1>1, <1>2, ConstantsAssumption DEF Owed, TypeOK
<1>5. (f = faults /\ w = Owed) \/ f = faults + 1
  BY <1>2, <1>3
<1>6. w + faults <= Owed + f
  BY <1>4, <1>5
<1>7. ASSUME NEW p \in Partitions, NEW o \in Offsets PROVE Pays(p, o)
  BY <1>1, <1>2, <1>3, <1>6, QuietPays
<1> QED  BY <1>1, <1>7, PaysInd

\* A crash takes a replica out of everything, and is a failure.
LEMMA CrashRepeats ==
  ASSUME IndInv, IndInv', RepetitionInv, NEW c \in Consumers, Crash(c)
  PROVE  RepetitionInv'
<1>1. /\ TypeOK /\ faults' = faults + 1 /\ UNCHANGED <<broadcasts, deadLetters>>
      /\ held' = [held EXCEPT ![c] = {}]
      /\ task' = [task EXCEPT ![c] = [p \in Partitions |-> Idle]]
  BY DEF IndInv, Crash, Fault, outcomes
<1>2. /\ held'[c] = {} /\ \A p \in Partitions : task'[c][p] = Idle
      /\ \A d \in Consumers : d # c => held'[d] = held[d] /\ task'[d] = task[d]
  BY <1>1 DEF TypeOK
<1>3. ASSUME NEW d \in Consumers, NEW p \in Partitions
      PROVE  /\ PositionFits(d, p)'
             /\ \A o : /\ Sending(d, p, o)' => Sending(d, p, o)
                       /\ Coming(d, p, o)' => Coming(d, p, o)
  <2>1. CASE d = c
    BY <1>2, <2>1 DEF PositionFits, Sending, Coming, Idle
  <2>2. CASE d # c
    BY <1>2, <2>2 DEF RepetitionInv, PositionFits, Sending, Coming
  <2> QED  BY <2>1, <2>2
<1>4. \A p \in Partitions, o \in Offsets : Pending(p, o)' \subseteq Pending(p, o)
  BY <1>3, PendingShrinks
<1> QED  BY <1>1, <1>3, <1>4, GroupQuiet

\* What a revoked handler was doing, it goes on doing, and no more.
LEMMA RevokedTask ==
  ASSUME NEW t \in Tasks
  PROVE  \/ /\ t.pc \in InFlight /\ Revoked(t).pc = t.pc
            /\ Revoked(t).pos = t.pos /\ ~Revoked(t).fresh
         \/ Revoked(t) = Idle /\ Revoked(t).pc = "idle"
BY DEF Revoked, Tasks, Idle

\* A replica that is refused held partitions that others hold now, and drops them.
LEMMA CommitOffsetRefusedRepeats ==
  ASSUME IndInv, IndInv', RepetitionInv, NEW c \in Consumers, NEW p \in Partitions,
         CommitOffsetRefused(c, p)
  PROVE  RepetitionInv'
<1>1. /\ TypeOK /\ UNCHANGED <<broadcasts, deadLetters, faults, members>> /\ c \notin members
      /\ held' = [held EXCEPT ![c] = {}]
      /\ task' = [task EXCEPT ![c] = [q \in Partitions |->
                    IF q = p THEN Idle ELSE Revoked(task[c][q])]]
  BY DEF IndInv, CommitOffsetRefused, outcomes
<1>2. /\ held'[c] = {}
      /\ \A q \in Partitions : task'[c][q] = IF q = p THEN Idle ELSE Revoked(task[c][q])
      /\ \A d \in Consumers : d # c => held'[d] = held[d] /\ task'[d] = task[d]
  BY <1>1 DEF TypeOK
<1>3. ASSUME NEW d \in Consumers, NEW q \in Partitions
      PROVE  /\ PositionFits(d, q)'
             /\ \A o : /\ Sending(d, q, o)' => Sending(d, q, o)
                       /\ Coming(d, q, o)' => Coming(d, q, o)
  <2>1. CASE d = c /\ q = p
    BY <1>2, <2>1 DEF PositionFits, Sending, Coming, Idle
  <2>2. CASE d = c /\ q # p
    <3>1. task[c][q] \in Tasks /\ task'[c][q] = Revoked(task[c][q])
      BY <1>1, <1>2, <2>2 DEF TypeOK
    <3>2. CASE /\ task[c][q].pc \in InFlight /\ task'[c][q].pc = task[c][q].pc
               /\ task'[c][q].pos = task[c][q].pos /\ ~task'[c][q].fresh
      BY <1>2, <2>2, <3>2 DEF PositionFits, Sending, Coming, InFlight
    <3>3. CASE task'[c][q] = Idle /\ task'[c][q].pc = "idle"
      BY <1>2, <2>2, <3>3 DEF PositionFits, Sending, Coming
    <3> QED  BY <3>1, <3>2, <3>3, RevokedTask
  <2>3. CASE d # c
    BY <1>2, <2>3 DEF RepetitionInv, PositionFits, Sending, Coming
  <2> QED  BY <2>1, <2>2, <2>3
<1>4. \A q \in Partitions, o \in Offsets : Pending(q, o)' \subseteq Pending(q, o)
  BY <1>3, PendingShrinks
<1>5. Owed' = Owed
  BY <1>1, <1>2 DEF Owed, Orphaned, IndInv, TypeOK
<1> QED  BY <1>1, <1>3, <1>4, <1>5, GroupQuiet

\* The group settles on M.  A member's handlers run on, and of the partitions it is
\* given it comes to all records: at most one replica does, for which the rebalance
\* was owed or a failure pays.
LEMMA RebalanceRepeats ==
  ASSUME IndInv, IndInv', RepetitionInv, NEW M \in SUBSET Consumers, RebalanceTo(M),
         \/ faults' = faults /\ Owed = 1
         \/ faults' = faults + 1
  PROVE  RepetitionInv'
<1>1. PICK assignment \in [Partitions -> M] : Rebalance(M, assignment)
  BY DEF RebalanceTo
<1>2. /\ TypeOK /\ TypeOK' /\ members' = M /\ UNCHANGED <<broadcasts, deadLetters>>
      /\ \A c \in Consumers : held'[c] = IF c \in M THEN {p \in Partitions : assignment[p] = c}
                                                  ELSE held[c]
      /\ \A c \in Consumers, p \in Partitions :
           task'[c][p] = IF c \in M THEN Revoked(task[c][p]) ELSE task[c][p]
  BY <1>1 DEF IndInv, Rebalance, outcomes
<1>3. ASSUME NEW c \in Consumers, NEW p \in Partitions
      PROVE  /\ PositionFits(c, p)'
             /\ \A o : /\ Sending(c, p, o)' => Sending(c, p, o)
                       /\ Coming(c, p, o)' => Coming(c, p, o) \/ c = assignment[p]
  <2>1. CASE c \in M
    <3>1. /\ task[c][p] \in Tasks /\ task'[c][p] = Revoked(task[c][p])
          /\ p \in held'[c] => c = assignment[p]
      BY <1>2, <2>1 DEF TypeOK
    <3>2. CASE /\ task[c][p].pc \in InFlight /\ task'[c][p].pc = task[c][p].pc
               /\ task'[c][p].pos = task[c][p].pos /\ ~task'[c][p].fresh
      BY <3>1, <3>2 DEF PositionFits, Sending, Coming, InFlight
    <3>3. CASE task'[c][p] = Idle /\ task'[c][p].pc = "idle"
      BY <3>1, <3>3 DEF PositionFits, Sending, Coming
    <3> QED  BY <3>1, <3>2, <3>3, RevokedTask
  <2>2. CASE c \notin M
    <3>1. task'[c][p] = task[c][p] /\ held'[c] = held[c]
      BY <1>2, <2>2
    <3> QED  BY <3>1 DEF RepetitionInv, PositionFits, Sending, Coming
  <2> QED  BY <2>1, <2>2
<1>4. \A p \in Partitions : \A o :
        Pending(p, o)' \subseteq Pending(p, o) \cup {<<assignment[p], "coming">>}
  <2>1. ASSUME NEW p \in Partitions, NEW o, NEW a \in Pending(p, o)',
               a # <<assignment[p], "coming">>
        PROVE  a \in Pending(p, o)
    <3>1. PICK c \in Consumers, s \in {"sending", "coming"} : a = <<c, s>>
      BY <2>1 DEF Pending
    <3>2. IF s = "sending" THEN Sending(c, p, o)' ELSE Coming(c, p, o)'
      BY <2>1, <3>1 DEF Pending
    <3>3. IF s = "sending" THEN Sending(c, p, o) ELSE Coming(c, p, o)
      BY <1>3, <2>1, <3>1, <3>2
    <3> QED  BY <3>1, <3>3 DEF Pending
  <2> QED  BY <2>1
<1>5. Owed' = 0
  <2>1. ASSUME NEW p \in Partitions PROVE ~ Orphaned(p)'
    <3>1. PICK c \in M : c = assignment[p]
      OBVIOUS
    <3>2. held'[c] = {q \in Partitions : assignment[q] = c}
      BY <1>2, <3>1
    <3>3. c \in members' /\ p \in held'[c]
      BY <1>2, <3>1, <3>2
    <3> QED  BY <3>3 DEF Orphaned
  <2> QED  BY <2>1 DEF Owed
<1>6. PICK w : w = Owed'
  OBVIOUS
<1>7. PICK f : f = faults'
  OBVIOUS
<1>8. /\ w = 0 /\ Owed \in {0, 1} /\ faults \in Nat /\ f \in Nat
      /\ (f = faults /\ Owed = 1) \/ f = faults + 1
  BY <1>2, <1>5, <1>6, <1>7, ConstantsAssumption DEF Owed, TypeOK
<1>9. ASSUME NEW p \in Partitions, NEW o \in Offsets PROVE Pays(p, o)
  <2>1. PICK P : P = Pending(p, o)'
    OBVIOUS
  <2>2. /\ IsFiniteSet(Pending(p, o)) /\ Cardinality(Pending(p, o)) \in Nat
        /\ Sent(p, o) \in Nat /\ Sent(p, o)' = Sent(p, o)
    BY <1>2, BudgetNumbers DEF Sent
  <2>3. /\ IsFiniteSet(P) /\ Cardinality(P) \in Nat
        /\ Cardinality(P) <= Cardinality(Pending(p, o)) + 1
    <3>1. P \subseteq Pending(p, o) \cup {<<assignment[p], "coming">>}
      BY <1>4, <2>1
    <3> QED  BY <2>2, <3>1, OneMore
  <2>4. Cardinality(P) + w + Sent(p, o) + faults
          <= Cardinality(Pending(p, o)) + Owed + Sent(p, o) + f
    BY <1>8, <2>2, <2>3
  <2> QED  BY <1>6, <1>7, <2>1, <2>2, <2>3, <2>4 DEF Pays
<1> QED  BY <1>2, <1>3, <1>9, PaysInd

\* Producing, and standing still, send nothing and leave who is pending.
LEMMA StillRepeats ==
  ASSUME IndInv, IndInv', RepetitionInv,
         UNCHANGED <<members, held, task, broadcasts, deadLetters, faults>>
  PROVE  RepetitionInv'
<1>1. Owed' = Owed /\ faults' = faults
  BY DEF Owed, Orphaned
<1>2. \A c \in Consumers, p \in Partitions : PositionFits(c, p)'
  BY DEF RepetitionInv, PositionFits
<1>3. \A p \in Partitions, o \in Offsets : Pending(p, o)' \subseteq Pending(p, o)
  BY DEF Pending, Sending, Coming
<1> QED  BY <1>1, <1>2, <1>3, GroupQuiet

\* Every step stays within the budget.
LEMMA NextRepeats == IndInv /\ IndInv' /\ RepetitionInv /\ [Next]_vars => RepetitionInv'
<1> SUFFICES ASSUME IndInv, IndInv', RepetitionInv, [Next]_vars PROVE RepetitionInv'
  OBVIOUS
<1>1. ASSUME NEW e \in Events, Produce(e) PROVE RepetitionInv'
  BY <1>1, StillRepeats DEF Produce, group, outcomes
<1>2. CASE NeededRebalance
  <2>1. Owed = 1 /\ faults' = faults
    BY <1>2 DEF NeededRebalance, Owed
  <2> QED  BY <1>2, <2>1, RebalanceRepeats DEF NeededRebalance
<1>3. CASE UnprovokedRebalance
  BY <1>3, RebalanceRepeats DEF UnprovokedRebalance, Fault
<1>4. ASSUME NEW c \in Consumers, Crash(c) PROVE RepetitionInv'
  BY <1>4, CrashRepeats
<1>5. ASSUME NEW c \in Consumers, NEW p \in Partitions, Step(c, p) PROVE RepetitionInv'
  <2>1. CASE IndexLogRejected(c, p)
    BY <2>1, OtherFailsRepeats
  <2> QED  BY <1>5, <2>1, StartPartitionRepeats, HandleMessageRepeats, IndexLogRepeats,
              SendRepeats, CommitOffsetRepeats, CommitOffsetRefusedRepeats
              DEF Step
<1>6. ASSUME NEW c \in Consumers, NEW p \in Partitions, Failure(c, p) PROVE RepetitionInv'
  BY <1>6, SendFailsRepeats, OtherFailsRepeats DEF Failure
<1>7. CASE UNCHANGED vars
  BY <1>7, StillRepeats DEF vars
<1> QED  BY <1>1, <1>2, <1>3, <1>4, <1>5, <1>6, <1>7 DEF Next

\* What may still be sent of a record and what was sent stay within one more than the
\* failures.
THEOREM RepetitionIsBudgeted == Spec => []RepetitionInv
<1>1. Init => IndInv /\ RepetitionInv
  BY InitInd, RepetitionInit
<1>2. (IndInv /\ RepetitionInv) /\ [Next]_vars => (IndInv /\ RepetitionInv)'
  BY NextInd, NextRepeats
<1> QED  BY <1>1, <1>2, PTL DEF Spec

\* A record is broadcast or dead-lettered once, and again only for a failure, a crash
\* or an unprovoked rebalance each.
THEOREM RepetitionIsPaidFor == Spec => []DuplicatesNeedFaults
<1>1. TypeOK /\ RepetitionInv => DuplicatesNeedFaults
  <2> SUFFICES ASSUME TypeOK, RepetitionInv, NEW p \in Partitions, NEW o \in Offsets
               PROVE  broadcasts[p][o] + deadLetters[p][o] <= 1 + faults
    BY DEF DuplicatesNeedFaults
  <2>1. /\ Cardinality(Pending(p, o)) \in Nat /\ Owed \in {0, 1} /\ faults \in Nat
        /\ Sent(p, o) \in Nat
        /\ Cardinality(Pending(p, o)) + Owed + Sent(p, o) <= 1 + faults
    BY BudgetNumbers
  <2>2. Sent(p, o) <= 1 + faults
    BY <2>1
  <2> QED  BY <2>2 DEF Sent
<1> QED  BY <1>1, TypeCorrect, RepetitionIsBudgeted, PTL
=============================================================================
