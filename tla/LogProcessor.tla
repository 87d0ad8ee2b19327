---------------------------- MODULE LogProcessor ----------------------------
(***************************************************************************)
(* The log processor: replicas of apps/log-processor consume the topic      *)
(* logs.raw.v1 in one Kafka consumer group with autoCommit off.  For each   *)
(* record a replica indexes the event in Elasticsearch (document id =       *)
(* eventId), publishes it on Redis and commits offset + 1, or sends an      *)
(* unusable payload to the dead letter topic and commits offset + 1.  Each  *)
(* await is a step of its own, so replicas, partitions, rebalances and      *)
(* crashes interleave between any two of them; each call may fail, with or  *)
(* without having taken effect at the other end.                            *)
(*                                                                          *)
(* Offsets are numbered from 1; NoOffset is a partition the group has never *)
(* committed.  The operators named Bad... are the mistakes the properties   *)
(* are measured against; no specification uses them.                        *)
(***************************************************************************)
EXTENDS Naturals, Sequences, FiniteSets

CONSTANTS
  Consumers,    \* the replicas
  Partitions,   \* the partitions of logs.raw.v1
  Events,       \* event ids the ingestion service produced
  Malformed,    \* payloads that are not JSON
  Invalid,      \* JSON payloads rawLogEventSchema refuses
  Rejected,     \* valid events Elasticsearch refuses every time (an attribute
                \* or trace id longer than a keyword term may be)
  PartitionOf,  \* the partition of an event: records are keyed by projectId
  TopicBound,   \* bound: records per partition
  FaultBound    \* bound: failures, crashes and unprovoked rebalances

Dead == Malformed \cup Invalid

ASSUME ConstantsAssumption ==
  /\ Dead \subseteq Events
  /\ Rejected \subseteq Events \ Dead
  /\ PartitionOf \in [Events -> Partitions]
  /\ TopicBound \in Nat
  /\ FaultBound \in Nat

VARIABLES
  topic,        \* topic[p]: the records of partition p, oldest first
  committed,    \* committed[p]: the group's committed offset, or NoOffset
  members,      \* consumers of the group's current generation
  held,         \* held[c]: partitions c believes are assigned to it
  task,         \* task[c][p]: what c is doing in partition p
  documents,    \* event ids present in the Elasticsearch index
  broadcasts,   \* broadcasts[p][o]: times record o was published on Redis
  deadLetters,  \* deadLetters[p][o]: times record o was sent to logs.dlq.v1
  skipped,      \* history: offsets passed over by a start at the log's end
  faults        \* failures so far, at most FaultBound

vars == <<topic, committed, members, held, task, documents, broadcasts,
          deadLetters, skipped, faults>>
outcomes == <<documents, broadcasts, deadLetters>>
group    == <<committed, members, held>>

NoOffset == 0
Offsets  == 1 .. TopicBound

\* A handler is idle (no fetch position), ready for the record at pos, or
\* awaiting one call of handleMessage for it.
InFlight == {"index", "publish", "dlq", "commit"}
Stages   == InFlight \cup {"idle", "ready"}
\* fresh is FALSE once the partition was reassigned while the handler ran.
Tasks    == [pc : Stages, pos : Nat, fresh : BOOLEAN]
Idle     == [pc |-> "idle", pos |-> 0, fresh |-> TRUE]
Ready(o) == [pc |-> "ready", pos |-> o, fresh |-> TRUE]

Working(c, p) == task[c][p].pc \in InFlight
Record(c, p)  == topic[p][task[c][p].pos]

\* Where the record at offset o of p had to end up, and whether it has.
Settled(p, o) ==
  IF topic[p][o] \in Dead
    THEN deadLetters[p][o] > 0
    ELSE topic[p][o] \in documents /\ broadcasts[p][o] > 0
Covered(p, o) == o \in skipped[p] \/ Settled(p, o)

Init ==
  /\ topic = [p \in Partitions |-> <<>>]
  /\ committed \in [Partitions -> {NoOffset, 1}]
  /\ members = {}
  /\ held = [c \in Consumers |-> {}]
  /\ task = [c \in Consumers |-> [p \in Partitions |-> Idle]]
  /\ documents = {}
  /\ broadcasts = [p \in Partitions |-> [o \in Offsets |-> 0]]
  /\ deadLetters = [p \in Partitions |-> [o \in Offsets |-> 0]]
  /\ skipped = [p \in Partitions |-> {}]
  /\ faults = 0

-----------------------------------------------------------------------------
(* Helpers of the actions. *)

Fault == faults < FaultBound /\ faults' = faults + 1

SetTask(c, p, t) == task' = [task EXCEPT ![c][p] = t]

\* handleMessage throws: kafkajs offers the same record again, unless the
\* partition was taken away meanwhile.
BadRetry(t) == IF t.fresh THEN Ready(t.pos + 1) ELSE Idle
Retry(t)    == IF t.fresh THEN Ready(t.pos) ELSE Idle

\* handleMessage returns: kafkajs resolves the record and moves on.
BadAdvance(t) == IF t.fresh THEN Ready(t.pos) ELSE Idle
Advance(t)    == IF t.fresh THEN Ready(t.pos + 1) ELSE Idle

\* The first call handleMessage makes for an event.
BadFirstStage(e) == IF e \in Dead THEN "dlq" ELSE "publish"
FirstStage(e)    == IF e \in Dead THEN "dlq" ELSE "index"

\* The call that follows once one succeeded.
BadNextStage(pc) == "commit"
NextStage(pc)    == IF pc = "index" THEN "publish" ELSE "commit"
Proceed(c, p) == SetTask(c, p, [task[c][p] EXCEPT !.pc = NextStage(@)])

\* The offset commitOffset sends for a record.  Kafka's offsets are decimal
\* strings: without BigInt, + 1 would append a digit.
BadCommittedOffset(o)  == o
BadCommittedDecimal(o) == 10 * o + 1
CommittedOffset(o)     == o + 1

\* Where a newly assigned partition is read from: the committed offset, or the
\* end of the log when there is none, since fromBeginning is false.
BadStartOffset(p) == Len(topic[p]) + 1
StartOffset(p) ==
  IF committed[p] = NoOffset THEN Len(topic[p]) + 1 ELSE committed[p]

CountUp(counts, p, o) == [counts EXCEPT ![p][o] = @ + 1]

-----------------------------------------------------------------------------
(* The ingestion service and the group coordinator. *)

Produce(e) ==
  LET p == PartitionOf[e] IN
  /\ Len(topic[p]) < TopicBound
  /\ topic' = [topic EXCEPT ![p] = Append(@, e)]
  /\ UNCHANGED <<group, task, outcomes, skipped, faults>>

\* A partition nobody in the current generation reads.
Orphaned(p) == \A c \in members : p \notin held[c]

\* A rejoining member drops its fetch positions; a handler that is awaiting a
\* call cannot be stopped and runs on.
Revoked(t) == IF t.pc \in InFlight THEN [t EXCEPT !.fresh = FALSE] ELSE Idle

\* The group settles on the members M.  A consumer left out (its session timed
\* out) is not told and keeps what it holds.
Rebalance(M, assignment) ==
  /\ M # {}
  /\ members' = M
  /\ held' = [c \in Consumers |->
                IF c \in M THEN {p \in Partitions : assignment[p] = c}
                           ELSE held[c]]
  /\ task' = [c \in Consumers |-> [p \in Partitions |->
                IF c \in M THEN Revoked(task[c][p]) ELSE task[c][p]]]
  /\ UNCHANGED <<topic, committed, outcomes, skipped>>

RebalanceTo(M) == \E assignment \in [Partitions -> M] : Rebalance(M, assignment)

NeededRebalance ==
  /\ \E p \in Partitions : Orphaned(p)
  /\ \E M \in SUBSET Consumers : RebalanceTo(M)
  /\ UNCHANGED faults

UnprovokedRebalance ==
  /\ \A p \in Partitions : ~Orphaned(p)
  /\ \E M \in SUBSET Consumers : RebalanceTo(M)
  /\ Fault

\* The process dies, and restarts without memory.
Crash(c) ==
  /\ Fault
  /\ c \in members \/ held[c] # {}
  /\ members' = members \ {c}
  /\ held' = [held EXCEPT ![c] = {}]
  /\ task' = [task EXCEPT ![c] = [p \in Partitions |-> Idle]]
  /\ UNCHANGED <<topic, committed, outcomes, skipped>>

-----------------------------------------------------------------------------
(* One consumer in one partition. *)

StartPartition(c, p) ==
  /\ p \in held[c]
  /\ task[c][p] = Idle
  /\ SetTask(c, p, Ready(StartOffset(p)))
  /\ skipped' = [skipped EXCEPT ![p] =
                   IF committed[p] = NoOffset THEN @ \cup 1 .. Len(topic[p]) ELSE @]
  /\ UNCHANGED <<topic, group, outcomes, faults>>

HandleMessage(c, p) ==
  /\ task[c][p].pc = "ready"
  /\ task[c][p].pos <= Len(topic[p])
  /\ SetTask(c, p, [task[c][p] EXCEPT !.pc = FirstStage(Record(c, p))])
  /\ UNCHANGED <<topic, group, outcomes, skipped, faults>>

\* Elasticsearch stores the document, whatever the client hears of it.
Index(c, p) == documents' = documents \cup {Record(c, p)}

IndexLog(c, p) ==
  /\ task[c][p].pc = "index"
  /\ Record(c, p) \notin Rejected
  /\ Index(c, p)
  /\ Proceed(c, p)
  /\ UNCHANGED <<topic, group, broadcasts, deadLetters, skipped, faults>>

\* A refusal is not an InvalidLogEventError: handleMessage rethrows it and the
\* record is offered again, as after an outage.
IndexLogRejected(c, p) ==
  /\ task[c][p].pc = "index"
  /\ Record(c, p) \in Rejected
  /\ SetTask(c, p, Retry(task[c][p]))
  /\ UNCHANGED <<topic, group, outcomes, skipped, faults>>

IndexLogFails(c, p, tookEffect) ==
  /\ Fault
  /\ task[c][p].pc = "index"
  /\ Record(c, p) \notin Rejected
  /\ IF tookEffect THEN Index(c, p) ELSE UNCHANGED documents
  /\ SetTask(c, p, Retry(task[c][p]))
  /\ UNCHANGED <<topic, group, broadcasts, deadLetters, skipped>>

Publish(c, p) == broadcasts' = CountUp(broadcasts, p, task[c][p].pos)

PublishRealtime(c, p) ==
  /\ task[c][p].pc = "publish"
  /\ Publish(c, p)
  /\ Proceed(c, p)
  /\ UNCHANGED <<topic, group, documents, deadLetters, skipped, faults>>

PublishRealtimeFails(c, p, tookEffect) ==
  /\ Fault
  /\ task[c][p].pc = "publish"
  /\ IF tookEffect THEN Publish(c, p) ELSE UNCHANGED broadcasts
  /\ SetTask(c, p, Retry(task[c][p]))
  /\ UNCHANGED <<topic, group, documents, deadLetters, skipped>>

DeadLetter(c, p) == deadLetters' = CountUp(deadLetters, p, task[c][p].pos)

SendToDeadLetterQueue(c, p) ==
  /\ task[c][p].pc = "dlq"
  /\ DeadLetter(c, p)
  /\ Proceed(c, p)
  /\ UNCHANGED <<topic, group, documents, broadcasts, skipped, faults>>

SendToDeadLetterQueueFails(c, p, tookEffect) ==
  /\ Fault
  /\ task[c][p].pc = "dlq"
  /\ IF tookEffect THEN DeadLetter(c, p) ELSE UNCHANGED deadLetters
  /\ SetTask(c, p, Retry(task[c][p]))
  /\ UNCHANGED <<topic, group, documents, broadcasts, skipped>>

\* The coordinator takes any offset from a member of the current generation,
\* for a partition it no longer holds too, so the offset may move back.
Commit(c, p) ==
  committed' = [committed EXCEPT ![p] = CommittedOffset(task[c][p].pos)]

CommitOffset(c, p) ==
  /\ task[c][p].pc = "commit"
  /\ c \in members
  /\ Commit(c, p)
  /\ SetTask(c, p, Advance(task[c][p]))
  /\ UNCHANGED <<topic, members, held, outcomes, skipped, faults>>

CommitOffsetFails(c, p, tookEffect) ==
  /\ Fault
  /\ task[c][p].pc = "commit"
  /\ c \in members
  /\ IF tookEffect THEN Commit(c, p) ELSE UNCHANGED committed
  /\ SetTask(c, p, Retry(task[c][p]))
  /\ UNCHANGED <<topic, members, held, outcomes, skipped>>

\* A consumer left out of the generation learns it here: it drops everything
\* and asks to join again.
CommitOffsetRefused(c, p) ==
  /\ task[c][p].pc = "commit"
  /\ c \notin members
  /\ held' = [held EXCEPT ![c] = {}]
  /\ task' = [task EXCEPT ![c] = [q \in Partitions |->
                IF q = p THEN Idle ELSE Revoked(task[c][q])]]
  /\ UNCHANGED <<topic, committed, members, outcomes, skipped, faults>>

-----------------------------------------------------------------------------
Step(c, p) ==
  \/ StartPartition(c, p)
  \/ HandleMessage(c, p)
  \/ IndexLog(c, p)
  \/ IndexLogRejected(c, p)
  \/ PublishRealtime(c, p)
  \/ SendToDeadLetterQueue(c, p)
  \/ CommitOffset(c, p)
  \/ CommitOffsetRefused(c, p)

Failure(c, p) ==
  \E tookEffect \in BOOLEAN :
    \/ IndexLogFails(c, p, tookEffect)
    \/ PublishRealtimeFails(c, p, tookEffect)
    \/ SendToDeadLetterQueueFails(c, p, tookEffect)
    \/ CommitOffsetFails(c, p, tookEffect)

Next ==
  \/ \E e \in Events : Produce(e)
  \/ NeededRebalance
  \/ UnprovokedRebalance
  \/ \E c \in Consumers : Crash(c)
  \/ \E c \in Consumers, p \in Partitions : Step(c, p) \/ Failure(c, p)

Spec == Init /\ [][Next]_vars

\* Handlers run on and the coordinator reassigns abandoned partitions; nothing
\* is assumed of producers, failures, crashes and unprovoked rebalances.
Fairness ==
  /\ WF_vars(NeededRebalance)
  /\ \A c \in Consumers, p \in Partitions : WF_vars(Step(c, p))

FairSpec == Spec /\ Fairness

-----------------------------------------------------------------------------
(* Properties. *)

\* Every variable keeps its shape, and the committed offset stays next to the
\* log.
TypeOK ==
  /\ topic \in [Partitions -> Seq(Events)]
  /\ \A p \in Partitions : Len(topic[p]) <= TopicBound
  /\ committed \in [Partitions -> 0 .. (TopicBound + 1)]
  /\ members \subseteq Consumers
  /\ held \in [Consumers -> SUBSET Partitions]
  /\ task \in [Consumers -> [Partitions -> Tasks]]
  /\ documents \subseteq Events
  /\ broadcasts \in [Partitions -> [Offsets -> Nat]]
  /\ deadLetters \in [Partitions -> [Offsets -> Nat]]
  /\ skipped \in [Partitions -> SUBSET Offsets]
  /\ faults \in 0 .. FaultBound

\* What each handler may rely on at each of its awaits, however long ago it
\* started and whoever holds the partition now: everything below its position
\* is accounted for, it never sits beyond the log, and when it is about to
\* commit, its own record has reached its destination.
HandlerInStep(c, p) ==
  LET t == task[c][p] IN
  /\ t.pc # "idle" =>
       /\ t.pos \in 1 .. (Len(topic[p]) + 1)
       /\ \A o \in 1 .. (t.pos - 1) : Covered(p, o)
  /\ t.pc \in InFlight => t.pos <= Len(topic[p])
  /\ t.pc \in {"index", "publish"} => topic[p][t.pos] \notin Dead
  /\ t.pc = "publish" => topic[p][t.pos] \in documents
  /\ t.pc = "dlq" => topic[p][t.pos] \in Dead
  /\ t.pc = "commit" => Settled(p, t.pos)

HandlersInStep == \A c \in Consumers, p \in Partitions : HandlerInStep(c, p)

\* What the group's committed offset has passed is in its final destination:
\* no rebalance, crash, failed call or late commit of a replica that lost the
\* partition makes kafka forget an event that was not yet indexed and
\* broadcast, or dead-lettered (commitOffset after process in handleMessage).
CommitCovered(p) ==
  /\ committed[p] <= Len(topic[p]) + 1
  /\ \A o \in 1 .. Len(topic[p]) : o < committed[p] => Covered(p, o)

NoSilentLoss == \A p \in Partitions : CommitCovered(p)

\* Of two records of a partition (the events of one project), the later one is
\* never broadcast or dead-lettered before the earlier one was, although
\* replicas overlap in the partition and restart in the middle of it.
InOrderAt(p, o) ==
  broadcasts[p][o] + deadLetters[p][o] > 0 =>
    /\ o <= Len(topic[p])
    /\ \A l \in 1 .. (o - 1) : Covered(p, l)

InOrder == \A p \in Partitions, o \in Offsets : InOrderAt(p, o)

\* A dashboard never shows an event that historical search cannot find: each
\* broadcast record is in the index (process awaits indexLog before publish).
SearchableAt(p, o) ==
  broadcasts[p][o] > 0 => o <= Len(topic[p]) /\ topic[p][o] \in documents

BroadcastIsSearchable == \A p \in Partitions, o \in Offsets : SearchableAt(p, o)

\* Repetition is only ever the price of a failure: a record is broadcast or
\* dead-lettered at most once more than there were failures, crashes and
\* unprovoked rebalances; with none, exactly once.
DuplicatesNeedFaults ==
  \A p \in Partitions : \A o \in Offsets :
    broadcasts[p][o] + deadLetters[p][o] <= 1 + faults

\* The replicas together implement the abstract promise.
settledBar == [p \in Partitions |-> {o \in 1 .. Len(topic[p]) : Settled(p, o)}]
Delivery == INSTANCE LogDelivery WITH
  log <- topic, settled <- settledBar, acked <- committed

ImplementsDelivery == Delivery!Spec

\* Every record reaches its final destination, unless the group's first start
\* jumped over it: once the failures stop, no rebalance, refused commit or
\* overlapping replica keeps the others from making progress.  Only a record that
\* Elasticsearch refuses for good, which handleMessage rethrows and is offered for
\* ever, holds up those behind it in its partition.  (The committed offset itself
\* may end behind: a late commit moves it back for good.)
HandledUnlessBlocked ==
  \A p \in Partitions : \A o \in Offsets :
    o <= Len(topic[p]) ~>
      \/ o <= Len(topic[p]) /\ Covered(p, o)
      \/ \E l \in 1 .. o : l <= Len(topic[p]) /\ topic[p][l] \in Rejected

\* A record whose handling was begun is redelivered until it is settled, as
\* the message "Kafka offset was not committed" of handleMessage has it.
BegunIsSettled ==
  \A p \in Partitions : \A o \in Offsets :
    (\E c \in Consumers : Working(c, p) /\ task[c][p].pos = o)
      ~> o <= Len(topic[p]) /\ Settled(p, o)
=============================================================================
