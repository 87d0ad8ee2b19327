---------------------------- MODULE LogDelivery ----------------------------
(***************************************************************************)
(* What the pipeline behind POST /logs promises for the events it has       *)
(* accepted, without consumers, handlers or failures.  Every partition is   *)
(* a log; its events are settled (made searchable and broadcast, or         *)
(* dead-lettered) strictly in order, the group acknowledges an event only   *)
(* when it and everything below it is accounted for, and the only events    *)
(* never settled are those a group without a committed offset started past. *)
(* LogProcessor.tla is shown to implement this specification.               *)
(***************************************************************************)
EXTENDS Naturals, Sequences

CONSTANTS Partitions, Events

VARIABLES
  log,      \* log[p]: the events accepted into partition p, oldest first
  settled,  \* settled[p]: offsets whose event reached its final destination
  skipped,  \* skipped[p]: offsets a starting group jumped over
  acked     \* acked[p]: next offset the group will resume from, 0 for none

vars == <<log, settled, skipped, acked>>

Accounted(p, o) == o \in settled[p] \cup skipped[p]

AccountedBelow(p, o) == \A l \in 1 .. (o - 1) : Accounted(p, l)

Init ==
  /\ log = [p \in Partitions |-> <<>>]
  /\ settled = [p \in Partitions |-> {}]
  /\ skipped = [p \in Partitions |-> {}]
  /\ acked \in [Partitions -> {0, 1}]

Accept(p, e) ==
  /\ log' = [log EXCEPT ![p] = Append(@, e)]
  /\ UNCHANGED <<settled, skipped, acked>>

Settle(p, o) ==
  /\ AccountedBelow(p, o)
  /\ settled' = [settled EXCEPT ![p] = @ \cup {o}]
  /\ UNCHANGED <<log, skipped, acked>>

\* A group that never acknowledged anything may start at the end of the log.
Skip(p) ==
  /\ acked[p] = 0
  /\ skipped' = [skipped EXCEPT ![p] = @ \cup 1 .. Len(log[p])]
  /\ UNCHANGED <<log, settled, acked>>

\* A late acknowledgement may move the position back: the events between are
\* delivered again, never lost.
Acknowledge(p, o) ==
  /\ o \in settled[p]
  /\ AccountedBelow(p, o)
  /\ acked' = [acked EXCEPT ![p] = o + 1]
  /\ UNCHANGED <<log, settled, skipped>>

Next ==
  \E p \in Partitions :
    \/ \E e \in Events : Accept(p, e)
    \/ \E o \in 1 .. Len(log[p]) : Settle(p, o) \/ Acknowledge(p, o)
    \/ Skip(p)

Spec == Init /\ [][Next]_vars
=============================================================================
