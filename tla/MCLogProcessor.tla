--------------------------- MODULE MCLogProcessor ---------------------------
(* Small instances of LogProcessor for TLC. *)
EXTENDS LogProcessor, TLC

CONSTANTS c1, c2, p1, p2, good, bad, refused, other

\* Two projects: other's events go to the last partition, the rest to p1.
MCPartitionOf ==
  [e \in Events |-> IF e = other /\ p2 \in Partitions THEN p2 ELSE p1]

\* Consumers are never told apart.
Symmetry == Permutations(Consumers)
=============================================================================
