CONSTANTS
  Replicas = {c1, c2}
  Environments <- MCEnvironments
  FaultBound = 3
SPECIFICATION FairSpec
INVARIANTS
  TypeOK
  ReadyBeforeConsuming
PROPERTY EveryReplicaConsumes
\* A process whose environment is refused does not start.
CHECK_DEADLOCK FALSE
