\* One partition with good, dead and refused records, two replicas, two failures.
SPECIFICATION FairSpec
CONSTANTS
  c1 = c1  c2 = c2  p1 = p1  p2 = p2
  good = good  bad = bad  refused = refused  other = other
  Consumers = {c1, c2}
  Partitions = {p1}
  Events = {good, bad, refused}
  Malformed = {bad}
  Invalid = {}
  Rejected = {refused}
  PartitionOf <- MCPartitionOf
  TopicBound = 3
  FaultBound = 2
CHECK_DEADLOCK FALSE
INVARIANTS TypeOK HandlersInStep NoSilentLoss InOrder BroadcastIsSearchable DuplicatesNeedFaults
PROPERTIES ImplementsDelivery HandledUnlessBlocked
