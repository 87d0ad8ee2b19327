\* A group that has not committed yet starts at the end of the log again.
SPECIFICATION FairSpec
CONSTANTS
  c1 = c1  c2 = c2  p1 = p1  p2 = p2
  good = good  bad = bad  refused = refused  other = other
  Consumers = {c1, c2}
  Partitions = {p1}
  Events = {good, bad}
  Malformed = {}
  Invalid = {bad}
  Rejected = {}
  PartitionOf <- MCPartitionOf
  TopicBound = 1
  FaultBound = 1
CHECK_DEADLOCK FALSE
PROPERTY BegunIsSettled
