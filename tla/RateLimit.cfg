\* Quota 2 per 3 ticks, a sweep every 3 requests, over more than two windows.
SPECIFICATION Spec
CONSTANTS
  i1 = i1  i2 = i2
  Identities = {i1, i2}
  Window = 3
  MaxRequests = 2
  PruneInterval = 3
  TimeBound = 6
  RequestBound = 6
SYMMETRY Symmetry
CHECK_DEADLOCK FALSE
INVARIANTS TypeOK SlidingQuota SweepLeavesNoExpired
PROPERTY ImplementsFixedWindow
