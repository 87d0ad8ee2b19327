CONSTANTS
  p = p
  q = q
  api = api
  web = web
  Undefined = Undefined
  MaxLimit = 2
  Events <- MCEvents
  Filters <- MCFilters
\* Pages of one and of two over events with equal timestamps.
SPECIFICATION FairSpec
INVARIANTS
  TypeOK
  PagesDescend
  NothingMissed
PROPERTY WalkEnds
