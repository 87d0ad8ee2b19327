CONSTANTS
  k1 = k1  k2 = k2  k3 = k3  guess = guess
  Requests = {r1, r2, r3}
  Projects = {p, q}
  NoProject = NoProject
  Drawable = {k1, k2, k3}
  Guesses = {guess}
  NoKey = NoKey
  PrefixOf <- MCPrefixOf
  MaxAttempts = 2
  TimeBound = 2
SPECIFICATION Spec
SYMMETRY Renaming
INVARIANTS
  TypeOK
  UsageIsTracked
  RevocationHolds
PROPERTY ImplementsKeyAuthority
\* Every request may have been served.
CHECK_DEADLOCK FALSE
