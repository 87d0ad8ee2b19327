CONSTANTS
  Environments <- MCEnvironments
  Requests = {r1, r2, r3}
  Spellings = {"Ann", "ann"}
  Lower <- MCLower
  x = x
  long = long
  Passwords = {x, y, long}
  Registrable = {x, y}
  Hashed <- MCHashed
  NoToken = NoToken
  TimeSpan <- MCTimeSpan
  NoSpan = NoSpan
  TimeBound = 3
SPECIFICATION Spec
SYMMETRY Renaming
INVARIANTS
  TypeOK
  AdmissionIsEarned
  RefreshNeedsRefreshToken
  SignInIsExact
\* Every request may have been served, or the process refuses to start.
CHECK_DEADLOCK FALSE
