CONSTANTS
  Requests = {r1, r2}
  Keys = {ka}
  NoKey = NoKey
  WriteBound = 3
SPECIFICATION Spec
SYMMETRY Renaming
INVARIANTS
  TypeOK
  AnswersAreTrue
  RevokedIsRefused
  OneConnection
\* A stopped process stays stopped.
CHECK_DEADLOCK FALSE
