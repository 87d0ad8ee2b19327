CONSTANTS
  p = p
  q = q
  NormalKey <- MCNormalKey
  Absent = Absent
  NotJson = NotJson
  Values <- MCValues
  Depth <- MCDepth
  Ids = {1, 2, 3}
  Inputs <- MCInputs
  Users = {u}
  Projects = {p, q}
  Replicas = {a}
  Subscriptions = {s1}
  PublishBound = 3
SPECIFICATION LiveSpec
INVARIANTS
  LiveTypeOK
  StreamIsExact
  NothingSensitiveLeaves
\* A run ends when its subscriptions are closed, nothing is left to publish and its
\* replicas are down.
CHECK_DEADLOCK FALSE
