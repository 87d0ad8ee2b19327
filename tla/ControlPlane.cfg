CONSTANTS
  ua = ua
  Users = {ua, ub}
  Requests = {1, 2, 3, 4}
  Bases <- MCBases
  SlugOf <- MCSlugOf
  AskedRoles = {"OWNER", "ADMIN"}
SPECIFICATION MCSpec
INVARIANTS
  TypeOK
  OwnerIsMember
PROPERTIES
  OwnerRowIsFixed
  OnlyOwnerDeletes
  ChangesStayInProject
  RequestsFinish
\* Every request may have been served.
CHECK_DEADLOCK FALSE
