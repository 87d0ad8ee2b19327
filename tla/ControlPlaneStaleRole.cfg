CONSTANTS
  ua = ua
  Users = {ua, ub}
  Requests = {1, 2, 3, 4}
  Bases <- MCOneBase
  SlugOf <- MCSlugOf
  AskedRoles = {"ADMIN"}
SPECIFICATION MCSpec
PROPERTY OnlyManagersManage
\* Every request may have been served.
CHECK_DEADLOCK FALSE
