---------------------------- MODULE MCLogSearch ----------------------------
(* Small instances of LogSearch for TLC. *)
EXTENDS LogSearch

CONSTANTS p, q, api, web

Event(id, ts, project, service, level, traceId, message) ==
  [eventId |-> id, timestamp |-> ts, projectId |-> project, service |-> service,
   environment |-> "prod", level |-> level, traceId |-> traceId, message |-> message]

\* Three events share a timestamp, one is of another service, one of another
\* project.
MCEvents ==
  {Event(1, 2, p, api, "info", "t", {"order"}),
   Event(2, 2, p, api, "info", Undefined, {"order", "lost"}),
   Event(3, 2, p, web, "warn", "t", {"lost"}),
   Event(4, 1, p, api, "warn", "u", {}),
   Event(5, 3, p, api, "info", "t", {"order"}),
   Event(6, 2, q, api, "info", "t", {"order"})}

All(limit) ==
  [projectId |-> p, from |-> 1, to |-> 3, services |-> {}, environments |-> {},
   levels |-> {}, traceId |-> Undefined, search |-> {}, limit |-> limit]

\* Pages of one and two, of all and of each kind of choice; ranges that are
\* shorter and empty; limits that are refused.
MCFilters ==
  {All(1), All(2), [All(1) EXCEPT !.from = 2], [All(2) EXCEPT !.to = 2],
   [All(1) EXCEPT !.services = {api}], [All(2) EXCEPT !.services = {api}],
   [All(1) EXCEPT !.traceId = "t", !.environments = {"prod", "test"}],
   [All(2) EXCEPT !.search = {"order"}, !.levels = {"info", "warn"}],
   [All(2) EXCEPT !.to = 1], All(0), All(3)}
=============================================================================
