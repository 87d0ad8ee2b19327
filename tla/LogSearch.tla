----------------------------- MODULE LogSearch -----------------------------
(***************************************************************************)
(* The history query of the API: LogSearchService over LogIndexService and  *)
(* Elasticsearch.  A user pages through the events of a project with the    *)
(* opaque search-after cursor of each answer, while the log processor goes  *)
(* on indexing, shards are refreshed one by one, and the user may lose the  *)
(* membership.  A message, and a text searched for, is a set of words.      *)
(***************************************************************************)
EXTENDS Naturals, FiniteSets, Sequences

CONSTANTS
  Events,   \* processed events: [eventId, timestamp, projectId, service,
            \*                     environment, level, traceId, message]
  Filters,  \* arguments: [projectId, from, to, services, environments, levels,
            \*             traceId, search, limit]
  Undefined, \* no value
  MaxLimit  \* most items of a page

ASSUME SearchAssumption ==
  /\ \A d \in Events : d.eventId \in Nat /\ d.timestamp \in Nat
  /\ \A d, e \in Events : d.eventId = e.eventId => d = e
  /\ \A f \in Filters : f.from \in Nat /\ f.to \in Nat /\ f.limit \in Nat

VARIABLES
  stored,      \* events Elasticsearch has acknowledged
  searchable,  \* those a search can see
  member,      \* whether the user is a member of the project asked for
  walk         \* the user's walk through the pages of one search

vars == <<stored, searchable, member, walk>>

NoCursor  == [kind |-> "none"]
Malformed == [kind |-> "malformed"]
Cursors   == [timestamp : Nat, eventId : Nat]

\* pages are the item sets of the answers so far; seen is what the first of
\* them could draw from.
Walks == [pc : {"idle", "access", "query", "paused", "done", "refused"},
          filter : Filters, cursor : {NoCursor, Malformed} \cup Cursors,
          pages : Seq(SUBSET Events), seen : SUBSET Events]

Init ==
  /\ stored = {}
  /\ searchable = {}
  /\ member = TRUE
  /\ \E f \in Filters :
       walk = [pc |-> "idle", filter |-> f, cursor |-> NoCursor,
               pages |-> << >>, seen |-> {}]

-----------------------------------------------------------------------------
(* Elasticsearch and the control plane. *)

\* indexLog: the event id is the document id, so writing it again is no change.
IndexLog(d) ==
  /\ stored' = stored \cup {d}
  /\ UNCHANGED <<searchable, member, walk>>

Refresh ==
  /\ \E shard \in SUBSET (stored \ searchable) : searchable' = searchable \cup shard
  /\ UNCHANGED <<stored, member, walk>>

LeaveProject ==
  /\ member' = FALSE
  /\ UNCHANGED <<stored, searchable, walk>>

-----------------------------------------------------------------------------
(* The query. *)

\* Sort order of the answer: timestamp, then event id, both descending.
BadBefore(d, e) == d.timestamp > e.timestamp
Before(d, e) ==
  \/ d.timestamp > e.timestamp
  \/ d.timestamp = e.timestamp /\ d.eventId > e.eventId

\* addTermsFilter: no values, no filter.
Among(value, values) == values = {} \/ value \in values

Matches(d, f) ==
  /\ d.projectId = f.projectId
  /\ f.from <= d.timestamp /\ d.timestamp <= f.to
  /\ Among(d.service, f.services)
  /\ Among(d.environment, f.environments)
  /\ Among(d.level, f.levels)
  /\ f.traceId \in {Undefined, d.traceId}
  /\ f.search \subseteq d.message

\* search_after keeps what sorts after the cursor.
BadBelow(d, c) == c = NoCursor \/ ~Before(d, c)
Below(d, c)    == c = NoCursor \/ Before(c, d)

\* first holds the n first members of set in sort order, or all of them.
IsFirst(first, set, n) ==
  IF Cardinality(set) <= n
    THEN first = set
    ELSE /\ Cardinality(first) = n
         /\ \A d \in first, e \in set : Before(e, d) => e \in first

IsLast(d, set) == d \in set /\ \A e \in set : e = d \/ Before(e, d)

BadEncodeCursor(d) == [eventId |-> d.eventId]
EncodeCursor(d)    == [timestamp |-> d.timestamp, eventId |-> d.eventId]

\* LogFilterInput, and then the service, refuse bad arguments.
FollowsInput(f) == f.limit \in 1 .. MaxLimit
Accepts(f)      == FollowsInput(f) /\ f.from < f.to

\* The user asks for the first page, or for the page after the last answer;
\* what is handed in as cursor may be garbage.
Search ==
  /\ \/ walk.pc = "idle" /\ \E c \in {NoCursor, Malformed} :
          walk' = [walk EXCEPT !.pc = IF Accepts(walk.filter) THEN "access" ELSE "refused",
                               !.cursor = c]
     \/ walk.pc = "paused" /\ walk' = [walk EXCEPT !.pc = "access"]
  /\ UNCHANGED <<stored, searchable, member>>

AssertProjectAccess ==
  /\ walk.pc = "access"
  /\ walk' = [walk EXCEPT !.pc = IF member THEN "query" ELSE "refused"]
  /\ UNCHANGED <<stored, searchable, member>>

\* decodeCursor refuses the cursor before Elasticsearch is asked.
RefuseCursor ==
  /\ walk.pc = "query" /\ walk.cursor = Malformed
  /\ walk' = [walk EXCEPT !.pc = "refused"]
  /\ UNCHANGED <<stored, searchable, member>>

Candidates == {d \in searchable : Matches(d, walk.filter)}
Hits       == {d \in Candidates : Below(d, walk.cursor)}

\* One more hit than asked for tells whether there is a next page.
AskedFor(limit) == limit + 1

\* The next page starts after the last item handed out, not after the last hit.
BadHandedOut(items, hits) == hits
HandedOut(items, hits)    == items

Answer(pc, cursor, items) ==
  walk' = [walk EXCEPT !.pc = pc, !.cursor = cursor, !.pages = Append(@, items),
                       !.seen = IF walk.pages = << >> THEN Candidates ELSE @]

SearchLogs ==
  /\ walk.pc = "query" /\ walk.cursor # Malformed
  /\ \E hits \in SUBSET Hits : \E items \in SUBSET hits :
       /\ IsFirst(hits, Hits, AskedFor(walk.filter.limit))
       /\ IsFirst(items, hits, walk.filter.limit)
       /\ \/ /\ Cardinality(hits) <= walk.filter.limit
             /\ Answer("done", NoCursor, items)
          \/ /\ Cardinality(hits) > walk.filter.limit
             /\ \E d \in hits :
                  /\ IsLast(d, HandedOut(items, hits))
                  /\ Answer("paused", EncodeCursor(d), items)
  /\ UNCHANGED <<stored, searchable, member>>

Next ==
  \/ \E d \in Events : IndexLog(d)
  \/ Refresh
  \/ LeaveProject
  \/ Search
  \/ AssertProjectAccess
  \/ RefuseCursor
  \/ SearchLogs

Spec == Init /\ [][Next]_vars

\* The API answers what it was asked, and the user keeps paging.
FairSpec ==
  Spec /\ WF_vars(Search) /\ WF_vars(AssertProjectAccess) /\ WF_vars(RefuseCursor)
       /\ WF_vars(SearchLogs)

-----------------------------------------------------------------------------
(* Properties. *)

\* Searches see acknowledged events only, and the walk is well formed.
TypeOK ==
  /\ stored \subseteq Events
  /\ searchable \subseteq stored
  /\ member \in BOOLEAN
  /\ walk \in Walks

\* Across all pages the items go strictly down the sort order, so none is
\* listed twice, although events with new and old timestamps appear meanwhile.
PagesDescend ==
  \A i, j \in DOMAIN walk.pages : i < j =>
    \A d \in walk.pages[i], e \in walk.pages[j] : Before(d, e)

\* A walk that ended without refusal has listed every event its first page
\* could have seen: no tie of timestamps is cut by a page boundary.
NothingMissed ==
  walk.pc = "done" =>
    \A d \in walk.seen : \E i \in DOMAIN walk.pages : d \in walk.pages[i]

\* A walk comes to an end: each cursor makes progress.
WalkEnds == (walk.pc = "access") ~> (walk.pc \in {"done", "refused"})
=============================================================================
