--------------------------- MODULE LogViewsProofs ---------------------------
(***************************************************************************)
(* The two views the API gives of the events of a project.                  *)
(*                                                                          *)
(* History: paging is exact for any events, filters and page sizes, under   *)
(* concurrent indexing and partial refreshes.  The inductive invariant      *)
(* relates the cursor to the pages: what was listed is at or before it, and *)
(* what the first page could see and was not listed is after it.            *)
(*                                                                          *)
(* Live: streams are exact for any events, replicas and subscriptions,      *)
(* whenever replicas lose their connections.  The inductive invariant       *)
(* relates a connection to the channel, and a stream to how far its replica *)
(* has got.  Nothing sensitive escapes because redaction cuts the leaves of *)
(* any JSON value where it should, which is shown by induction over values: *)
(* a set of values that were redacted wrongly would have a smallest member. *)
(***************************************************************************)
EXTENDS LogSearch, Realtime, SequenceTheorems, WellFoundedInduction, TLAPS

-----------------------------------------------------------------------------
(* History: the inductive invariant. *)

Listed(d) == \E i \in DOMAIN walk.pages : d \in walk.pages[i]

\* Before the first page there is no position; after it, and as long as the
\* walk goes on, the cursor is the position of the last item listed.
CursorInStep ==
  /\ walk.pc = "idle" => walk.pages = << >>
  /\ walk.pages = << >> => walk.cursor \in {NoCursor, Malformed}
  /\ walk.pages # << >> /\ walk.pc \in {"paused", "access", "query"} =>
       \E l \in Events :
         /\ walk.cursor = EncodeCursor(l)
         /\ \A d \in Events : Listed(d) => d = l \/ Before(d, l)

\* What was seen and not listed is still to come.
RestIsBelow ==
  /\ \A d \in walk.seen : d \in searchable /\ Matches(d, walk.filter)
  /\ walk.pages # << >> /\ walk.pc \in {"paused", "access", "query"} =>
       \A d \in walk.seen : Listed(d) \/ Below(d, walk.cursor)

Inv == TypeOK /\ PagesDescend /\ NothingMissed /\ CursorInStep /\ RestIsBelow

-----------------------------------------------------------------------------
(* The sort order. *)

\* The order is total on events, because event ids are unique.
LEMMA Order ==
  ASSUME NEW d \in Events, NEW e \in Events, NEW g \in Events
  PROVE  /\ d = e \/ Before(d, e) \/ Before(e, d)
         /\ Before(d, e) /\ Before(e, g) => Before(d, g)
         /\ ~Before(d, d)
<1>1. /\ d.eventId \in Nat /\ e.eventId \in Nat /\ g.eventId \in Nat
      /\ d.timestamp \in Nat /\ e.timestamp \in Nat /\ g.timestamp \in Nat
      /\ d.eventId = e.eventId => d = e
  BY SearchAssumption
<1> QED
  BY <1>1 DEF Before

\* The cursor stands for the event it was made from.
LEMMA CursorOrder ==
  ASSUME NEW d \in Events, NEW l \in Events
  PROVE  /\ EncodeCursor(l) \in Cursors
         /\ EncodeCursor(l) \notin {NoCursor, Malformed}
         /\ Below(d, EncodeCursor(l)) <=> Before(l, d)
<1>1. l.eventId \in Nat /\ l.timestamp \in Nat
  BY SearchAssumption
<1>2. EncodeCursor(l) \in Cursors
  BY <1>1 DEF EncodeCursor, Cursors
<1>3. EncodeCursor(l) \notin {NoCursor, Malformed}
  BY DEF EncodeCursor, NoCursor, Malformed
<1>4. Before(EncodeCursor(l), d) <=> Before(l, d)
  BY DEF Before, EncodeCursor
<1> QED
  BY <1>2, <1>3, <1>4 DEF Below

\* An answer that is not the last one leaves out only what follows its items.
LEMMA FirstItems ==
  ASSUME NEW hits \in SUBSET Hits, NEW items \in SUBSET hits, Hits \subseteq Events,
         IsFirst(hits, Hits, AskedFor(walk.filter.limit)),
         IsFirst(items, hits, walk.filter.limit), walk.filter.limit \in Nat
  PROVE  /\ Cardinality(hits) <= walk.filter.limit => items = Hits
         /\ \A l \in items, d \in Hits : Before(d, l) => d \in items
<1> DEFINE n == walk.filter.limit
<1>1. ASSUME Cardinality(hits) <= n PROVE items = Hits
  <2>1. items = hits
    BY <1>1 DEF IsFirst
  <2>2. hits = Hits
    <3>1. Cardinality(hits) # n + 1
      BY <1>1
    <3> QED
      BY <3>1 DEF IsFirst, AskedFor
  <2> QED
    BY <2>1, <2>2
<1>2. ASSUME NEW l \in items, NEW d \in Hits, Before(d, l) PROVE d \in items
  <2>1. d \in hits
    BY <1>2 DEF IsFirst
  <2> QED
    BY <1>2, <2>1 DEF IsFirst
<1> QED
  BY <1>1, <1>2

-----------------------------------------------------------------------------
(* The steps. *)

\* One more page: the earlier ones stay where they were.
LEMMA AppendPage ==
  ASSUME NEW s \in Seq(SUBSET Events), NEW items \in SUBSET Events
  PROVE  /\ Append(s, items) \in Seq(SUBSET Events)
         /\ Append(s, items) # << >>
         /\ DOMAIN Append(s, items) = DOMAIN s \cup {Len(s) + 1}
         /\ Append(s, items)[Len(s) + 1] = items
         /\ \A i \in DOMAIN s : Append(s, items)[i] = s[i] /\ i < Len(s) + 1
         /\ \A i \in DOMAIN Append(s, items) : i \in DOMAIN s \/ i = Len(s) + 1
         /\ \A i, j \in DOMAIN Append(s, items) : i < j => i \in DOMAIN s
OBVIOUS

\* An answered page extends the listing and moves the cursor to its last item.
LEMMA SearchLogsInd ==
  ASSUME Inv, SearchLogs
  PROVE  Inv'
<1> DEFINE n == walk.filter.limit
<1>1. /\ walk \in Walks /\ walk.pc = "query" /\ walk.cursor # Malformed
      /\ walk.filter \in Filters /\ n \in Nat
      /\ walk.pages \in Seq(SUBSET Events)
      /\ UNCHANGED <<stored, searchable, member>>
  BY SearchAssumption DEF Inv, TypeOK, SearchLogs, Walks
<1>2. Hits \subseteq Events /\ Candidates \subseteq Events
  BY DEF Inv, TypeOK, Hits, Candidates
<1>3. PICK hits \in SUBSET Hits : \E items \in SUBSET hits :
        /\ IsFirst(hits, Hits, AskedFor(n))
        /\ IsFirst(items, hits, n)
        /\ \/ Cardinality(hits) <= n /\ Answer("done", NoCursor, items)
           \/ \E d \in hits : IsLast(d, items) /\ Answer("paused", EncodeCursor(d), items)
  BY DEF SearchLogs, HandedOut
<1>4. PICK items \in SUBSET hits :
        /\ IsFirst(hits, Hits, AskedFor(n))
        /\ IsFirst(items, hits, n)
        /\ \/ Cardinality(hits) <= n /\ Answer("done", NoCursor, items)
           \/ \E d \in hits : IsLast(d, items) /\ Answer("paused", EncodeCursor(d), items)
  BY <1>3
<1>5. /\ Cardinality(hits) <= n => items = Hits
      /\ \A l \in items, d \in Hits : Before(d, l) => d \in items
  BY <1>1, <1>2, <1>4, FirstItems
<1>6. PICK pc \in {"done", "paused"}, cursor \in {NoCursor} \cup Cursors :
        /\ Answer(pc, cursor, items)
        /\ pc = "done" => items = Hits
        /\ pc = "paused" => \E d \in items : IsLast(d, items) /\ cursor = EncodeCursor(d)
  BY <1>2, <1>4, <1>5, CursorOrder DEF IsLast
<1> DEFINE seen == IF walk.pages = << >> THEN Candidates ELSE walk.seen
<1>7. /\ walk'.pc = pc /\ walk'.cursor = cursor /\ walk'.filter = walk.filter
      /\ walk'.pages = Append(walk.pages, items) /\ walk'.seen = seen
      /\ walk' \in Walks
  BY <1>1, <1>2, <1>6, AppendPage DEF Answer, Walks
<1> HIDE DEF seen
<1>8. items \subseteq Events
  BY <1>2
<1>9. /\ DOMAIN walk'.pages = DOMAIN walk.pages \cup {Len(walk.pages) + 1}
      /\ walk'.pages # << >>
      /\ walk'.pages[Len(walk.pages) + 1] = items
      /\ \A i \in DOMAIN walk.pages : walk'.pages[i] = walk.pages[i]
      /\ \A i, j \in DOMAIN walk'.pages : i < j => i \in DOMAIN walk.pages
  BY <1>1, <1>7, <1>8, AppendPage
<1>10. TypeOK'
  BY <1>1, <1>7 DEF Inv, TypeOK
\* The new items sort after all that was listed.
<1>12. \A i \in DOMAIN walk.pages : \A d \in walk.pages[i], e \in items : Before(d, e)
  <2> SUFFICES ASSUME NEW i \in DOMAIN walk.pages, NEW d \in walk.pages[i], NEW e \in items
               PROVE  Before(d, e)
    OBVIOUS
  <2>1. walk.pages # << >> /\ Listed(d) /\ d \in Events
    BY <1>1 DEF Listed
  <2>2. PICK l \in Events : /\ walk.cursor = EncodeCursor(l)
                            /\ d = l \/ Before(d, l)
    BY <1>1, <2>1 DEF Inv, CursorInStep
  <2>3. Before(l, e)
    BY <1>2, <2>2, CursorOrder DEF Hits
  <2> QED
    BY <1>2, <2>1, <2>2, <2>3, Order
<1>13. PagesDescend'
  BY <1>9, <1>12 DEF Inv, PagesDescend
<1>14. \A d : Listed(d)' <=> Listed(d) \/ d \in items
  BY <1>9 DEF Listed
\* What was seen and not listed before is among the hits.
<1>15. \A d \in seen : /\ Listed(d) \/ d \in Hits
                       /\ d \in searchable /\ Matches(d, walk.filter)
  <2>1. CASE walk.pages = << >>
    <3>1. walk.cursor = NoCursor
      BY <1>1, <2>1 DEF Inv, CursorInStep
    <3> QED
      BY <2>1, <3>1 DEF seen, Hits, Candidates, Below
  <2>2. CASE walk.pages # << >>
    BY <1>1, <2>2 DEF seen, Inv, RestIsBelow, Hits, Candidates
  <2> QED
    BY <2>1, <2>2
<1>16. CASE pc = "done"
  <2>1. NothingMissed'
    BY <1>6, <1>7, <1>14, <1>15, <1>16 DEF NothingMissed, Listed
  <2>2. CursorInStep' /\ RestIsBelow'
    BY <1>1, <1>7, <1>9, <1>15, <1>16 DEF CursorInStep, RestIsBelow, Matches
  <2> QED
    BY <1>10, <1>13, <2>1, <2>2 DEF Inv
<1>17. CASE pc = "paused"
  <2>1. PICK l \in items : IsLast(l, items) /\ cursor = EncodeCursor(l)
    BY <1>6, <1>17
  <2>2. NothingMissed'
    BY <1>7, <1>17 DEF NothingMissed
  <2>3. CursorInStep'
    <3>1. l \in Events
      BY <1>8
    <3>2. ASSUME NEW d \in Events, Listed(d)' PROVE d = l \/ Before(d, l)
      <4>1. CASE d \in items
        BY <2>1, <4>1 DEF IsLast
      <4>2. CASE Listed(d)
        BY <1>12, <4>2 DEF Listed
      <4> QED
        BY <1>14, <3>2, <4>1, <4>2
    <3> QED
      BY <1>7, <1>9, <1>17, <2>1, <3>1, <3>2 DEF CursorInStep, Before, EncodeCursor
  <2>4. RestIsBelow'
    <3>1. ASSUME NEW d \in seen PROVE Listed(d)' \/ Below(d, EncodeCursor(l))
      <4>1. CASE Listed(d)
        BY <1>14, <4>1
      <4>2. CASE d \in Hits /\ d \notin items
        <5>1. d \in Events /\ l \in Events /\ ~Before(d, l) /\ d # l
          BY <1>2, <1>5, <1>8, <2>1, <4>2
        <5> QED
          BY <5>1, Order, CursorOrder
      <4> QED
        BY <1>14, <1>15, <4>1, <4>2
    <3> QED
      BY <1>1, <1>7, <1>15, <2>1, <3>1 DEF RestIsBelow, Below, Before, Matches
  <2> QED
    BY <1>10, <1>13, <2>2, <2>3, <2>4 DEF Inv
<1> QED
  BY <1>16, <1>17

\* The other steps of the walk only change its stage.
LEMMA StageInd ==
  ASSUME Inv, UNCHANGED <<stored, searchable, member>>,
         NEW pc \in {"access", "query", "refused"}, walk' = [walk EXCEPT !.pc = pc],
         walk.pc \in {"paused", "access", "query"}
  PROVE  Inv'
<1>1. walk \in Walks
  BY DEF Inv, TypeOK
<1>2. /\ walk'.pc = pc /\ walk'.cursor = walk.cursor /\ walk'.filter = walk.filter
      /\ walk'.pages = walk.pages /\ walk'.seen = walk.seen /\ walk' \in Walks
  BY <1>1 DEF Walks
<1>3. TypeOK' /\ PagesDescend' /\ NothingMissed'
  BY <1>2 DEF Inv, TypeOK, PagesDescend, Matches, NothingMissed
<1>4. CursorInStep' /\ RestIsBelow'
  BY <1>2 DEF Inv, CursorInStep, RestIsBelow, Listed, Matches
<1> QED
  BY <1>3, <1>4 DEF Inv

\* Asking for a page sets the cursor only before the first answer.
LEMMA SearchInd ==
  ASSUME Inv, Search
  PROVE  Inv'
<1>1. CASE walk.pc = "paused" /\ walk' = [walk EXCEPT !.pc = "access"]
  BY <1>1, StageInd DEF Search
<1>2. CASE walk.pc = "idle" /\ \E pc \in {"access", "refused"}, c \in {NoCursor, Malformed} :
             walk' = [walk EXCEPT !.pc = pc, !.cursor = c]
  <2>1. PICK pc \in {"access", "refused"}, c \in {NoCursor, Malformed} :
          walk' = [walk EXCEPT !.pc = pc, !.cursor = c]
    BY <1>2
  <2>2. walk \in Walks /\ walk.pages = << >>
    BY <1>2 DEF Inv, TypeOK, CursorInStep
  <2>3. /\ walk'.pc = pc /\ walk'.cursor = c /\ walk'.filter = walk.filter
        /\ walk'.pages = << >> /\ walk'.seen = walk.seen /\ walk' \in Walks
    BY <2>1, <2>2 DEF Walks
  <2> QED
    BY <2>2, <2>3 DEF Search, Inv, TypeOK, PagesDescend, NothingMissed,
       CursorInStep, RestIsBelow, Matches
<1> QED
  BY <1>1, <1>2 DEF Search

\* Indexing and refreshes only add, and the walk does not depend on the member
\* row between its checks.
LEMMA OutsideInd ==
  ASSUME Inv, UNCHANGED walk, stored \subseteq stored', stored' \subseteq Events,
         searchable \subseteq searchable', searchable' \subseteq stored',
         member' \in BOOLEAN
  PROVE  Inv'
BY DEF Inv, TypeOK, PagesDescend, NothingMissed, CursorInStep, RestIsBelow,
       Listed, Matches

\* A walk that has not begun satisfies the invariant.
LEMMA InitInd == Init => Inv
<1> SUFFICES ASSUME Init PROVE Inv
  OBVIOUS
<1>1. PICK f \in Filters : walk = [pc |-> "idle", filter |-> f, cursor |-> NoCursor,
                                   pages |-> << >>, seen |-> {}]
  BY DEF Init
<1>2. walk \in Walks
  BY <1>1 DEF Walks
<1> QED
  BY <1>1, <1>2 DEF Init, Inv, TypeOK, PagesDescend, NothingMissed,
     CursorInStep, RestIsBelow

\* Every step preserves it.
LEMMA NextInd == Inv /\ [Next]_vars => Inv'
<1> SUFFICES ASSUME Inv, [Next]_vars PROVE Inv'
  OBVIOUS
<1>1. ASSUME NEW d \in Events, IndexLog(d) PROVE Inv'
  BY <1>1, OutsideInd DEF IndexLog, Inv, TypeOK
<1>2. CASE Refresh
  BY <1>2, OutsideInd DEF Refresh, Inv, TypeOK
<1>3. CASE LeaveProject
  BY <1>3, OutsideInd DEF LeaveProject, Inv, TypeOK
<1>4. CASE Search
  BY <1>4, SearchInd
<1>5. CASE AssertProjectAccess
  <2>1. PICK pc \in {"query", "refused"} : walk' = [walk EXCEPT !.pc = pc]
    BY <1>5 DEF AssertProjectAccess
  <2> QED
    BY <1>5, <2>1, StageInd DEF AssertProjectAccess
<1>6. CASE RefuseCursor
  BY <1>6, StageInd DEF RefuseCursor
<1>7. CASE SearchLogs
  BY <1>7, SearchLogsInd
<1>8. CASE UNCHANGED vars
  BY <1>8, OutsideInd DEF vars, Inv, TypeOK
<1> QED
  BY <1>1, <1>2, <1>3, <1>4, <1>5, <1>6, <1>7, <1>8 DEF Next

\* The inductive invariant holds in every reachable state.
THEOREM Invariance == Spec => []Inv
BY InitInd, NextInd, PTL DEF Spec

\* Searches see acknowledged events only, and the walk is well formed.
THEOREM TypeCorrect == Spec => []TypeOK
<1>1. Inv => TypeOK
  BY DEF Inv
<1> QED
  BY <1>1, Invariance, PTL

\* No event is listed twice, and pages follow each other in the sort order.
THEOREM PagingDescends == Spec => []PagesDescend
<1>1. Inv => PagesDescend
  BY DEF Inv
<1> QED
  BY <1>1, Invariance, PTL

\* A finished walk listed every event its first page could have seen.
THEOREM PagingIsComplete == Spec => []NothingMissed
<1>1. Inv => NothingMissed
  BY DEF Inv
<1> QED
  BY <1>1, Invariance, PTL

-----------------------------------------------------------------------------
(* Recursion over JSON values. *)

Parts(v) == {child.value : child \in Children(v)}

\* A nonempty set of natural numbers has a least element.
LEMMA Least ==
  ASSUME NEW T \in SUBSET Nat, T # {}
  PROVE  \E n \in T : \A m \in T : n <= m
<1>1. PICK R : IsWellFoundedOn(R, Nat) /\ R = {ss \in Nat \X Nat : ss[1] < ss[2]}
  BY NatLessThanWellFounded, Zenon DEF OpToRel
<1>2. PICK n \in T : \A m \in T : ~(<<m, n>> \in R)
  BY <1>1, WFMin
<1>3. \A m \in T : ~(m < n)
  BY <1>1, <1>2
<1> QED
  BY <1>3

\* The parts of a value are values that nest less deep.
LEMMA PartsAreSmaller ==
  ASSUME NEW v \in Values
  PROVE  /\ Depth[v] \in Nat
         /\ \A c \in Parts(v) : c \in Values /\ Depth[c] \in Nat /\ Depth[c] < Depth[v]
BY JsonAssumption DEF Parts

\* A nonempty set of values has a member none of whose parts is in the set.
LEMMA Smallest ==
  ASSUME NEW T \in SUBSET Values, T # {}
  PROVE  \E v \in T : \A c \in Parts(v) : c \notin T
<1> DEFINE depths == {Depth[v] : v \in T}
<1>1. depths \in SUBSET Nat /\ depths # {}
  BY PartsAreSmaller
<1>2. PICK n \in depths : \A m \in depths : n <= m
  BY <1>1, Least
<1>3. PICK v \in T : Depth[v] = n
  BY <1>2
<1>4. \A c \in Parts(v) : c \notin T
  BY <1>2, <1>3, PartsAreSmaller
<1> QED
  BY <1>3, <1>4

\* What the parts are.
LEMMA PartsListed ==
  ASSUME NEW v
  PROVE  /\ v.type = "array" => \A i \in DOMAIN v.items : v.items[i] \in Parts(v)
         /\ v.type = "object" => \A k \in DOMAIN v.fields : v.fields[k] \in Parts(v)
<1>1. \A child \in Children(v) : child.value \in Parts(v)
  BY DEF Parts
<1>2. ASSUME v.type = "array", NEW i \in DOMAIN v.items
      PROVE  v.items[i] \in Parts(v)
  <2>1. [step |-> [index |-> i], value |-> v.items[i]] \in Children(v)
    BY <1>2 DEF Children
  <2> QED
    BY <1>1, <2>1
<1>3. ASSUME v.type = "object", NEW k \in DOMAIN v.fields
      PROVE  v.fields[k] \in Parts(v)
  <2>1. [step |-> [key |-> k], value |-> v.fields[k]] \in Children(v)
    BY <1>3 DEF Children
  <2> QED
    BY <1>1, <2>1
<1> QED
  BY <1>2, <1>3

\* The two recursive functions of Normalization, as one, so that what follows is
\* proved once.
Level(what, f, v) == IF what = "redaction" THEN Redact(f, v) ELSE LeavesOf(f, v)

\* They look at no more than the parts of a value.
LEMMA LevelIsLocal ==
  ASSUME NEW what \in {"redaction", "leaves"}, NEW f, NEW g, NEW v \in Values,
         \A c \in Parts(v) : f[c] = g[c]
  PROVE  Level(what, f, v) = Level(what, g, v)
<1>1. Redact(f, v) = Redact(g, v)
  <2>1. CASE v.type = "array"
    <3>1. \A i \in DOMAIN v.items : f[v.items[i]] = g[v.items[i]]
      BY <2>1, PartsListed
    <3> QED
      BY <2>1, <3>1 DEF Redact
  <2>2. CASE v.type = "object"
    <3>1. \A k \in DOMAIN v.fields : f[v.fields[k]] = g[v.fields[k]]
      BY <2>2, PartsListed
    <3> QED
      BY <2>2, <3>1 DEF Redact
  <2>3. CASE v.type = "scalar"
    BY <2>3 DEF Redact
  <2> QED
    BY <2>1, <2>2, <2>3, JsonAssumption
<1>2. LeavesOf(f, v) = LeavesOf(g, v)
  <2>1. \A child \in Children(v) : f[child.value] = g[child.value]
    BY DEF Parts
  <2> DEFINE Of(h, child) == {Prefixed(child.step, leaf) : leaf \in h[child.value]}
  <2>2. \A child \in Children(v) : Of(f, child) = Of(g, child)
    BY <2>1
  <2> HIDE DEF Of
  <2>3. {Of(f, child) : child \in Children(v)} = {Of(g, child) : child \in Children(v)}
    BY <2>2
  <2> USE DEF Of
  <2> QED
    BY <2>3, Zenon DEF LeavesOf
<1> QED
  BY <1>1, <1>2 DEF Level

\* f computes the recursion for values that nest less deep than n.
Computes(what, f, n) ==
  \A v \in Values : Depth[v] < n => f[v] = Level(what, f, v)

\* Up to any depth some function computes it.
LEMMA SomeComputes ==
  ASSUME NEW what \in {"redaction", "leaves"}, NEW n \in Nat
  PROVE  \E f : Computes(what, f, n)
<1> DEFINE T == {m \in Nat : \A f : ~Computes(what, f, m)}
<1>1. SUFFICES ASSUME T # {} PROVE FALSE
  OBVIOUS
<1>2. PICK m \in T : \A k \in T : m <= k
  BY <1>1, Least
<1>3. CASE m = 0
  BY <1>2, <1>3, PartsAreSmaller DEF Computes
<1>4. CASE m # 0
  <2>1. m - 1 \in Nat /\ m - 1 \notin T
    BY <1>2, <1>4
  <2>2. PICK f : Computes(what, f, m - 1)
    BY <2>1
  <2> DEFINE g == [v \in Values |-> Level(what, f, v)]
  <2>3. SUFFICES ASSUME NEW v \in Values, Depth[v] < m
                 PROVE  g[v] = Level(what, g, v)
    BY <1>2 DEF Computes
  <2>4. \A c \in Parts(v) : f[c] = g[c]
    BY <1>2, <2>1, <2>2, <2>3, PartsAreSmaller DEF Computes
  <2>5. Level(what, f, v) = Level(what, g, v)
    BY <2>4, LevelIsLocal
  <2> QED
    BY <2>5
<1> QED
  BY <1>3, <1>4

\* And all that do agree.
LEMMA ComputationsAgree ==
  ASSUME NEW what \in {"redaction", "leaves"}, NEW n \in Nat, NEW f, NEW g,
         Computes(what, f, n), Computes(what, g, n)
  PROVE  \A v \in Values : Depth[v] < n => f[v] = g[v]
<1> DEFINE T == {v \in Values : Depth[v] < n /\ f[v] # g[v]}
<1>1. SUFFICES ASSUME T # {} PROVE FALSE
  OBVIOUS
<1>2. PICK v \in T : \A c \in Parts(v) : c \notin T
  BY <1>1, Smallest
<1>3. \A c \in Parts(v) : f[c] = g[c]
  BY <1>2, PartsAreSmaller
<1>4. Level(what, f, v) = Level(what, g, v)
  BY <1>2, <1>3, LevelIsLocal
<1> QED
  BY <1>2, <1>4 DEF Computes

\* So there is a function that computes it for every value.
LEMMA Recursion ==
  ASSUME NEW what \in {"redaction", "leaves"}
  PROVE  \E f : f = [v \in Values |-> Level(what, f, v)]
<1> DEFINE Upto(n) == CHOOSE f : Computes(what, f, n)
           F == [v \in Values |-> Upto(Depth[v] + 1)[v]]
<1>1. \A n \in Nat : Computes(what, Upto(n), n)
  BY SomeComputes
<1>2. ASSUME NEW v \in Values
      PROVE  F[v] = Level(what, F, v)
  <2>1. \A c \in Parts(v) : F[c] = Upto(Depth[v] + 1)[c]
    <3> SUFFICES ASSUME NEW c \in Parts(v)
                 PROVE  F[c] = Upto(Depth[v] + 1)[c]
      OBVIOUS
    <3>1. c \in Values /\ Depth[c] \in Nat /\ Depth[v] \in Nat /\ Depth[c] < Depth[v]
      BY PartsAreSmaller
    <3>2. Computes(what, Upto(Depth[c] + 1), Depth[c] + 1)
      BY <1>1, <3>1
    <3>3. Computes(what, Upto(Depth[v] + 1), Depth[c] + 1)
      <4>1. Computes(what, Upto(Depth[v] + 1), Depth[v] + 1)
        BY <1>1, <3>1
      <4> QED
        BY <3>1, <4>1, PartsAreSmaller DEF Computes
    <3>4. Upto(Depth[c] + 1)[c] = Upto(Depth[v] + 1)[c]
      <4> HIDE DEF Upto
      <4>1. Depth[c] + 1 \in Nat /\ Depth[c] < Depth[c] + 1
        BY <3>1
      <4> QED
        BY <3>1, <3>2, <3>3, <4>1, ComputationsAgree
    <3> QED
      BY <3>1, <3>4
  <2>2. Level(what, Upto(Depth[v] + 1), v) = Level(what, F, v)
    <3> HIDE DEF Upto, F
    <3> QED
      BY <2>1, LevelIsLocal
  <2>3. Upto(Depth[v] + 1)[v] = Level(what, Upto(Depth[v] + 1), v)
    <3>1. Depth[v] \in Nat /\ Depth[v] + 1 \in Nat /\ Depth[v] < Depth[v] + 1
      BY PartsAreSmaller
    <3>2. Computes(what, Upto(Depth[v] + 1), Depth[v] + 1)
      BY <1>1, <3>1
    <3> HIDE DEF Upto
    <3> QED
      BY <3>1, <3>2 DEF Computes
  <2> QED
    BY <2>2, <2>3
<1> QED
  BY <1>2

\* redactSensitiveData is what its recursive definition says.
LEMMA RedactUnfolds ==
  \A v \in Values : redactSensitiveData[v] = Redact(redactSensitiveData, v)
<1>1. PICK f : f = [v \in Values |-> Level("redaction", f, v)]
  BY Recursion
<1>2. f = [v \in Values |-> Redact(f, v)]
  BY <1>1 DEF Level
<1>3. redactSensitiveData = [v \in Values |-> Redact(redactSensitiveData, v)]
  BY <1>2 DEF redactSensitiveData
<1> QED
  BY <1>3

\* So is Leaves.
LEMMA LeavesUnfolds ==
  \A v \in Values : Leaves[v] = LeavesOf(Leaves, v)
<1>1. PICK f : f = [v \in Values |-> Level("leaves", f, v)]
  BY Recursion
<1>2. f = [v \in Values |-> LeavesOf(f, v)]
  BY <1>1 DEF Level
<1>3. Leaves = [v \in Values |-> LeavesOf(Leaves, v)]
  BY <1>2 DEF Leaves
<1> QED
  BY <1>3

-----------------------------------------------------------------------------
(* Leaves and their paths. *)

Steps == UNION {{child.step : child \in Children(v)} : v \in Values}

IsLeaf(leaf) ==
  leaf = [path |-> leaf.path, value |-> leaf.value] /\ leaf.path \in Seq(Steps)

\* A path that goes on below a step, and its beginnings.
LEMMA PathBelow ==
  ASSUME NEW step \in Steps, NEW path \in Seq(Steps)
  PROVE  /\ <<step>> \o path \in Seq(Steps)
         /\ Len(<<step>> \o path) = Len(path) + 1
         /\ (<<step>> \o path)[1] = step
         /\ \A i \in 1 .. Len(path) : (<<step>> \o path)[i + 1] = path[i]
         /\ \A m \in 0 .. Len(path) :
              SubSeq(<<step>> \o path, 1, m + 1) = <<step>> \o SubSeq(path, 1, m)
<1>1. <<step>> \in Seq(Steps)
  OBVIOUS
<1>2. PICK long \in Seq(Steps) : long = <<step>> \o path
  BY <1>1, ConcatProperties
<1>3. /\ Len(long) = Len(path) + 1
      /\ long[1] = step
      /\ \A i \in 1 .. Len(path) : long[i + 1] = path[i]
  BY <1>2
<1>4. ASSUME NEW m \in 0 .. Len(path)
      PROVE  SubSeq(long, 1, m + 1) = <<step>> \o SubSeq(path, 1, m)
  <2>1. Len(path) \in Nat /\ 1 \in 1 .. Len(long) /\ m + 1 \in 1 .. Len(long)
    BY <1>3
  <2>2. SubSeq(long, 1, m + 1) = <<step>> \o SubSeq(long, 2, m + 1)
    BY <1>3, <2>1, SubSeqRecursiveFirst
  <2>3. SubSeq(long, 2, m + 1) = SubSeq(path, 1, m)
    <3>1. CASE m = 0
      BY <3>1, SubSeqEmpty
    <3>2. CASE m # 0
      <4>1. <<step>> \in Seq(Steps) /\ Len(<<step>>) = 1
        BY <1>1
      <4>2. /\ 2 \in Len(<<step>>) + 1 .. Len(<<step>>) + Len(path)
            /\ m + 1 \in Len(<<step>>) + 1 .. Len(<<step>>) + Len(path)
        BY <2>1, <3>2, <4>1
      <4>3. SubSeq(<<step>> \o path, 2, m + 1)
              = SubSeq(path, 2 - Len(<<step>>), m + 1 - Len(<<step>>))
        BY <4>1, <4>2, SubSeqOfConcat2
      <4> QED
        BY <1>2, <4>1, <4>3
    <3> QED
      BY <3>1, <3>2
  <2> QED
    BY <2>2, <2>3
<1> QED
  BY <1>2, <1>3, <1>4

Sensitive(path) == {i \in DOMAIN path : isSensitiveStep(path[i])}

\* A leaf with no sensitive key on its path is kept.
LEMMA CutNowhere ==
  ASSUME NEW path, NEW value, Sensitive(path) = {}
  PROVE  Cut([path |-> path, value |-> value]) = [path |-> path, value |-> value]
BY DEF Cut, Sensitive

\* Any other is cut at the first.
LEMMA CutFirst ==
  ASSUME NEW path \in Seq(Steps), NEW value,
         NEW m \in Sensitive(path), \A j \in Sensitive(path) : m <= j
  PROVE  Cut([path |-> path, value |-> value])
           = [path |-> SubSeq(path, 1, m), value |-> "[REDACTED]"]
<1>1. Sensitive(path) \subseteq Nat
  BY DEF Sensitive
<1>2. m = CHOOSE i \in Sensitive(path) : \A j \in Sensitive(path) : i <= j
  BY <1>1
<1> QED
  BY <1>2 DEF Cut, Sensitive

\* Cutting below a step: a sensitive step is where the leaf is cut; otherwise it is
\* cut where it would be without the step.
LEMMA CutBelow ==
  ASSUME NEW step \in Steps, NEW leaf, IsLeaf(leaf)
  PROVE  Cut(Prefixed(step, leaf)) =
           IF isSensitiveStep(step) THEN [path |-> <<step>>, value |-> "[REDACTED]"]
                                    ELSE Prefixed(step, Cut(leaf))
<1>1. PICK path \in Seq(Steps) : \E value : leaf = [path |-> path, value |-> value]
  BY DEF IsLeaf
<1>2. PICK value : leaf = [path |-> path, value |-> value]
  BY <1>1
<1>3. PICK long \in Seq(Steps) :
        /\ long = <<step>> \o path
        /\ Len(long) = Len(path) + 1
        /\ long[1] = step
        /\ \A i \in 1 .. Len(path) : long[i + 1] = path[i]
        /\ \A m \in 0 .. Len(path) : SubSeq(long, 1, m + 1) = <<step>> \o SubSeq(path, 1, m)
  BY PathBelow
<1>4. Prefixed(step, leaf) = [path |-> long, value |-> value]
  BY <1>3, <1>2 DEF Prefixed
<1>5. CASE isSensitiveStep(step)
  <2>1. 1 \in Sensitive(long) /\ \A j \in Sensitive(long) : 1 <= j
    BY <1>1, <1>3, <1>5 DEF Sensitive
  <2>2. Cut(Prefixed(step, leaf)) = [path |-> SubSeq(long, 1, 1), value |-> "[REDACTED]"]
    BY <1>4, <2>1, CutFirst
  <2>3. SubSeq(long, 1, 1) = <<step>>
    <3>1. 0 \in 0 .. Len(path) /\ SubSeq(path, 1, 0) = << >>
      BY SubSeqEmpty
    <3>2. SubSeq(long, 1, 0 + 1) = <<step>> \o << >>
      BY <1>3, <3>1
    <3> QED
      BY <3>2
  <2> QED
    BY <1>5, <2>2, <2>3
<1>6. CASE ~isSensitiveStep(step)
  <2>1. \A j \in 1 .. Len(long) : j \in Sensitive(long) <=> (j # 1 /\ j - 1 \in Sensitive(path))
    <3> SUFFICES ASSUME NEW j \in 1 .. Len(long)
                 PROVE  j \in Sensitive(long) <=> (j # 1 /\ j - 1 \in Sensitive(path))
      OBVIOUS
    <3>1. CASE j = 1
      BY <1>3, <1>6, <3>1 DEF Sensitive
    <3>2. CASE j # 1
      <4>1. j - 1 \in DOMAIN path /\ j \in DOMAIN long
        BY <1>1, <1>3, <3>2
      <4>2. long[j] = path[j - 1]
        BY <1>3, <4>1
      <4> QED
        BY <3>2, <4>1, <4>2 DEF Sensitive
    <3> QED
      BY <3>1, <3>2
  <2>2. CASE Sensitive(path) = {}
    <3>1. Sensitive(long) = {}
      BY <1>1, <2>1, <2>2 DEF Sensitive
    <3>2. Cut(leaf) = leaf
      BY <1>2, <2>2, CutNowhere
    <3> QED
      BY <1>4, <1>6, <3>1, <3>2, CutNowhere
  <2>3. CASE Sensitive(path) # {}
    <3>1. Sensitive(path) \in SUBSET Nat /\ Sensitive(path) \subseteq 1 .. Len(path)
      BY <1>1 DEF Sensitive
    <3>2. PICK m \in Sensitive(path) : \A j \in Sensitive(path) : m <= j
      BY <2>3, <3>1, Least
    <3>3. m \in 1 .. Len(path) /\ m + 1 \in 1 .. Len(long)
      BY <1>1, <1>3, <3>1
    <3>4. m + 1 \in Sensitive(long) /\ \A j \in Sensitive(long) : m + 1 <= j
      <4>1. m + 1 \in Sensitive(long)
        BY <2>1, <3>3
      <4>2. \A j \in Sensitive(long) : j \in 1 .. Len(long)
        BY <1>1 DEF Sensitive
      <4>3. \A j \in Sensitive(long) : j - 1 \in Sensitive(path)
        BY <2>1, <4>2
      <4> QED
        BY <3>2, <3>3, <4>1, <4>2, <4>3
    <3>5. Cut(leaf) = [path |-> SubSeq(path, 1, m), value |-> "[REDACTED]"]
      BY <1>2, <3>2, CutFirst
    <3>6. Cut(Prefixed(step, leaf)) = [path |-> SubSeq(long, 1, m + 1), value |-> "[REDACTED]"]
      BY <1>4, <3>4, CutFirst
    <3>7. SubSeq(long, 1, m + 1) = <<step>> \o SubSeq(path, 1, m)
      BY <1>3, <3>3
    <3>8. Prefixed(step, Cut(leaf))
            = [path |-> <<step>> \o SubSeq(path, 1, m), value |-> "[REDACTED]"]
      BY <3>5 DEF Prefixed
    <3> QED
      BY <1>6, <3>6, <3>7, <3>8
  <2> QED
    BY <2>2, <2>3
<1> QED
  BY <1>5, <1>6

\* The leaves of a value with parts are those of its parts, a step further down.
LEMMA LeavesBelow ==
  ASSUME NEW v \in Values, Children(v) # {}
  PROVE  \A leaf : leaf \in Leaves[v] <=>
           \E child \in Children(v) : \E below \in Leaves[child.value] :
             leaf = Prefixed(child.step, below)
<1> DEFINE Of(child) == {Prefixed(child.step, below) : below \in Leaves[child.value]}
<1>1. Leaves[v] = UNION {Of(child) : child \in Children(v)}
  BY LeavesUnfolds DEF LeavesOf
<1> QED
  BY <1>1

\* A value without parts is one leaf.
LEMMA LeafItself ==
  ASSUME NEW v \in Values, Children(v) = {}
  PROVE  Leaves[v] = {[path |-> << >>, value |-> IF v.type = "scalar" THEN v.value ELSE v.type]}
BY LeavesUnfolds DEF LeavesOf

\* Every value has leaves, and they are well formed.
LEMMA LeavesAreLeaves ==
  \A v \in Values : Leaves[v] # {} /\ \A leaf \in Leaves[v] : IsLeaf(leaf)
<1> DEFINE Fine(v) == Leaves[v] # {} /\ \A leaf \in Leaves[v] : IsLeaf(leaf)
           T == {v \in Values : ~Fine(v)}
<1>1. SUFFICES ASSUME T # {} PROVE FALSE
  OBVIOUS
<1>2. PICK v \in T : \A c \in Parts(v) : c \notin T
  BY <1>1, Smallest
<1>3. CASE Children(v) = {}
  <2>1. << >> \in Seq(Steps)
    OBVIOUS
  <2>2. PICK value : Leaves[v] = {[path |-> << >>, value |-> value]}
    BY <1>2, <1>3, LeafItself
  <2>3. IsLeaf([path |-> << >>, value |-> value])
    BY <2>1 DEF IsLeaf
  <2> QED
    BY <1>2, <2>2, <2>3
<1>4. CASE Children(v) # {}
  <2>1. \A child \in Children(v) : Fine(child.value) /\ child.step \in Steps
    <3>1. \A child \in Children(v) : child.value \in Parts(v)
      BY DEF Parts
    <3>2. \A child \in Children(v) : Fine(child.value)
      BY <1>2, <3>1, PartsAreSmaller
    <3>3. \A child \in Children(v) : child.step \in Steps
      BY <1>2 DEF Steps
    <3> QED
      BY <3>2, <3>3
  <2>2. ASSUME NEW leaf \in Leaves[v]
        PROVE  IsLeaf(leaf)
    <3>1. PICK child \in Children(v) :
            \E below \in Leaves[child.value] : leaf = Prefixed(child.step, below)
      BY <1>2, <1>4, <2>2, LeavesBelow
    <3>2. PICK below \in Leaves[child.value] : leaf = Prefixed(child.step, below)
      BY <3>1
    <3>3. child.step \in Steps /\ below.path \in Seq(Steps)
      BY <2>1, <3>2 DEF IsLeaf
    <3>4. <<child.step>> \o below.path \in Seq(Steps)
      BY <3>3, PathBelow
    <3> QED
      BY <3>2, <3>4 DEF IsLeaf, Prefixed
  <2>3. Leaves[v] # {}
    <3>1. PICK child \in Children(v) : Leaves[child.value] # {}
      BY <1>4, <2>1
    <3>2. PICK below \in Leaves[child.value] : TRUE
      BY <3>1
    <3> QED
      BY <1>2, <1>4, <3>1, <3>2, LeavesBelow
  <2> QED
    BY <1>2, <2>2, <2>3
<1> QED
  BY <1>3, <1>4

\* What a part becomes when the value around it is redacted.
RedactedPart(child) ==
  IF isSensitiveStep(child.step) THEN REDACTED_VALUE ELSE redactSensitiveData[child.value]

\* Redaction goes through the parts of a value and keeps its shape.
LEMMA RedactedChildren ==
  ASSUME NEW v \in Values
  PROVE  /\ Children(redactSensitiveData[v])
              = {[step |-> child.step, value |-> RedactedPart(child)] : child \in Children(v)}
         /\ v.type = "scalar" => redactSensitiveData[v] = v
         /\ redactSensitiveData[v].type = v.type
<1> DEFINE red == redactSensitiveData[v]
<1>1. red = Redact(redactSensitiveData, v)
  BY RedactUnfolds
<1>2. CASE v.type = "scalar"
  <2>1. red = v
    BY <1>1, <1>2 DEF Redact
  <2>2. Children(v) = {}
    BY <1>2 DEF Children
  <2> QED
    BY <1>2, <2>1, <2>2
<1>3. CASE v.type = "array"
  <2>1. \A i : ~isSensitiveStep([index |-> i])
    BY DEF isSensitiveStep
  <2>2. red.type = "array" /\ red.items = [i \in DOMAIN v.items |-> redactSensitiveData[v.items[i]]]
    BY <1>1, <1>3 DEF Redact, Array
  <2> DEFINE Part(i)    == [step |-> [index |-> i], value |-> v.items[i]]
             NewPart(i) == [step |-> [index |-> i], value |-> redactSensitiveData[v.items[i]]]
  <2>3. Children(red) = {NewPart(i) : i \in DOMAIN v.items}
    BY <2>2 DEF Children
  <2>4. Children(v) = {Part(i) : i \in DOMAIN v.items}
    BY <1>3 DEF Children
  <2>5. \A i : [step |-> Part(i).step, value |-> RedactedPart(Part(i))] = NewPart(i)
    BY <2>1 DEF RedactedPart
  <2> HIDE DEF Part, NewPart
  <2>6. Children(red)
          = {[step |-> child.step, value |-> RedactedPart(child)] : child \in Children(v)}
    BY <2>3, <2>4, <2>5
  <2> QED
    BY <1>3, <2>2, <2>6
<1>4. CASE v.type = "object"
  <2>1. \A k : isSensitiveStep([key |-> k]) <=> isSensitiveKey(k)
    BY DEF isSensitiveStep
  <2>2. red.type = "object" /\ red.fields = [k \in DOMAIN v.fields |->
                                               Redacted(k, redactSensitiveData[v.fields[k]])]
    BY <1>1, <1>4 DEF Redact, Object
  <2> DEFINE Part(k)    == [step |-> [key |-> k], value |-> v.fields[k]]
             NewPart(k) == [step  |-> [key |-> k],
                            value |-> Redacted(k, redactSensitiveData[v.fields[k]])]
  <2>3. Children(red) = {NewPart(k) : k \in DOMAIN v.fields}
    BY <2>2 DEF Children
  <2>4. Children(v) = {Part(k) : k \in DOMAIN v.fields}
    BY <1>4 DEF Children
  <2>5. \A k : [step |-> Part(k).step, value |-> RedactedPart(Part(k))] = NewPart(k)
    BY <2>1 DEF RedactedPart, Redacted
  <2> HIDE DEF Part, NewPart
  <2>6. Children(red)
          = {[step |-> child.step, value |-> RedactedPart(child)] : child \in Children(v)}
    BY <2>3, <2>4, <2>5
  <2> QED
    BY <1>4, <2>2, <2>6
<1> QED
  BY <1>2, <1>3, <1>4, JsonAssumption

\* REDACTED_VALUE is one leaf.
LEMMA RedactedLeaf ==
  REDACTED_VALUE \in Values =>
    Leaves[REDACTED_VALUE] = {[path |-> << >>, value |-> "[REDACTED]"]}
<1>1. Children(REDACTED_VALUE) = {}
  BY DEF Children, REDACTED_VALUE, Scalar
<1> QED
  BY <1>1, LeafItself DEF REDACTED_VALUE, Scalar

\* Redaction cuts the leaves of a value, and does nothing else.
THEOREM RedactionCuts ==
  \A v \in Values : Leaves[redactSensitiveData[v]] = {Cut(leaf) : leaf \in Leaves[v]}
<1> DEFINE Fine(v) == Leaves[redactSensitiveData[v]] = {Cut(leaf) : leaf \in Leaves[v]}
           T == {v \in Values : ~Fine(v)}
<1>1. SUFFICES ASSUME T # {} PROVE FALSE
  OBVIOUS
<1>2. PICK v \in T : \A c \in Parts(v) : c \notin T
  BY <1>1, Smallest
<1>3. PICK red \in Values : red = redactSensitiveData[v]
  BY <1>2, JsonAssumption
<1>4. /\ Children(red) = {[step |-> child.step, value |-> RedactedPart(child)] : child \in Children(v)}
      /\ v.type = "scalar" => red = v
      /\ red.type = v.type
  BY <1>2, <1>3, RedactedChildren
<1>5. CASE Children(v) = {}
  <2>1. PICK value : Leaves[v] = {[path |-> << >>, value |-> value]}
    BY <1>2, <1>5, LeafItself
  <2>2. Leaves[red] = Leaves[v]
    <3>1. CASE v.type = "scalar"
      BY <1>4, <3>1
    <3>2. CASE v.type # "scalar"
      <4>1. Leaves[red] = {[path |-> << >>, value |-> red.type]}
        BY <1>4, <1>5, <3>2, LeafItself
      <4>2. Leaves[v] = {[path |-> << >>, value |-> v.type]}
        BY <1>2, <1>5, <3>2, LeafItself
      <4> QED
        BY <1>4, <4>1, <4>2
    <3> QED
      BY <3>1, <3>2
  <2>3. Sensitive(<< >>) = {}
    BY DEF Sensitive
  <2>4. Cut([path |-> << >>, value |-> value]) = [path |-> << >>, value |-> value]
    BY <2>3, CutNowhere
  <2> QED
    BY <1>2, <1>3, <2>1, <2>2, <2>4
<1>6. CASE Children(v) # {}
  <2>1. ASSUME NEW child \in Children(v)
        PROVE  /\ child.step \in Steps /\ child.value \in Values
               /\ Leaves[child.value] # {} /\ \A leaf \in Leaves[child.value] : IsLeaf(leaf)
               /\ {Prefixed(child.step, below) : below \in Leaves[RedactedPart(child)]}
                    = {Cut(Prefixed(child.step, below)) : below \in Leaves[child.value]}
    <3>1. child.value \in Parts(v) /\ child.step \in Steps
      BY <1>2 DEF Parts, Steps
    <3>2. child.value \in Values /\ Fine(child.value)
      BY <1>2, <3>1, PartsAreSmaller
    <3>3. Leaves[child.value] # {} /\ \A leaf \in Leaves[child.value] : IsLeaf(leaf)
      BY <3>2, LeavesAreLeaves
    <3>4. CASE isSensitiveStep(child.step)
      <4>1. [step |-> child.step, value |-> RedactedPart(child)] \in Children(red)
        BY <1>4
      <4>2. RedactedPart(child) = REDACTED_VALUE /\ REDACTED_VALUE \in Values
        BY <3>4, <4>1, JsonAssumption DEF RedactedPart
      <4>3. <<child.step>> \o << >> = <<child.step>>
        OBVIOUS
      <4>4. Prefixed(child.step, [path |-> << >>, value |-> "[REDACTED]"])
              = [path |-> <<child.step>>, value |-> "[REDACTED]"]
        BY <4>3 DEF Prefixed
      <4>5. Leaves[RedactedPart(child)] = {[path |-> << >>, value |-> "[REDACTED]"]}
        BY <4>2, RedactedLeaf
      <4>6. {Prefixed(child.step, below) : below \in Leaves[RedactedPart(child)]}
              = {[path |-> <<child.step>>, value |-> "[REDACTED]"]}
        BY <4>4, <4>5
      <4>7. \A below \in Leaves[child.value] :
              Cut(Prefixed(child.step, below)) = [path |-> <<child.step>>, value |-> "[REDACTED]"]
        BY <3>1, <3>3, <3>4, CutBelow
      <4> QED
        BY <3>1, <3>2, <3>3, <4>6, <4>7
    <3>5. CASE ~isSensitiveStep(child.step)
      <4>1. Leaves[RedactedPart(child)] = {Cut(leaf) : leaf \in Leaves[child.value]}
        BY <3>2, <3>5 DEF RedactedPart
      <4>2. \A below \in Leaves[child.value] :
              Cut(Prefixed(child.step, below)) = Prefixed(child.step, Cut(below))
        BY <3>1, <3>3, <3>5, CutBelow
      <4> QED
        BY <3>1, <3>2, <3>3, <4>1, <4>2
    <3> QED
      BY <3>4, <3>5
  <2>2. Children(red) # {}
    BY <1>4, <1>6
  <2> DEFINE NewPart(child) == [step |-> child.step, value |-> RedactedPart(child)]
             NewLeaves(child) ==
               {Prefixed(child.step, below) : below \in Leaves[RedactedPart(child)]}
             CutLeaves(child) ==
               {Cut(Prefixed(child.step, below)) : below \in Leaves[child.value]}
  <2>3. \A leaf : leaf \in Leaves[red] <=> \E child \in Children(v) : leaf \in NewLeaves(child)
    <3> DEFINE Under(leaf, part) ==
                 \E below \in Leaves[part.value] : leaf = Prefixed(part.step, below)
    <3>1. \A leaf : leaf \in Leaves[red] <=> \E part \in Children(red) : Under(leaf, part)
      BY <2>2, LeavesBelow
    <3>2. Children(red) = {NewPart(child) : child \in Children(v)}
      BY <1>4
    <3>3. \A leaf, child : leaf \in NewLeaves(child) <=> Under(leaf, NewPart(child))
      OBVIOUS
    <3> HIDE DEF NewPart, NewLeaves, Under
    <3> QED
      BY <3>1, <3>2, <3>3
  <2>4. \A leaf : leaf \in {Cut(l) : l \in Leaves[v]} <=>
          \E child \in Children(v) : leaf \in CutLeaves(child)
    BY <1>2, <1>6, LeavesBelow
  <2>5. \A child \in Children(v) : NewLeaves(child) = CutLeaves(child)
    BY <2>1
  <2> HIDE DEF NewLeaves, CutLeaves
  <2>6. \A leaf : leaf \in Leaves[red] <=> leaf \in {Cut(l) : l \in Leaves[v]}
    BY <2>3, <2>4, <2>5
  <2> QED
    BY <1>2, <1>3, <2>6
<1> QED
  BY <1>5, <1>6

-----------------------------------------------------------------------------
(* Live events: the inductive invariant. *)

\* What is searchable is what became of an event of the topic that follows the
\* contract; a dead letter has an event with redacted attributes, or no event.
FromTopic ==
  /\ \A event \in indexed :
       /\ event.eventId \in Parsed
       /\ FollowsContract(raw[event.eventId])
       /\ event = Processed(raw[event.eventId])
  /\ \A letter \in deadLetters :
       letter.payload # UNPARSEABLE =>
         \E i \in Parsed : letter = Letter(RedactedAttributes(raw[i]), FALSE)

\* A connection holds the end of what was published.
ConnectionsInStep ==
  \A a \in Replicas :
    /\ Len(inbox[a]) <= Len(published)
    /\ \A k \in DOMAIN inbox[a] : inbox[a][k] = published[Behind(a) + k]

\* Before a subscription is open it has got nothing.
NothingReceivedYet ==
  \A s \in Subscriptions : At(s, "checking") \/ At(s, "granted") => sub[s].received = << >>

\* A stream without gaps is on a connected replica, and exact.
Streaming(s) ==
  /\ sub[s].replica \in online
  /\ sub[s].from <= Behind(sub[s].replica)
  /\ \E stream \in [DOMAIN sub[s].received -> Due(s)] : IsStream(stream, s)
IntactStreams ==
  \A s \in Subscriptions : At(s, "open") /\ sub[s].intact => Streaming(s)

LiveInv ==
  LiveTypeOK /\ FromTopic /\ ConnectionsInStep /\ NothingReceivedYet /\ IntactStreams

-----------------------------------------------------------------------------
(* Events. *)

\* A record that parses is a raw event, under its id.
LEMMA ParsedEvents ==
  ASSUME LiveTypeOK, NEW i \in Parsed
  PROVE  i \in Ids /\ raw[i] \in RawEvents /\ raw[i].eventId = i
BY InputsAssumption DEF LiveTypeOK, Parsed

\* Processing keeps the id, the project and the message, and redacts the attributes.
LEMMA ProcessedFields ==
  ASSUME NEW event \in RawEvents
  PROVE  /\ Processed(event).eventId = event.eventId
         /\ Processed(event).projectId = event.projectId
         /\ Processed(event).message = event.message
         /\ Processed(event).attributes = IF event.attributes = Absent THEN Absent
                                           ELSE redactSensitiveData[event.attributes]
BY DEF RawEvents, Processed, RedactedAttributes, normalizeLogEvent

\* So does dead-lettering.
LEMMA DeadLetterFields ==
  ASSUME NEW event \in RawEvents
  PROVE  /\ RedactedAttributes(event).eventId = event.eventId
         /\ RedactedAttributes(event).message = event.message
         /\ RedactedAttributes(event).attributes = IF event.attributes = Absent THEN Absent
                                                    ELSE redactSensitiveData[event.attributes]
BY DEF RawEvents, RedactedAttributes

\* What passed the first validation passes the second one unless its service or its
\* environment was trimmed to nothing, or its environment outgrew the limit.
LEMMA SecondValidation ==
  ASSUME NEW event \in RawEvents, FollowsContract(event)
  PROVE  FollowsContract(Processed(event))
           <=> /\ event.service.core # "" /\ event.environment.core # ""
               /\ event.environment.size # "grows"
<1>1. /\ Processed(event).service = Trim(event.service)
      /\ Processed(event).environment = LowerCase(Trim(event.environment))
      /\ Processed(event).message = event.message
  BY DEF RawEvents, Processed, RedactedAttributes, normalizeLogEvent
<1>2. ASSUME NEW text \in Texts, text.size # "long"
      PROVE  /\ Admits(Trim(text)) <=> text.core # ""
             /\ Admits(LowerCase(Trim(text))) <=> text.core # "" /\ text.size # "grows"
  BY <1>2 DEF Texts, Sizes, Admits, IsEmpty, Trim, LowerCase
<1>3. /\ event.service \in Texts /\ event.service.size # "long"
      /\ event.environment \in Texts /\ event.environment.size # "long"
      /\ Admits(event.message)
  BY DEF RawEvents, FollowsContract, Admits
<1>4. CASE event.attributes = Absent
  <2>1. Processed(event).attributes = Absent
    BY <1>4, ProcessedFields
  <2> QED
    BY <1>1, <1>2, <1>3, <2>1 DEF FollowsContract
<1>5. CASE event.attributes # Absent
  <2>1. event.attributes \in Values /\ event.attributes.type = "object"
    BY <1>5 DEF RawEvents, FollowsContract
  <2>2. PICK red \in Values : red = redactSensitiveData[event.attributes]
    BY <2>1, JsonAssumption
  <2>3. red.type = "object"
    BY <2>1, <2>2, RedactedChildren
  <2>4. Processed(event).attributes = red
    BY <1>5, <2>2, ProcessedFields
  <2> QED
    BY <1>1, <1>2, <1>3, <2>3, <2>4 DEF FollowsContract
<1> QED
  BY <1>4, <1>5

\* A replica drops an event exactly if it was white space only or outgrew the limit.
LEMMA DroppedExactly ==
  ASSUME LiveTypeOK, FromTopic, NEW event \in indexed
  PROVE  FollowsContract(event) <=> ~Dropped(event)
<1>1. /\ event.eventId \in Parsed
      /\ FollowsContract(raw[event.eventId])
      /\ event = Processed(raw[event.eventId])
  BY DEF FromTopic
<1>2. raw[event.eventId] \in RawEvents
  BY <1>1, ParsedEvents
<1> QED
  BY <1>1, <1>2, SecondValidation DEF Dropped, OnlyWhiteSpace, Outgrown

-----------------------------------------------------------------------------
(* Streams. *)

\* What the type invariant says of lengths and of subscriptions.
LEMMA Lengths ==
  ASSUME LiveTypeOK
  PROVE  /\ Len(published) \in Nat /\ DOMAIN published = 1 .. Len(published)
         /\ \A n \in 1 .. Len(published) : published[n] \in indexed
         /\ \A a \in Replicas : /\ Len(inbox[a]) \in Nat
                                /\ DOMAIN inbox[a] = 1 .. Len(inbox[a])
                                /\ Behind(a) \in Int
<1>1. \A seq \in Seq(indexed) : /\ Len(seq) \in Nat /\ DOMAIN seq = 1 .. Len(seq)
                                /\ \A n \in 1 .. Len(seq) : seq[n] \in indexed
  OBVIOUS
<1>2. published \in Seq(indexed) /\ \A a \in Replicas : inbox[a] \in Seq(indexed)
  BY DEF LiveTypeOK
<1> QED
  BY <1>1, <1>2 DEF Behind

\* A subscription that was made has all its fields.
LEMMA Subscribed ==
  ASSUME LiveTypeOK, NEW s \in Subscriptions, sub[s].pc # "none"
  PROVE  sub[s] \in LiveSubscriptions
BY DEF LiveTypeOK, NoSubscription

\* A stream goes on unharmed if the subscription is left alone and its replica
\* neither forwards anything nor loses its connection.
LEMMA StreamKept ==
  ASSUME LiveTypeOK, ConnectionsInStep, raw' = raw, NEW s \in Subscriptions,
         sub[s] \in LiveSubscriptions, Streaming(s), sub'[s] = sub[s],
         sub[s].replica \in online', Behind(sub[s].replica)' = Behind(sub[s].replica),
         \A n \in 1 .. Len(published) : published'[n] = published[n]
  PROVE  Streaming(s)'
<1>1. PICK a \in Replicas : a = sub[s].replica
  BY DEF LiveSubscriptions
<1>2. Behind(a) \in Int /\ Behind(a) <= Len(published) /\ sub[s].from \in Nat
  BY <1>1, Lengths DEF Behind, LiveSubscriptions
<1>3. \A n \in sub[s].from + 1 .. Behind(a) :
        n \in 1 .. Len(published) /\ published'[n] = published[n]
  BY <1>2, Lengths
<1>4. Behind(sub[s].replica)' = Behind(a)
  BY <1>1
<1>5. Due(s)' = Due(s)
  BY <1>1, <1>3, <1>4 DEF Due, Dropped, OnlyWhiteSpace, Outgrown
<1>6. PICK stream \in [DOMAIN sub[s].received -> Due(s)] : IsStream(stream, s)
  BY DEF Streaming
<1>7. \A j \in DOMAIN sub[s].received : published'[stream[j]] = published[stream[j]]
  BY <1>1, <1>3, <1>6 DEF Due
<1>8. IsStream(stream, s)'
  BY <1>5, <1>6, <1>7 DEF IsStream
<1>9. stream \in [DOMAIN sub'[s].received -> Due(s)']
  BY <1>5, <1>6
<1>10. (sub[s].replica \in online /\ sub[s].from <= Behind(sub[s].replica))'
  BY <1>1, <1>4 DEF Streaming
<1> QED
  BY <1>8, <1>9, <1>10 DEF Streaming

\* A step that touches neither the channel nor the subscriptions leaves all streams
\* as they are.
LEMMA StreamsUntouched ==
  ASSUME LiveInv, UNCHANGED <<raw, published, inbox, sub>>, online \subseteq online'
  PROVE  ConnectionsInStep' /\ NothingReceivedYet' /\ IntactStreams'
<1>1. LiveTypeOK /\ ConnectionsInStep
  BY DEF LiveInv
<1>2. ConnectionsInStep' /\ NothingReceivedYet'
  BY DEF LiveInv, ConnectionsInStep, Behind, NothingReceivedYet, At
<1>3. ASSUME NEW s \in Subscriptions, At(s, "open"), sub[s].intact
      PROVE  Streaming(s)'
  <2>1. Streaming(s) /\ sub[s].replica \in online
    BY <1>3 DEF LiveInv, IntactStreams, Streaming
  <2>2. sub[s] \in LiveSubscriptions
    BY <1>1, <1>3, Subscribed DEF At
  <2>3. Behind(sub[s].replica)' = Behind(sub[s].replica)
    BY DEF Behind
  <2> QED
    BY <1>1, <2>1, <2>2, <2>3, StreamKept
<1>4. IntactStreams'
  BY <1>3 DEF IntactStreams, At
<1> QED
  BY <1>2, <1>4

-----------------------------------------------------------------------------
(* The steps of the pipeline. *)

\* A larger index changes no type.
LEMMA IndexGrows ==
  ASSUME LiveTypeOK, indexed \subseteq indexed'
  PROVE  /\ \A seq \in Seq(indexed) : seq \in Seq(indexed')
         /\ \A x \in LiveSubscriptions : x \in LiveSubscriptions'
<1>1. \A seq \in Seq(indexed) : seq \in Seq(indexed')
  BY SeqMonotonic
<1> QED
  BY <1>1 DEF LiveSubscriptions

\* Index preserves the invariant.
LEMMA IndexInd ==
  ASSUME LiveInv, NEW i \in Ids, Index(i)
  PROVE  LiveInv'
<1>1. LiveTypeOK /\ FromTopic /\ ConnectionsInStep
  BY DEF LiveInv
<1>2. /\ indexed' = indexed \cup {Processed(raw[i])} /\ FollowsContract(raw[i])
      /\ i \in Parsed /\ Parsed' = Parsed
      /\ UNCHANGED <<raw, deadLetters, published, online, inbox, members, sub>>
  BY DEF Index, Parsed
<1>3. LiveTypeOK'
  <2>1. \A seq \in Seq(indexed) : seq \in Seq(indexed')
    BY <1>1, <1>2, IndexGrows
  <2>2. \A x \in LiveSubscriptions : x \in LiveSubscriptions'
    BY <1>1, <1>2, IndexGrows
  <2>3. sub' \in [Subscriptions -> {NoSubscription} \cup LiveSubscriptions']
    BY <1>1, <1>2, <2>2 DEF LiveTypeOK
  <2>4. indexed' \subseteq {Processed(raw'[j]) : j \in Parsed'}
    BY <1>1, <1>2 DEF LiveTypeOK, Parsed
  <2> QED
    BY <1>1, <1>2, <2>1, <2>3, <2>4 DEF LiveTypeOK
<1>4. FromTopic'
  <2>1. raw[i] \in RawEvents /\ raw[i].eventId = i
    BY <1>1, <1>2, ParsedEvents
  <2>2. Processed(raw[i]).eventId = i
    BY <2>1, ProcessedFields
  <2> QED
    BY <1>1, <1>2, <2>2 DEF FromTopic
<1>5. ConnectionsInStep' /\ NothingReceivedYet' /\ IntactStreams'
  BY <1>2, StreamsUntouched
<1> QED
  BY <1>3, <1>4, <1>5 DEF LiveInv

\* A dead letter preserves the invariant.
LEMMA DeadLetterInd ==
  ASSUME LiveInv, NEW i \in Ids, DeadLetter(i) \/ DeadLetterUnparsed(i)
  PROVE  LiveInv'
<1>1. /\ UNCHANGED <<raw, indexed, published, online, inbox, members, sub>>
      /\ Parsed' = Parsed
  BY DEF DeadLetter, DeadLetterUnparsed, Parsed
<1>2. PICK letter :
        /\ deadLetters' = deadLetters \cup {letter}
        /\ letter.payload # UNPARSEABLE =>
             i \in Parsed /\ letter = Letter(RedactedAttributes(raw[i]), FALSE)
  <2>1. CASE DeadLetter(i)
    BY <2>1 DEF DeadLetter
  <2>2. CASE DeadLetterUnparsed(i)
    <3>1. PICK quotes \in BOOLEAN : deadLetters' = deadLetters \cup {Letter(UNPARSEABLE, quotes)}
      BY <2>2 DEF DeadLetterUnparsed
    <3>2. Letter(UNPARSEABLE, quotes).payload = UNPARSEABLE
      BY DEF Letter
    <3> QED
      BY <3>1, <3>2
  <2> QED
    BY <2>1, <2>2
<1>3. LiveTypeOK'
  BY <1>1 DEF LiveInv, LiveTypeOK, LiveSubscriptions
<1>4. FromTopic'
  BY <1>1, <1>2 DEF LiveInv, FromTopic
<1>5. ConnectionsInStep' /\ NothingReceivedYet' /\ IntactStreams'
  BY <1>1, StreamsUntouched
<1> QED
  BY <1>3, <1>4, <1>5 DEF LiveInv

\* Publish preserves the invariant: a replica that is connected has the event on
\* its connection, so nobody's stream is behind because of it.
LEMMA PublishInd ==
  ASSUME LiveInv, NEW i \in Ids, Publish(i)
  PROVE  LiveInv'
<1>1. LiveTypeOK /\ FromTopic /\ ConnectionsInStep
  BY DEF LiveInv
<1>2. PICK event \in indexed :
        /\ published' = Append(published, event)
        /\ inbox' = [a \in Replicas |-> IF a \in online THEN Append(inbox[a], event) ELSE inbox[a]]
  BY DEF Publish, Searchable
<1>3. UNCHANGED <<raw, indexed, deadLetters, online, members, sub>>
  BY DEF Publish
<1>4. published \in Seq(indexed) /\ \A a \in Replicas : inbox[a] \in Seq(indexed)
  BY <1>1 DEF LiveTypeOK
<1>5. /\ published' \in Seq(indexed) /\ Len(published') = Len(published) + 1
      /\ \A n \in 1 .. Len(published) : published'[n] = published[n]
      /\ published'[Len(published) + 1] = event
  BY <1>2, <1>4, AppendProperties
<1>6. ASSUME NEW a \in Replicas, a \in online
      PROVE  /\ inbox'[a] \in Seq(indexed) /\ Len(inbox'[a]) = Len(inbox[a]) + 1
             /\ \A k \in 1 .. Len(inbox[a]) : inbox'[a][k] = inbox[a][k]
             /\ inbox'[a][Len(inbox[a]) + 1] = event
  <2>1. inbox'[a] = Append(inbox[a], event)
    BY <1>2, <1>6
  <2> QED
    BY <1>4, <2>1, AppendProperties
<1>7. \A a \in Replicas : a \notin online => inbox'[a] = << >> /\ inbox[a] = << >>
  BY <1>1, <1>2 DEF LiveTypeOK
<1>8. LiveTypeOK'
  <2>1. inbox' \in [Replicas -> Seq(indexed)]
    <3>1. \A a \in Replicas : inbox'[a] \in Seq(indexed)
      BY <1>4, <1>6, <1>7
    <3> QED
      BY <1>2, <3>1
  <2>2. LiveSubscriptions' = LiveSubscriptions
    BY <1>3 DEF LiveSubscriptions
  <2> QED
    BY <1>1, <1>3, <1>5, <1>7, <2>1, <2>2 DEF LiveTypeOK, Parsed
<1>9. FromTopic'
  BY <1>1, <1>3 DEF FromTopic, Parsed
<1>10. ASSUME NEW a \in Replicas, a \in online
       PROVE  /\ Behind(a)' = Behind(a) /\ Len(inbox'[a]) <= Len(published')
              /\ \A k \in DOMAIN inbox'[a] : inbox'[a][k] = published'[Behind(a)' + k]
  <2>1. Len(inbox[a]) \in Nat /\ Len(published) \in Nat /\ DOMAIN inbox[a] = 1 .. Len(inbox[a])
    BY <1>1, Lengths
  <2>2. /\ Len(inbox[a]) <= Len(published)
        /\ \A k \in DOMAIN inbox[a] : inbox[a][k] = published[Behind(a) + k]
    BY <1>1 DEF ConnectionsInStep
  <2>3. Len(inbox'[a]) = Len(inbox[a]) + 1 /\ Len(published') = Len(published) + 1
    BY <1>5, <1>6, <1>10
  <2>4. Behind(a)' = Behind(a) /\ Behind(a) = Len(published) - Len(inbox[a])
    BY <2>1, <2>3 DEF Behind
  <2>5. DOMAIN inbox'[a] = 1 .. Len(inbox[a]) + 1
    BY <1>6, <1>10
  <2>6. ASSUME NEW k \in 1 .. Len(inbox[a]) + 1
        PROVE  inbox'[a][k] = published'[Behind(a) + k]
    <3>1. CASE k = Len(inbox[a]) + 1
      BY <1>5, <1>6, <1>10, <2>1, <2>4, <3>1
    <3>2. CASE k # Len(inbox[a]) + 1
      <4>1. k \in 1 .. Len(inbox[a]) /\ Behind(a) + k \in 1 .. Len(published)
        BY <2>1, <2>2, <2>4, <3>2
      <4> QED
        BY <1>5, <1>6, <1>10, <2>1, <2>2, <4>1
    <3> QED
      BY <3>1, <3>2
  <2>7. \A k \in DOMAIN inbox'[a] : inbox'[a][k] = published'[Behind(a) + k]
    BY <2>5, <2>6, Zenon
  <2>8. \A k \in DOMAIN inbox'[a] : inbox'[a][k] = published'[Behind(a)' + k]
    BY <2>4, <2>7, Zenon
  <2>9. Len(inbox'[a]) <= Len(published')
    BY <2>1, <2>2, <2>3
  <2> QED
    BY <2>4, <2>8, <2>9
<1>11. ConnectionsInStep'
  <2> SUFFICES ASSUME NEW a \in Replicas
               PROVE  (/\ Len(inbox[a]) <= Len(published)
                       /\ \A k \in DOMAIN inbox[a] : inbox[a][k] = published[Behind(a) + k])'
    BY DEF ConnectionsInStep
  <2>1. CASE a \in online
    BY <1>10, <2>1
  <2>2. CASE a \notin online
    BY <1>4, <1>5, <1>7, <2>2
  <2> QED
    BY <2>1, <2>2
<1>12. NothingReceivedYet'
  BY <1>3 DEF LiveInv, NothingReceivedYet, At
<1>13. IntactStreams'
  <2> SUFFICES ASSUME NEW s \in Subscriptions, At(s, "open"), sub[s].intact
               PROVE  Streaming(s)'
    BY <1>3 DEF IntactStreams, At
  <2>1. Streaming(s) /\ sub[s].replica \in online
    BY DEF LiveInv, IntactStreams, Streaming
  <2>2. sub[s] \in LiveSubscriptions
    BY <1>1, Subscribed DEF At
  <2>3. sub[s].replica \in Replicas
    BY <2>2 DEF LiveSubscriptions
  <2>4. Behind(sub[s].replica)' = Behind(sub[s].replica)
    BY <1>3, <1>10, <2>1, <2>3
  <2> QED
    BY <1>1, <1>3, <1>5, <2>1, <2>2, <2>4, StreamKept
<1> QED
  BY <1>8, <1>9, <1>11, <1>12, <1>13 DEF LiveInv

-----------------------------------------------------------------------------
(* The steps of a replica. *)

\* Connect preserves the invariant.
LEMMA ConnectInd ==
  ASSUME LiveInv, NEW a \in Replicas, Connect(a)
  PROVE  LiveInv'
<1>1. UNCHANGED <<pipeline, inbox, members, sub>> /\ online' = online \cup {a}
  BY DEF Connect
<1>2. LiveTypeOK' /\ FromTopic'
  BY <1>1 DEF LiveInv, LiveTypeOK, LiveSubscriptions, FromTopic, Parsed, pipeline
<1>3. ConnectionsInStep' /\ NothingReceivedYet' /\ IntactStreams'
  BY <1>1, StreamsUntouched DEF pipeline
<1> QED
  BY <1>2, <1>3 DEF LiveInv

\* A replica that loses its connection, or stops, takes the messages on it along:
\* the streams of its subscriptions end there, or are no longer intact.
LEMMA ConnectionLost ==
  ASSUME LiveInv, NEW a \in Replicas, UNCHANGED <<pipeline, members>>,
         online' = online \ {a}, inbox' = [inbox EXCEPT ![a] = << >>],
         sub' \in [Subscriptions -> {NoSubscription} \cup LiveSubscriptions],
         \A s \in Subscriptions :
           \/ s \notin On(a) /\ sub'[s] = sub[s]
           \/ /\ s \in On(a)
              /\ sub'[s].received = sub[s].received
              /\ sub'[s].pc = "closed" \/ (sub'[s].pc = sub[s].pc /\ ~sub'[s].intact)
  PROVE  LiveInv'
<1>1. LiveTypeOK /\ ConnectionsInStep
  BY DEF LiveInv
<1>2. inbox'[a] = << >> /\ \A b \in Replicas : b # a => inbox'[b] = inbox[b]
  BY <1>1 DEF LiveTypeOK
<1>3. LiveTypeOK'
  <2>1. inbox' \in [Replicas -> Seq(indexed)]
    BY <1>1 DEF LiveTypeOK
  <2>2. LiveSubscriptions' = LiveSubscriptions
    BY DEF LiveSubscriptions, pipeline
  <2>3. \A b \in Replicas : inbox'[b] # << >> => b \in online'
    BY <1>1, <1>2 DEF LiveTypeOK
  <2> QED
    BY <1>1, <2>1, <2>2, <2>3 DEF LiveTypeOK, pipeline, Parsed
<1>4. FromTopic'
  BY DEF LiveInv, FromTopic, pipeline, Parsed
<1>5. ConnectionsInStep'
  <2> SUFFICES ASSUME NEW b \in Replicas
               PROVE  (/\ Len(inbox[b]) <= Len(published)
                       /\ \A k \in DOMAIN inbox[b] : inbox[b][k] = published[Behind(b) + k])'
    BY DEF ConnectionsInStep
  <2>1. CASE b = a
    BY <1>1, <1>2, <2>1, Lengths DEF pipeline
  <2>2. CASE b # a
    BY <1>1, <1>2, <2>2 DEF ConnectionsInStep, Behind, pipeline
  <2> QED
    BY <2>1, <2>2
<1>6. NothingReceivedYet'
  BY DEF LiveInv, NothingReceivedYet, At
<1>7. IntactStreams'
  <2> SUFFICES ASSUME NEW s \in Subscriptions, At(s, "open")', sub'[s].intact
               PROVE  Streaming(s)'
    BY DEF IntactStreams
  <2>1. s \notin On(a) /\ sub'[s] = sub[s]
    BY DEF At
  <2>2. sub[s].pc = "open" /\ sub[s].intact
    BY <2>1 DEF At
  <2>3. sub[s] \in LiveSubscriptions /\ sub[s] # NoSubscription
    BY <1>1, <2>2, Subscribed DEF NoSubscription
  <2>4. sub[s].replica \in Replicas /\ sub[s].replica # a
    BY <2>1, <2>3 DEF On, LiveSubscriptions
  <2>5. Streaming(s) /\ sub[s].replica \in online
    BY <2>2 DEF LiveInv, IntactStreams, Streaming, At
  <2>6. Behind(sub[s].replica)' = Behind(sub[s].replica)
    BY <1>2, <2>1, <2>4 DEF Behind, pipeline
  <2>7. raw' = raw /\ published' = published
    BY DEF pipeline
  <2>8. sub[s].replica \in online'
    BY <2>4, <2>5
  <2> QED
    BY <1>1, <2>1, <2>3, <2>5, <2>6, <2>7, <2>8, StreamKept
<1> QED
  BY <1>3, <1>4, <1>5, <1>6, <1>7 DEF LiveInv

\* Disconnect preserves the invariant.
LEMMA DisconnectInd ==
  ASSUME LiveInv, NEW a \in Replicas, Disconnect(a)
  PROVE  LiveInv'
<1>1. /\ UNCHANGED <<pipeline, members>> /\ online' = online \ {a}
      /\ inbox' = [inbox EXCEPT ![a] = << >>]
      /\ sub' = [s \in Subscriptions |->
                   IF s \in On(a) THEN [sub[s] EXCEPT !.intact = FALSE] ELSE sub[s]]
  BY DEF Disconnect
<1>2. ASSUME NEW s \in Subscriptions, s \in On(a)
      PROVE  /\ sub'[s] \in LiveSubscriptions /\ sub'[s].received = sub[s].received
             /\ sub'[s].pc = sub[s].pc /\ ~sub'[s].intact
  <2>1. sub[s] \in LiveSubscriptions
    BY <1>2 DEF LiveInv, LiveTypeOK, On
  <2>2. sub'[s] = [sub[s] EXCEPT !.intact = FALSE]
    BY <1>1, <1>2
  <2> QED
    BY <2>1, <2>2 DEF LiveSubscriptions
<1>3. \A s \in Subscriptions : s \notin On(a) => sub'[s] = sub[s]
  BY <1>1
<1>4. sub' \in [Subscriptions -> {NoSubscription} \cup LiveSubscriptions]
  BY <1>1, <1>2, <1>3 DEF LiveInv, LiveTypeOK
<1>5. \A s \in Subscriptions :
        \/ s \notin On(a) /\ sub'[s] = sub[s]
        \/ /\ s \in On(a)
           /\ sub'[s].received = sub[s].received
           /\ sub'[s].pc = "closed" \/ (sub'[s].pc = sub[s].pc /\ ~sub'[s].intact)
  BY <1>2, <1>3
<1> QED
  BY <1>1, <1>4, <1>5, ConnectionLost

\* Stop preserves the invariant.
LEMMA StopInd ==
  ASSUME LiveInv, NEW a \in Replicas, Stop(a)
  PROVE  LiveInv'
<1>1. /\ UNCHANGED <<pipeline, members>> /\ online' = online \ {a}
      /\ inbox' = [inbox EXCEPT ![a] = << >>]
      /\ sub' = [s \in Subscriptions |->
                   IF s \in On(a) THEN [sub[s] EXCEPT !.pc = "closed"] ELSE sub[s]]
  BY DEF Stop
<1>2. ASSUME NEW s \in Subscriptions, s \in On(a)
      PROVE  /\ sub'[s] \in LiveSubscriptions /\ sub'[s].received = sub[s].received
             /\ sub'[s].pc = "closed"
  <2>1. sub[s] \in LiveSubscriptions
    BY <1>2 DEF LiveInv, LiveTypeOK, On
  <2>2. sub'[s] = [sub[s] EXCEPT !.pc = "closed"]
    BY <1>1, <1>2
  <2> QED
    BY <2>1, <2>2 DEF LiveSubscriptions
<1>3. \A s \in Subscriptions : s \notin On(a) => sub'[s] = sub[s]
  BY <1>1
<1>4. sub' \in [Subscriptions -> {NoSubscription} \cup LiveSubscriptions]
  BY <1>1, <1>2, <1>3 DEF LiveInv, LiveTypeOK
<1>5. \A s \in Subscriptions :
        \/ s \notin On(a) /\ sub'[s] = sub[s]
        \/ /\ s \in On(a)
           /\ sub'[s].received = sub[s].received
           /\ sub'[s].pc = "closed" \/ (sub'[s].pc = sub[s].pc /\ ~sub'[s].intact)
  BY <1>2, <1>3
<1> QED
  BY <1>1, <1>4, <1>5, ConnectionLost

\* When a replica forwards one more event, what is due to its subscriptions grows by
\* that event or not at all.
LEMMA DueGrows ==
  ASSUME LiveTypeOK, NEW s \in Subscriptions, sub[s] \in LiveSubscriptions, Streaming(s),
         UNCHANGED <<raw, published>>, NEW n \in 1 .. Len(published),
         n = Behind(sub[s].replica) + 1, Behind(sub[s].replica)' = n,
         sub'[s].from = sub[s].from, sub'[s].project = sub[s].project,
         sub'[s].replica = sub[s].replica
  PROVE  /\ \A m \in Due(s) : m \in Int /\ m < n
         /\ Due(s)' = IF published[n].projectId = sub[s].project /\ ~Dropped(published[n])
                        THEN Due(s) \cup {n} ELSE Due(s)
         /\ (sub[s].from <= Behind(sub[s].replica))'
<1> DEFINE Wanted(m) == published[m].projectId = sub[s].project /\ ~Dropped(published[m])
<1>1. Behind(sub[s].replica) \in Int /\ sub[s].from \in Nat /\ n \in Nat
  BY Lengths DEF LiveSubscriptions
<1>2. Behind(sub[s].replica) = n - 1 /\ sub[s].from <= n - 1 /\ sub[s].from <= n
  BY <1>1 DEF Streaming
<1>3. Due(s) = {m \in sub[s].from + 1 .. n - 1 : Wanted(m)}
  BY <1>2 DEF Due
<1>4. Due(s)' = {m \in sub[s].from + 1 .. n : Wanted(m)}
  BY DEF Due, Dropped, OnlyWhiteSpace, Outgrown
<1> HIDE DEF Wanted
<1>5. \A m : m \in sub[s].from + 1 .. n <=> m \in sub[s].from + 1 .. n - 1 \/ m = n
  BY <1>1, <1>2
<1>6. Due(s)' = IF Wanted(n) THEN Due(s) \cup {n} ELSE Due(s)
  BY <1>3, <1>4, <1>5
<1>7. \A m \in Due(s) : m \in Int /\ m < n
  BY <1>1, <1>3
<1>8. (sub[s].from <= Behind(sub[s].replica))'
  BY <1>2
<1> QED
  BY <1>6, <1>7, <1>8 DEF Wanted

\* A subscription that gets the event its replica forwards, the first after what was
\* forwarded before, has a longer exact stream.
LEMMA StreamExtended ==
  ASSUME LiveTypeOK, NEW s \in Subscriptions, sub[s] \in LiveSubscriptions,
         Streaming(s), UNCHANGED <<published, online>>,
         NEW n \in 1 .. Len(published),
         \A m \in Due(s) : m \in Int /\ m < n, Due(s)' = Due(s) \cup {n},
         (sub[s].from <= Behind(sub[s].replica))',
         sub'[s].replica = sub[s].replica,
         NEW new \in Seq(indexed), new = Append(sub[s].received, published[n]),
         sub'[s].received = new
  PROVE  Streaming(s)'
<1>1. PICK old \in Seq(indexed) : old = sub[s].received
  BY DEF LiveSubscriptions
<1>2. PICK k \in Nat : k = Len(old) /\ DOMAIN old = 1 .. k /\ DOMAIN new = 1 .. k + 1
  <2>1. \A seq \in Seq(indexed) : Len(seq) \in Nat /\ DOMAIN seq = 1 .. Len(seq)
    OBVIOUS
  <2>2. Len(new) = Len(old) + 1
    BY <1>1, AppendProperties, Lengths
  <2> QED
    BY <2>1, <2>2
<1>3. (\A j \in 1 .. k : new[j] = old[j]) /\ new[k + 1] = published[n]
  BY <1>1, <1>2, AppendProperties, Lengths
<1>4. PICK stream \in [1 .. k -> Due(s)] : IsStream(stream, s)
  BY <1>1, <1>2 DEF Streaming
<1> DEFINE longer == [j \in 1 .. k + 1 |-> IF j <= k THEN stream[j] ELSE n]
<1>5. longer \in [1 .. k + 1 -> Due(s)'] /\ DOMAIN longer = 1 .. k + 1
  BY <1>4
<1>6. /\ \A j \in 1 .. k : longer[j] = stream[j] /\ j \in 1 .. k + 1
      /\ longer[k + 1] = n /\ k + 1 \in 1 .. k + 1
      /\ \A j \in 1 .. k + 1 : j = k + 1 \/ j \in 1 .. k
  BY <1>4
<1> HIDE DEF longer
<1>7. {longer[j] : j \in 1 .. k + 1} = Due(s)'
  <2>1. {stream[j] : j \in 1 .. k} = Due(s)
    BY <1>4 DEF IsStream
  <2>2. \A m : m \in Due(s) <=> \E j \in 1 .. k : m = longer[j]
    BY <1>6, <2>1
  <2>3. \A m : (\E j \in 1 .. k + 1 : m = longer[j]) <=> m \in Due(s) \/ m = n
    BY <1>6, <2>2
  <2> QED
    BY <2>3
<1>8. \A i, j \in 1 .. k + 1 : i < j => longer[i] < longer[j]
  <2>1. \A i, j \in 1 .. k : i < j => stream[i] < stream[j]
    BY <1>4 DEF IsStream
  <2>2. \A i \in 1 .. k : stream[i] < n
    BY <1>4
  <2>3. \A i, j \in 1 .. k + 1 : i < j => i \in 1 .. k
    OBVIOUS
  <2> QED
    BY <1>6, <2>1, <2>2, <2>3
<1>9. \A j \in 1 .. k + 1 : new[j] = published[longer[j]]
  <2>1. \A j \in 1 .. k : old[j] = published[stream[j]]
    BY <1>1, <1>4 DEF IsStream
  <2> QED
    BY <1>3, <1>6, <2>1
<1>10. IsStream(longer, s)'
  BY <1>5, <1>7, <1>8, <1>9 DEF IsStream
<1>11. sub'[s].replica \in online'
  BY DEF Streaming
<1> QED
  BY <1>2, <1>5, <1>10, <1>11 DEF Streaming

\* A subscription whose replica forwards an event that is not due to it keeps its stream.
LEMMA StreamSkips ==
  ASSUME NEW s \in Subscriptions, Streaming(s), UNCHANGED <<published, online>>,
         Due(s)' = Due(s), (sub[s].from <= Behind(sub[s].replica))', sub'[s] = sub[s]
  PROVE  Streaming(s)'
<1>1. PICK stream \in [DOMAIN sub[s].received -> Due(s)] : IsStream(stream, s)
  BY DEF Streaming
<1>2. stream \in [DOMAIN sub'[s].received -> Due(s)'] /\ IsStream(stream, s)'
  BY <1>1 DEF IsStream
<1>3. (sub[s].replica \in online)'
  BY DEF Streaming
<1> QED
  BY <1>2, <1>3 DEF Streaming

\* Forward preserves the invariant: the message at hand is the first published one
\* that was not yet forwarded, and it goes to exactly the streams it is due to.
LEMMA ForwardInd ==
  ASSUME LiveInv, NEW a \in Replicas, Forward(a)
  PROVE  LiveInv'
<1>1. LiveTypeOK /\ FromTopic /\ ConnectionsInStep
  BY DEF LiveInv
<1>2. PICK event : event = Head(inbox[a])
  OBVIOUS
<1>3. /\ inbox[a] # << >> /\ inbox[a] \in Seq(indexed)
      /\ inbox' = [inbox EXCEPT ![a] = Tail(@)]
      /\ UNCHANGED <<pipeline, online, members>>
  BY <1>1 DEF Forward, LiveTypeOK
<1>4. sub' = [s \in Subscriptions |->
               IF s \in On(a) /\ At(s, "open") /\ FollowsContract(event) /\ Topic(s, event)
                 THEN [sub[s] EXCEPT !.received = Append(@, event)]
                 ELSE sub[s]]
  BY <1>2 DEF Forward
<1>5. /\ inbox'[a] = Tail(inbox[a]) /\ inbox'[a] \in Seq(indexed)
      /\ Len(inbox'[a]) = Len(inbox[a]) - 1 /\ Len(inbox[a]) \in Nat \ {0}
      /\ \A k \in 1 .. Len(inbox'[a]) : inbox'[a][k] = inbox[a][k + 1]
      /\ event = inbox[a][1] /\ event \in indexed
      /\ DOMAIN inbox'[a] = 1 .. Len(inbox'[a])
  <2>1. inbox'[a] = Tail(inbox[a])
    BY <1>1, <1>3 DEF LiveTypeOK
  <2>2. /\ Tail(inbox[a]) \in Seq(indexed) /\ Len(Tail(inbox[a])) = Len(inbox[a]) - 1
        /\ \A k \in 1 .. Len(Tail(inbox[a])) : Tail(inbox[a])[k] = inbox[a][k + 1]
        /\ Head(inbox[a]) \in indexed
    BY <1>3, HeadTailProperties
  <2>3. Len(inbox[a]) \in Nat \ {0} /\ Head(inbox[a]) = inbox[a][1]
    BY <1>3
  <2>4. \A seq \in Seq(indexed) : DOMAIN seq = 1 .. Len(seq)
    OBVIOUS
  <2> QED
    BY <1>2, <2>1, <2>2, <2>3, <2>4
<1>6. \A b \in Replicas : b # a => inbox'[b] = inbox[b]
  BY <1>1, <1>3 DEF LiveTypeOK
<1>7. PICK n \in 1 .. Len(published) :
        /\ n = Behind(a) + 1 /\ Behind(a)' = n /\ published[n] = event
  <2>1. /\ Len(inbox[a]) <= Len(published) /\ Len(published) \in Nat
        /\ inbox[a][1] = published[Behind(a) + 1]
    BY <1>1, <1>5, Lengths DEF ConnectionsInStep
  <2>2. Behind(a) = Len(published) - Len(inbox[a])
    BY DEF Behind
  <2>3. Behind(a)' = Len(published) - (Len(inbox[a]) - 1)
    BY <1>3, <1>5 DEF Behind, pipeline
  <2>4. /\ Behind(a) + 1 \in 1 .. Len(published) /\ Behind(a)' = Behind(a) + 1
        /\ published[Behind(a) + 1] = event
    BY <1>5, <2>1, <2>2, <2>3
  <2> QED
    BY <2>4
<1>8. ASSUME NEW s \in Subscriptions
      PROVE  \/ sub'[s] = sub[s]
             \/ /\ sub[s] \in LiveSubscriptions /\ sub'[s] \in LiveSubscriptions
                /\ sub[s].pc = "open" /\ sub'[s].pc = "open" /\ sub'[s].intact = sub[s].intact
  <2>1. CASE s \in On(a) /\ At(s, "open") /\ FollowsContract(event) /\ Topic(s, event)
    <3>1. sub'[s] = [sub[s] EXCEPT !.received = Append(@, event)]
      BY <1>4, <2>1
    <3>2. sub[s] \in LiveSubscriptions
      BY <1>1, <2>1, Subscribed DEF At
    <3>3. Append(sub[s].received, event) \in Seq(indexed)
      BY <1>5, <3>2, AppendProperties DEF LiveSubscriptions
    <3> QED
      BY <2>1, <3>1, <3>2, <3>3 DEF LiveSubscriptions, At
  <2>2. CASE ~(s \in On(a) /\ At(s, "open") /\ FollowsContract(event) /\ Topic(s, event))
    BY <1>4, <2>2
  <2> QED
    BY <2>1, <2>2
<1>9. LiveTypeOK'
  <2>1. sub' \in [Subscriptions -> {NoSubscription} \cup LiveSubscriptions]
    BY <1>1, <1>4, <1>8 DEF LiveTypeOK
  <2>2. LiveSubscriptions' = LiveSubscriptions
    BY <1>3 DEF LiveSubscriptions, pipeline
  <2>3. inbox' \in [Replicas -> Seq(indexed)]
    BY <1>1, <1>3, <1>5 DEF LiveTypeOK
  <2>4. \A b \in Replicas : inbox'[b] # << >> => b \in online'
    BY <1>1, <1>3, <1>6 DEF LiveTypeOK
  <2> QED
    BY <1>1, <1>3, <2>1, <2>2, <2>3, <2>4 DEF LiveTypeOK, pipeline, Parsed
<1>10. FromTopic'
  BY <1>1, <1>3 DEF FromTopic, pipeline, Parsed
<1>11. ConnectionsInStep'
  <2> SUFFICES ASSUME NEW b \in Replicas
               PROVE  (/\ Len(inbox[b]) <= Len(published)
                       /\ \A k \in DOMAIN inbox[b] : inbox[b][k] = published[Behind(b) + k])'
    BY DEF ConnectionsInStep
  <2>1. CASE b = a
    <3>1. /\ Len(inbox[a]) <= Len(published) /\ Len(published) \in Nat
          /\ DOMAIN inbox[a] = 1 .. Len(inbox[a])
          /\ \A k \in DOMAIN inbox[a] : inbox[a][k] = published[Behind(a) + k]
      BY <1>1, Lengths DEF ConnectionsInStep
    <3>2. ASSUME NEW k \in DOMAIN inbox'[a]
          PROVE  inbox'[a][k] = published[n + k]
      <4>1. k \in 1 .. Len(inbox'[a]) /\ k + 1 \in DOMAIN inbox[a]
        BY <1>5, <3>1
      <4>2. inbox'[a][k] = published[Behind(a) + (k + 1)]
        BY <1>5, <3>1, <4>1
      <4>3. Behind(a) + (k + 1) = n + k
        <5>1. Behind(a) \in Int
          BY <1>1, Lengths
        <5> QED
          BY <1>7, <4>1, <5>1
      <4> QED
        BY <4>2, <4>3
    <3>3. Len(inbox'[a]) <= Len(published)
      BY <1>5, <3>1
    <3> QED
      BY <1>3, <1>7, <2>1, <3>2, <3>3 DEF pipeline
  <2>2. CASE b # a
    BY <1>1, <1>3, <1>6, <2>2 DEF ConnectionsInStep, Behind, pipeline
  <2> QED
    BY <2>1, <2>2
<1>12. NothingReceivedYet'
  BY <1>8 DEF LiveInv, NothingReceivedYet, At
<1>13. IntactStreams'
  <2> SUFFICES ASSUME NEW s \in Subscriptions, At(s, "open")', sub'[s].intact
               PROVE  Streaming(s)'
    BY DEF IntactStreams
  <2>1. sub[s].pc = "open" /\ sub[s].intact
    BY <1>8 DEF At
  <2>2. sub[s] \in LiveSubscriptions /\ Streaming(s) /\ sub[s].replica \in online
    BY <1>1, <2>1, Subscribed DEF LiveInv, IntactStreams, Streaming, At
  <2>3. raw' = raw /\ published' = published /\ online' = online
    BY <1>3 DEF pipeline
  <2>4. CASE sub[s].replica # a
    <3>1. sub'[s] = sub[s]
      BY <1>4, <2>4 DEF On
    <3>2. Behind(sub[s].replica)' = Behind(sub[s].replica)
      BY <1>6, <2>2, <2>3, <2>4, <3>1 DEF Behind, LiveSubscriptions
    <3> QED
      BY <1>1, <2>2, <2>3, <3>1, <3>2, StreamKept
  <2>5. CASE sub[s].replica = a
    <3>1. s \in On(a) /\ At(s, "open")
      BY <2>1, <2>2, <2>5 DEF On, At, NoSubscription
    <3>2. FollowsContract(event) <=> ~Dropped(event)
      BY <1>1, <1>5, DroppedExactly
    <3>3. n = Behind(sub[s].replica) + 1
      BY <1>7, <2>5
    <3>4. PICK new \in Seq(indexed) : new = Append(sub[s].received, event)
      BY <1>5, <2>2, AppendProperties DEF LiveSubscriptions
    <3>5. CASE FollowsContract(event) /\ Topic(s, event)
      <4>1. sub'[s] = [sub[s] EXCEPT !.received = new]
        BY <1>4, <3>1, <3>4, <3>5
      <4>2. /\ sub'[s].received = new /\ sub'[s].from = sub[s].from
            /\ sub'[s].project = sub[s].project /\ sub'[s].replica = sub[s].replica
        BY <2>2, <4>1 DEF LiveSubscriptions
      <4>3. Behind(sub[s].replica)' = n
        BY <1>7, <2>5, <4>2
      <4>4. published[n].projectId = sub[s].project /\ ~Dropped(published[n])
        BY <1>7, <3>2, <3>5 DEF Topic
      <4>5. /\ \A m \in Due(s) : m \in Int /\ m < n
            /\ Due(s)' = Due(s) \cup {n} /\ (sub[s].from <= Behind(sub[s].replica))'
        BY <1>1, <2>2, <2>3, <3>3, <4>2, <4>3, <4>4, DueGrows
      <4>6. new = Append(sub[s].received, published[n])
        BY <1>7, <3>4
      <4> QED
        BY <1>1, <2>2, <2>3, <4>2, <4>5, <4>6, StreamExtended
    <3>6. CASE ~(FollowsContract(event) /\ Topic(s, event))
      <4>1. sub'[s] = sub[s]
        BY <1>4, <3>6
      <4>2. Behind(sub[s].replica)' = n
        BY <1>7, <2>5, <4>1
      <4>3. published[n].projectId # sub[s].project \/ Dropped(published[n])
        BY <1>7, <3>2, <3>6 DEF Topic
      <4>4. Due(s)' = Due(s) /\ (sub[s].from <= Behind(sub[s].replica))'
        BY <1>1, <2>2, <2>3, <3>3, <4>1, <4>2, <4>3, DueGrows
      <4> QED
        BY <2>2, <2>3, <4>1, <4>4, StreamSkips
    <3> QED
      BY <3>5, <3>6
  <2> QED
    BY <2>4, <2>5
<1> QED
  BY <1>9, <1>10, <1>11, <1>12, <1>13 DEF LiveInv

-----------------------------------------------------------------------------
(* The steps of a subscription. *)

\* A step of one subscription preserves the invariant if it leaves the subscription
\* well formed, and exact if it is open.
LEMMA OneSubscription ==
  ASSUME LiveInv, UNCHANGED <<pipeline, online, inbox, members>>,
         NEW s \in Subscriptions, NEW x \in LiveSubscriptions, sub' = [sub EXCEPT ![s] = x],
         x.pc \in {"checking", "granted"} => x.received = << >>,
         x.pc = "open" /\ x.intact => Streaming(s)'
  PROVE  LiveInv'
<1>1. LiveTypeOK /\ ConnectionsInStep
  BY DEF LiveInv
<1>2. sub'[s] = x /\ \A t \in Subscriptions : t # s => sub'[t] = sub[t]
  BY <1>1 DEF LiveTypeOK
<1>3. LiveTypeOK'
  <2>1. sub' \in [Subscriptions -> {NoSubscription} \cup LiveSubscriptions]
    BY <1>1 DEF LiveTypeOK
  <2>2. LiveSubscriptions' = LiveSubscriptions
    BY DEF LiveSubscriptions, pipeline
  <2> QED
    BY <1>1, <2>1, <2>2 DEF LiveTypeOK, pipeline, Parsed
<1>4. FromTopic' /\ ConnectionsInStep'
  BY DEF LiveInv, FromTopic, ConnectionsInStep, Behind, pipeline, Parsed
<1>5. NothingReceivedYet'
  <2> SUFFICES ASSUME NEW t \in Subscriptions
               PROVE  (At(t, "checking") \/ At(t, "granted") => sub[t].received = << >>)'
    BY DEF NothingReceivedYet
  <2>1. CASE t = s
    BY <1>2, <2>1 DEF At
  <2>2. CASE t # s
    BY <1>2, <2>2 DEF LiveInv, NothingReceivedYet, At
  <2> QED
    BY <2>1, <2>2
<1>6. IntactStreams'
  <2> SUFFICES ASSUME NEW t \in Subscriptions, At(t, "open")', sub'[t].intact
               PROVE  Streaming(t)'
    BY DEF IntactStreams
  <2>1. CASE t = s
    BY <1>2, <2>1 DEF At
  <2>2. CASE t # s
    <3>1. sub'[t] = sub[t] /\ sub[t].pc = "open" /\ sub[t].intact
      BY <1>2, <2>2 DEF At
    <3>2. sub[t] \in LiveSubscriptions /\ Streaming(t) /\ sub[t].replica \in online
      BY <1>1, <3>1, Subscribed DEF LiveInv, IntactStreams, Streaming, At
    <3>3. Behind(sub[t].replica)' = Behind(sub[t].replica)
      BY <3>1 DEF Behind, pipeline
    <3>4. raw' = raw /\ published' = published /\ online' = online
      BY DEF pipeline
    <3> QED
      BY <1>1, <3>1, <3>2, <3>3, <3>4, StreamKept
  <2> QED
    BY <2>1, <2>2
<1> QED
  BY <1>3, <1>4, <1>5, <1>6 DEF LiveInv

\* LogReceived preserves the invariant.
LEMMA LogReceivedInd ==
  ASSUME LiveInv, NEW s \in Subscriptions, LogReceived(s)
  PROVE  LiveInv'
<1>1. PICK u \in Users, p \in Projects, a \in Replicas :
        sub' = [sub EXCEPT ![s] = NewSubscription(u, p, a)]
  BY DEF LogReceived
<1>2. UNCHANGED <<pipeline, online, inbox, members>>
  BY DEF LogReceived
<1>3. << >> \in Seq(indexed)
  OBVIOUS
<1>4. /\ NewSubscription(u, p, a) \in LiveSubscriptions
      /\ NewSubscription(u, p, a).pc = "checking"
      /\ NewSubscription(u, p, a).received = << >>
  BY <1>3 DEF NewSubscription, LiveSubscriptions
<1> QED
  BY <1>1, <1>2, <1>4, OneSubscription

\* AssertAccess preserves the invariant.
LEMMA AssertAccessInd ==
  ASSUME LiveInv, NEW s \in Subscriptions, AssertAccess(s)
  PROVE  LiveInv'
<1>1. /\ sub[s].pc = "checking" /\ UNCHANGED <<pipeline, online, inbox, members>>
      /\ \E pc \in {"granted", "closed"} : sub' = [sub EXCEPT ![s] = [sub[s] EXCEPT !.pc = pc]]
  BY DEF AssertAccess, At, LiveInv, LiveTypeOK
<1>2. PICK pc \in {"granted", "closed"} : sub' = [sub EXCEPT ![s] = [sub[s] EXCEPT !.pc = pc]]
  BY <1>1
<1>3. PICK x : x = [sub[s] EXCEPT !.pc = pc]
  OBVIOUS
<1>4. sub[s] \in LiveSubscriptions /\ sub[s].received = << >>
  BY <1>1, Subscribed DEF LiveInv, NothingReceivedYet, At
<1>5. x \in LiveSubscriptions /\ x.pc # "open" /\ x.received = << >>
  BY <1>3, <1>4 DEF LiveSubscriptions
<1> QED
  BY <1>1, <1>2, <1>3, <1>5, OneSubscription

\* Subscribe preserves the invariant: the stream begins after what the replica has
\* forwarded, and is empty.
LEMMA SubscribeInd ==
  ASSUME LiveInv, NEW s \in Subscriptions, Subscribe(s)
  PROVE  LiveInv'
<1>1. PICK a : a = sub[s].replica
  OBVIOUS
<1>2. PICK intact \in BOOLEAN : intact <=> a \in online
  OBVIOUS
<1>3. PICK from : from = Behind(a)
  OBVIOUS
<1>4. PICK x : x = [sub[s] EXCEPT !.pc = "open", !.intact = intact, !.from = from]
  OBVIOUS
<1>5. sub[s].pc = "granted" /\ UNCHANGED <<pipeline, online, inbox, members>>
  BY DEF Subscribe, At
<1>6. sub' = [sub EXCEPT ![s] = x]
  <2>1. sub' = [sub EXCEPT ![s].pc = "open", ![s].intact = (a \in online), ![s].from = Behind(a)]
    BY <1>1 DEF Subscribe
  <2>2. intact = (a \in online)
    BY <1>2
  <2> QED
    BY <1>3, <1>4, <2>1, <2>2 DEF LiveInv, LiveTypeOK
<1>7. sub[s] \in LiveSubscriptions /\ sub[s].received = << >> /\ a \in Replicas
  BY <1>1, <1>5, Subscribed DEF LiveInv, NothingReceivedYet, At, LiveSubscriptions
<1>8. from \in Nat
  <2>1. Len(published) \in Nat /\ Len(inbox[a]) \in Nat /\ Len(inbox[a]) <= Len(published)
    BY <1>7, Lengths DEF LiveInv, ConnectionsInStep
  <2> QED
    BY <1>3, <2>1 DEF Behind
<1>9. /\ x \in LiveSubscriptions /\ x.pc = "open" /\ x.intact = intact
      /\ x.from = from /\ x.replica = a /\ x.received = << >>
  BY <1>1, <1>4, <1>7, <1>8 DEF LiveSubscriptions
<1>10. sub'[s] = x
  BY <1>6 DEF LiveInv, LiveTypeOK
<1>11. ASSUME x.intact
       PROVE  Streaming(s)'
  <2>1. Behind(sub[s].replica)' = from
    BY <1>3, <1>5, <1>9, <1>10 DEF Behind, pipeline
  <2>2. Due(s)' = {}
    BY <1>8, <1>9, <1>10, <2>1 DEF Due
  <2>3. << >> \in [DOMAIN sub'[s].received -> Due(s)'] /\ IsStream(<< >>, s)'
    BY <1>9, <1>10, <2>2 DEF IsStream
  <2>4. sub'[s].replica \in online'
    BY <1>2, <1>5, <1>9, <1>10, <1>11
  <2>5. (sub[s].from <= Behind(sub[s].replica))'
    BY <1>8, <1>9, <1>10, <2>1
  <2> QED
    BY <2>3, <2>4, <2>5 DEF Streaming
<1> QED
  BY <1>5, <1>6, <1>9, <1>11, OneSubscription

\* Unsubscribe preserves the invariant.
LEMMA UnsubscribeInd ==
  ASSUME LiveInv, NEW s \in Subscriptions, Unsubscribe(s)
  PROVE  LiveInv'
<1>1. PICK x : x = [sub[s] EXCEPT !.pc = "closed"]
  OBVIOUS
<1>2. /\ sub[s].pc # "none" /\ UNCHANGED <<pipeline, online, inbox, members>>
      /\ sub' = [sub EXCEPT ![s] = x]
  BY <1>1 DEF Unsubscribe, LiveInv, LiveTypeOK
<1>3. sub[s] \in LiveSubscriptions
  BY <1>2, Subscribed DEF LiveInv
<1>4. x \in LiveSubscriptions /\ x.pc = "closed"
  BY <1>1, <1>3 DEF LiveSubscriptions
<1> QED
  BY <1>2, <1>4, OneSubscription

\* RemoveMember preserves the invariant.
LEMMA RemoveMemberInd ==
  ASSUME LiveInv, NEW u \in Users, NEW p \in Projects, RemoveMember(u, p)
  PROVE  LiveInv'
<1>1. UNCHANGED <<pipeline, online, inbox, sub>> /\ members' = members \ {<<u, p>>}
  BY DEF RemoveMember
<1>2. LiveTypeOK' /\ FromTopic'
  BY <1>1 DEF LiveInv, LiveTypeOK, LiveSubscriptions, FromTopic, Parsed, pipeline
<1>3. ConnectionsInStep' /\ NothingReceivedYet' /\ IntactStreams'
  BY <1>1, StreamsUntouched DEF pipeline
<1> QED
  BY <1>2, <1>3 DEF LiveInv

-----------------------------------------------------------------------------
(* The theorems. *)

\* The invariant holds initially.
LEMMA LiveInitInd == LiveInit => LiveInv
<1> SUFFICES ASSUME LiveInit
             PROVE  LiveInv
  OBVIOUS
<1>1. << >> \in Seq(indexed) /\ Len(<< >>) = 0 /\ DOMAIN << >> = {}
  OBVIOUS
<1>2. \A s \in Subscriptions : sub[s].pc = "none"
  BY DEF LiveInit, NoSubscription
<1>3. LiveTypeOK
  BY <1>1 DEF LiveInit, LiveTypeOK
<1>4. FromTopic
  BY DEF LiveInit, FromTopic
<1>5. ConnectionsInStep
  BY <1>1 DEF LiveInit, ConnectionsInStep
<1>6. NothingReceivedYet /\ IntactStreams
  BY <1>2 DEF NothingReceivedYet, IntactStreams, At
<1> QED
  BY <1>3, <1>4, <1>5, <1>6 DEF LiveInv

\* Every step preserves the invariant.
LEMMA LiveNextInd == LiveInv /\ [LiveNext]_liveVars => LiveInv'
<1> SUFFICES ASSUME LiveInv, [LiveNext]_liveVars
             PROVE  LiveInv'
  OBVIOUS
<1>1. ASSUME NEW i \in Ids,
             Index(i) \/ DeadLetter(i) \/ DeadLetterUnparsed(i) \/ Publish(i)
      PROVE  LiveInv'
  BY <1>1, IndexInd, DeadLetterInd, PublishInd
<1>2. ASSUME NEW a \in Replicas, Connect(a) \/ Disconnect(a) \/ Stop(a) \/ Forward(a)
      PROVE  LiveInv'
  BY <1>2, ConnectInd, DisconnectInd, StopInd, ForwardInd
<1>3. ASSUME NEW u \in Users, NEW p \in Projects, RemoveMember(u, p)
      PROVE  LiveInv'
  BY <1>3, RemoveMemberInd
<1>4. ASSUME NEW s \in Subscriptions,
             LogReceived(s) \/ AssertAccess(s) \/ Subscribe(s) \/ Unsubscribe(s)
      PROVE  LiveInv'
  BY <1>4, LogReceivedInd, AssertAccessInd, SubscribeInd, UnsubscribeInd
<1>5. CASE UNCHANGED liveVars
  <2>1. ConnectionsInStep' /\ NothingReceivedYet' /\ IntactStreams'
    BY <1>5, StreamsUntouched DEF liveVars
  <2> QED
    BY <1>5, <2>1 DEF liveVars, LiveInv, LiveTypeOK, LiveSubscriptions, FromTopic, Parsed
<1> QED
  BY <1>1, <1>2, <1>3, <1>4, <1>5 DEF LiveNext

\* The inductive invariant holds in every reachable state.
THEOREM LiveInvariance == LiveSpec => []LiveInv
BY LiveInitInd, LiveNextInd, PTL DEF LiveSpec

\* Events stay those of the topic, what is published is searchable, and only a
\* connected replica has messages on its connection.
THEOREM LiveTypeCorrect == LiveSpec => []LiveTypeOK
<1>1. LiveInv => LiveTypeOK
  BY DEF LiveInv
<1> QED
  BY <1>1, LiveInvariance, PTL

\* The stream of a subscription is exactly what was published for its project since it
\* was opened, as long as its replica keeps the connection, but for the events that were
\* white space only or outgrew the contract in lower case.
THEOREM StreamsAreExact == LiveSpec => []StreamIsExact
<1>1. LiveInv => StreamIsExact
  <2> SUFFICES ASSUME LiveInv, NEW s \in Subscriptions, At(s, "open"), sub[s].intact
               PROVE  /\ \E stream \in [DOMAIN sub[s].received -> Due(s)] : IsStream(stream, s)
                      /\ \A k \in DOMAIN inbox[sub[s].replica] :
                           inbox[sub[s].replica][k] = published[Behind(sub[s].replica) + k]
    BY DEF StreamIsExact
  <2>1. sub[s].replica \in Replicas
    BY Subscribed DEF LiveInv, At, LiveSubscriptions
  <2>2. Streaming(s)
    BY DEF LiveInv, IntactStreams
  <2> QED
    BY <2>1, <2>2 DEF LiveInv, ConnectionsInStep, Streaming
<1> QED
  BY <1>1, LiveInvariance, PTL

\* What was made of an event of the topic is cleaned.
LEMMA ProcessedIsCleaned ==
  ASSUME LiveTypeOK, NEW i \in Parsed
  PROVE  Cleaned(Processed(raw[i])) /\ Cleaned(RedactedAttributes(raw[i]))
<1>1. PICK sent \in RawEvents : sent = raw[i] /\ sent.eventId = i
  BY ParsedEvents
<1>2. ASSUME NEW event, event.eventId = i, event.message = sent.message,
             event.attributes = IF sent.attributes = Absent THEN Absent
                                ELSE redactSensitiveData[sent.attributes]
      PROVE  Cleaned(event)
  <2>1. sent.attributes # Absent => sent.attributes \in Values
    BY DEF RawEvents
  <2> QED
    BY <1>1, <1>2, <2>1, RedactionCuts DEF Cleaned
<1> QED
  BY <1>1, <1>2, ProcessedFields, DeadLetterFields

\* No value under a sensitive key is searchable, live or in the payload of a dead letter,
\* at any depth and in any document, and nothing else is lost.
THEOREM NothingSensitiveEscapes == LiveSpec => []NothingSensitiveLeaves
<1>1. LiveInv => NothingSensitiveLeaves
  <2> SUFFICES ASSUME LiveInv
               PROVE  NothingSensitiveLeaves
    OBVIOUS
  <2>1. LiveTypeOK /\ FromTopic
    BY DEF LiveInv
  <2>2. ASSUME NEW event \in indexed \cup Ranging(published)
        PROVE  Cleaned(event)
    <3>1. event \in indexed
      BY <2>1, Lengths DEF Ranging
    <3>2. event.eventId \in Parsed /\ event = Processed(raw[event.eventId])
      BY <2>1, <3>1 DEF FromTopic
    <3> QED
      BY <2>1, <3>2, ProcessedIsCleaned
  <2>3. ASSUME NEW letter \in deadLetters, letter.payload # UNPARSEABLE
        PROVE  Cleaned(letter.payload) /\ ~letter.quotes
    <3>1. PICK i \in Parsed : letter = Letter(RedactedAttributes(raw[i]), FALSE)
      BY <2>1, <2>3 DEF FromTopic
    <3> QED
      BY <2>1, <3>1, ProcessedIsCleaned DEF Letter
  <2> QED
    BY <2>2, <2>3 DEF NothingSensitiveLeaves
<1> QED
  BY <1>1, LiveInvariance, PTL
=============================================================================
