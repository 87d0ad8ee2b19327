----------------------------- MODULE MCRealtime -----------------------------
(* A small instance of Realtime for TLC. *)
EXTENDS Realtime, FiniteSetsExt, TLC

CONSTANTS p, q

MCNormalKey(k) ==
  CASE k = "accessToken"   -> "accesstoken"
    [] k = "refreshToken"  -> "refreshtoken"
    [] k = "creditCard"    -> "creditcard"
    [] k = "CREDIT_CARD"   -> "creditcard"
    [] k = "Access-Token"  -> "accesstoken"
    [] OTHER               -> k

Deep ==
  Object("order" :> Scalar("o1") @@ "Access-Token" :> Object("order" :> Scalar("o2"))
         @@ "list" :> Array(<<Object("CREDIT_CARD" :> Scalar("c") @@ "order" :> Array(<< >>)),
                              Array(<<Object("token" :> Array(<<Scalar("t")>>))>>),
                              Scalar("password")>>))
Shallow == Object("password" :> Scalar("s"))
Innocent == Object("tokens" :> Scalar("3") @@ "nested" :> Object(<< >>))

Padded(core) == [Plain(core) EXCEPT !.padded = TRUE, !.upper = TRUE]
Event(i, project, attributes) ==
  [eventId |-> i, projectId |-> project, service |-> Plain("api"),
   environment |-> Padded("prod"), message |-> Padded("hello"),
   traceId |-> Blank, attributes |-> attributes]

\* The documents, what they may be with REDACTED_VALUE under some of their keys,
\* and the parts of all that.
OneOfEach(options) ==
  {f \in [DOMAIN options -> UNION {options[x] : x \in DOMAIN options}] :
     \A x \in DOMAIN options : f[x] \in options[x]}

RECURSIVE Redactions(_)
Redactions(v) ==
  CASE v.type = "array"  ->
         {Array(items) : items \in OneOfEach([i \in DOMAIN v.items |-> Redactions(v.items[i])])}
    [] v.type = "object" ->
         {Object(fields) : fields \in
            OneOfEach([k \in DOMAIN v.fields |-> {REDACTED_VALUE} \cup Redactions(v.fields[k])])}
    [] v.type = "scalar" -> {v}

RECURSIVE Parts(_)
Parts(v) == {v} \cup UNION {Parts(child.value) : child \in Children(v)}

RECURSIVE Nesting(_)
Nesting(v) ==
  IF Children(v) = {} THEN 0 ELSE 1 + Max({Nesting(child.value) : child \in Children(v)})

MCValues ==
  UNION {Parts(v) : v \in UNION {Redactions(doc) : doc \in {Deep, Shallow, Innocent}}}
MCDepth == [v \in MCValues |-> Nesting(v)]

\* What may be wrong with a record: nothing left of the service, no service, too long a
\* message, attributes that are no object, an environment that lower case makes too
\* long, and text that is not JSON.
Trouble(event) ==
  {[event EXCEPT !.service = Blank], [event EXCEPT !.service = Plain("")],
   [event EXCEPT !.message.size = "long"],
   [event EXCEPT !.attributes = Deep.fields["list"]],
   [event EXCEPT !.environment.size = "grows"], NotJson}

\* A good event of each project and one record in trouble.
MCInputs ==
  {1 :> Event(1, p, doc) @@ 2 :> trouble @@ 3 :> Event(3, q, Absent) :
     doc \in {Deep, Innocent}, trouble \in Trouble(Event(2, p, Shallow))}
=============================================================================
