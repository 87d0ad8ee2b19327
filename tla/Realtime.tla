------------------------------ MODULE Realtime ------------------------------
(***************************************************************************)
(* Live events: the log processor normalises, redacts, indexes and          *)
(* publishes an event to a Redis channel; every API replica that is         *)
(* connected gets it over its own connection, checks it against the         *)
(* contract once more, and hands it to the subscriptions of the event's     *)
(* project that are open on that replica.  Redis keeps nothing: what is     *)
(* published while a replica is disconnected never reaches it.              *)
(*                                                                          *)
(* LogProcessor.tla has the steps of the processor in full; here indexing,  *)
(* publishing and dead-lettering are what can be told of it from outside,   *)
(* and an event may be published again.                                     *)
(***************************************************************************)
EXTENDS Normalization

CONSTANTS
  Ids,           \* event ids
  NotJson,       \* a record of the topic that does not parse
  Inputs,        \* bound: functions from Ids to the records of the topic in a run
  Users,
  Projects,
  Replicas,      \* processes of the API
  Subscriptions, \* bound: the subscriptions of a run
  PublishBound   \* bound on what is published

Texts == [core : STRING, padded : BOOLEAN, upper : BOOLEAN, size : Sizes]
RawEvents ==
  [eventId : Ids, projectId : Projects, service : Texts, environment : Texts,
   message : Texts, traceId : {Absent} \cup Texts, attributes : {Absent} \cup Values]

ASSUME InputsAssumption ==
  /\ Inputs \subseteq [Ids -> {NotJson} \cup RawEvents]
  /\ NotJson \notin RawEvents
  /\ \A records \in Inputs : \A i \in Ids : records[i] # NotJson => records[i].eventId = i

VARIABLES
  raw,         \* the records of the topic, by id
  indexed,     \* documents in Elasticsearch
  deadLetters, \* letters in the dead letter topic
  published,   \* what went through the Redis channel, oldest first
  online,      \* the replicas with a connection to Redis
  inbox,       \* inbox[a]: messages on replica a's connection
  members,     \* table ProjectMember, as <<user, project>>
  sub          \* what each subscription is at

liveVars == <<raw, indexed, deadLetters, published, online, inbox, members, sub>>
pipeline == <<raw, indexed, deadLetters, published>>

\* from: position in published before the first event it may get.  intact: its
\* replica has been connected since it was opened.
NewSubscription(u, p, a) ==
  [pc |-> "checking", user |-> u, project |-> p, replica |-> a, received |-> << >>,
   from |-> 0, intact |-> FALSE]
NoSubscription == [pc |-> "none"]
LiveSubscriptions ==
  [pc : {"checking", "granted", "open", "closed"}, user : Users, project : Projects,
   replica : Replicas, received : Seq(indexed), from : Nat, intact : BOOLEAN]

LiveInit ==
  /\ raw \in Inputs
  /\ indexed = {}
  /\ deadLetters = {}
  /\ published = << >>
  /\ online = {}
  /\ inbox = [a \in Replicas |-> << >>]
  /\ members = Users \X Projects
  /\ sub = [s \in Subscriptions |-> NoSubscription]

At(s, pc) == sub[s].pc = pc

\* How much of what was published replica a has forwarded or lost.
Behind(a) == Len(published) - Len(inbox[a])

-----------------------------------------------------------------------------
(* The log processor. *)

\* The records that are JSON.
Parsed == {i \in Ids : raw[i] # NotJson}

Index(i) ==
  /\ i \in Parsed
  /\ FollowsContract(raw[i])
  /\ indexed' = indexed \cup {Processed(raw[i])}
  /\ UNCHANGED <<raw, deadLetters, published, online, inbox, members, sub>>

\* quotes: whether the error repeats text of the payload.
Letter(payload, quotes) == [payload |-> payload, quotes |-> quotes]

\* The whole payload is redacted; the keys of an event itself are not sensitive.
DeadLetter(i) ==
  /\ i \in Parsed
  /\ ~FollowsContract(raw[i])
  /\ deadLetters' = deadLetters \cup {Letter(RedactedAttributes(raw[i]), FALSE)}
  /\ UNCHANGED <<raw, indexed, published, online, inbox, members, sub>>

\* The message of the parser's error is sent as it is.
UNPARSEABLE == Scalar("[UNPARSEABLE JSON PAYLOAD]")
DeadLetterUnparsed(i) ==
  /\ i \in Ids \ Parsed
  /\ \E quotes \in BOOLEAN : deadLetters' = deadLetters \cup {Letter(UNPARSEABLE, quotes)}
  /\ UNCHANGED <<raw, indexed, published, online, inbox, members, sub>>

\* process awaits indexLog before it publishes.
BadSearchable(i) == FollowsContract(raw[i])
Searchable(i)    == Processed(raw[i]) \in indexed

Publish(i) ==
  /\ i \in Parsed
  /\ Searchable(i)
  /\ Len(published) < PublishBound
  /\ published' = Append(published, Processed(raw[i]))
  /\ inbox' = [a \in Replicas |->
                 IF a \in online THEN Append(inbox[a], Processed(raw[i])) ELSE inbox[a]]
  /\ UNCHANGED <<raw, indexed, deadLetters, online, members, sub>>

-----------------------------------------------------------------------------
(* A replica of the API. *)

\* onModuleInit; the client connects and subscribes again after a loss.
Connect(a) ==
  /\ a \notin online
  /\ online' = online \cup {a}
  /\ UNCHANGED <<pipeline, inbox, members, sub>>

On(a) == {s \in Subscriptions : sub[s] # NoSubscription /\ sub[s].replica = a}

Disconnect(a) ==
  /\ a \in online
  /\ online' = online \ {a}
  /\ inbox' = [inbox EXCEPT ![a] = << >>]
  /\ sub' = [s \in Subscriptions |->
               IF s \in On(a) THEN [sub[s] EXCEPT !.intact = FALSE] ELSE sub[s]]
  /\ UNCHANGED <<pipeline, members>>

\* onModuleDestroy, or the process dies: its clients lose their subscriptions.
Stop(a) ==
  /\ online' = online \ {a}
  /\ inbox' = [inbox EXCEPT ![a] = << >>]
  /\ sub' = [s \in Subscriptions |->
               IF s \in On(a) THEN [sub[s] EXCEPT !.pc = "closed"] ELSE sub[s]]
  /\ UNCHANGED <<pipeline, members>>

BadTopic(s, event) == TRUE
Topic(s, event)    == sub[s].project = event.projectId

\* forwardMessage: what does not follow the contract is dropped, the rest goes to
\* the open iterators of the project's topic.
Forward(a) ==
  /\ inbox[a] # << >>
  /\ LET event == Head(inbox[a])
     IN  sub' = [s \in Subscriptions |->
           IF s \in On(a) /\ At(s, "open") /\ FollowsContract(event) /\ Topic(s, event)
             THEN [sub[s] EXCEPT !.received = Append(@, event)]
             ELSE sub[s]]
  /\ inbox' = [inbox EXCEPT ![a] = Tail(@)]
  /\ UNCHANGED <<pipeline, online, members>>

-----------------------------------------------------------------------------
(* Members and subscriptions. *)

RemoveMember(u, p) ==
  /\ members' = members \ {<<u, p>>}
  /\ UNCHANGED <<pipeline, online, inbox, sub>>

LogReceived(s) ==
  /\ At(s, "none")
  /\ \E u \in Users, p \in Projects, a \in Replicas :
       sub' = [sub EXCEPT ![s] = NewSubscription(u, p, a)]
  /\ UNCHANGED <<pipeline, online, inbox, members>>

\* assertProjectAccess.
AssertAccess(s) ==
  /\ At(s, "checking")
  /\ sub' = [sub EXCEPT ![s].pc =
       IF <<sub[s].user, sub[s].project>> \in members THEN "granted" ELSE "closed"]
  /\ UNCHANGED <<pipeline, online, inbox, members>>

\* The iterator is made and asked for its first event.
Subscribe(s) ==
  /\ At(s, "granted")
  /\ LET a == sub[s].replica
     IN  sub' = [sub EXCEPT ![s].pc = "open", ![s].intact = (a \in online),
                            ![s].from = Behind(a)]
  /\ UNCHANGED <<pipeline, online, inbox, members>>

\* The client goes away.
Unsubscribe(s) ==
  /\ sub[s].pc \in {"checking", "granted", "open"}
  /\ sub' = [sub EXCEPT ![s].pc = "closed"]
  /\ UNCHANGED <<pipeline, online, inbox, members>>

LiveNext ==
  \/ \E i \in Ids : Index(i) \/ DeadLetter(i) \/ DeadLetterUnparsed(i) \/ Publish(i)
  \/ \E a \in Replicas : Connect(a) \/ Disconnect(a) \/ Stop(a) \/ Forward(a)
  \/ \E u \in Users, p \in Projects : RemoveMember(u, p)
  \/ \E s \in Subscriptions :
       LogReceived(s) \/ AssertAccess(s) \/ Subscribe(s) \/ Unsubscribe(s)

LiveSpec == LiveInit /\ [][LiveNext]_liveVars

-----------------------------------------------------------------------------
(* Properties. *)

Ranging(seq) == {seq[k] : k \in DOMAIN seq}

\* Events stay those of the topic, and what is published is searchable.
LiveTypeOK ==
  /\ raw \in Inputs
  /\ indexed \subseteq {Processed(raw[i]) : i \in Parsed}
  /\ published \in Seq(indexed)
  /\ online \subseteq Replicas
  /\ inbox \in [Replicas -> Seq(indexed)]
  /\ \A a \in Replicas : inbox[a] # << >> => a \in online
  /\ members \subseteq Users \X Projects
  /\ sub \in [Subscriptions -> {NoSubscription} \cup LiveSubscriptions]

\* The stream of a subscription whose replica kept its connection is exactly what
\* was published for its project since it was opened and is no longer on the
\* connection, which holds the rest: nothing twice, nothing of another project, in
\* order and nothing missing.  stream[j] is where the j-th event received was published.
\* Two kinds of event pass the first validation, are indexed and published, and then
\* dropped by the second: one whose service or environment was white space only and is
\* trimmed to nothing, and one whose environment is too long in lower case.
OnlyWhiteSpace(event) ==
  raw[event.eventId].service.core = "" \/ raw[event.eventId].environment.core = ""
Outgrown(event) == raw[event.eventId].environment.size = "grows"
Dropped(event)  == OnlyWhiteSpace(event) \/ Outgrown(event)
Due(s) ==
  {n \in sub[s].from + 1 .. Behind(sub[s].replica) :
     published[n].projectId = sub[s].project /\ ~Dropped(published[n])}
IsStream(stream, s) ==
  /\ {stream[j] : j \in DOMAIN stream} = Due(s)
  /\ \A j, k \in DOMAIN stream : j < k => stream[j] < stream[k]
  /\ \A j \in DOMAIN stream : sub[s].received[j] = published[stream[j]]
StreamIsExact ==
  \A s \in Subscriptions : At(s, "open") /\ sub[s].intact =>
    LET pending == inbox[sub[s].replica]
    IN  /\ \E stream \in [DOMAIN sub[s].received -> Due(s)] : IsStream(stream, s)
        /\ \A k \in DOMAIN pending :
             pending[k] = published[Behind(sub[s].replica) + k]

\* "Sensitive attribute keys ... are replaced with [REDACTED] before indexing": in
\* what is searchable, live or dead-lettered no value under such a key survives, at
\* any depth and however the key is spelled, and all other attributes and the
\* message are there unchanged.  The one exception is a record that does not parse: of
\* it only the error can repeat a piece, the payload is not sent.
Cleaned(event) ==
  LET sent == raw[event.eventId]
  IN  /\ event.message = sent.message
      /\ IF sent.attributes = Absent
           THEN event.attributes = Absent
           ELSE Leaves[event.attributes] = {Cut(leaf) : leaf \in Leaves[sent.attributes]}
NothingSensitiveLeaves ==
  /\ \A event \in indexed \cup Ranging(published) : Cleaned(event)
  /\ \A letter \in deadLetters :
       letter.payload # UNPARSEABLE => Cleaned(letter.payload) /\ ~letter.quotes
=============================================================================
