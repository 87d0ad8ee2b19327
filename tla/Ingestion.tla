----------------------------- MODULE Ingestion -----------------------------
(***************************************************************************)
(* The ingestion service: a POST of one log or a batch passes the guards,   *)
(* the payload is validated, and the producer writes its events to          *)
(* logs.raw.v1 before the client gets 202.  Every await is the end of a     *)
(* step.  Keys are revoked and deleted by the API meanwhile; the broker     *)
(* connection is opened once and shared by all requests; the process is     *)
(* shut down by a signal or dies.                                           *)
(*                                                                          *)
(* The events of a request have one key, its project, so they are written   *)
(* to one partition as one record batch, or not at all: the topic is the    *)
(* sequence of the requests written.  RateLimit says when 429 is answered.  *)
(***************************************************************************)
EXTENDS Naturals, Sequences

CONSTANTS
  Requests,   \* bound: the POSTs of a run
  Keys,       \* API keys the control plane issued
  NoKey,      \* no well-formed key in the header
  WriteBound  \* bound on the batches written, those sent twice included

ASSUME IngestionAssumption ==
  /\ NoKey \notin Keys
  /\ WriteBound \in Nat

VARIABLES
  key,            \* table ApiKey: the state of each key
  req,            \* what each request is doing
  topic,          \* logs.raw.v1
  isConnected,    \* the producer's flag
  connectPromise, \* the shared attempt: "none", "pending", "resolved", "rejected"
  link,           \* the client's connection: "closed", "open", "closing"
  attempts,       \* producer.connect() calls under way
  phase           \* the process: "boot", "up", "closing", "destroyed", "stopped"

producer == <<isConnected, connectPromise, link, attempts>>
vars == <<key, req, topic, producer, phase>>

Stages == {"new", "lookup", "compare", "touch", "connecting", "send", "inflight",
           "answered", "lost"}
Statuses == {0, 202, 400, 401, 429, 500, 503}

\* genuine: the key handed in is the one issued, not one with the same prefix.
\* stale: the key was not active any more when the request arrived.
\* sent: its batch is on its way to the broker.
RequestStates == [pc : Stages, key : Keys \cup {NoKey}, genuine : BOOLEAN,
                  valid : BOOLEAN, stale : BOOLEAN, sent : BOOLEAN, status : Statuses]

NewRequest == [pc |-> "new", key |-> NoKey, genuine |-> FALSE, valid |-> FALSE,
               stale |-> FALSE, sent |-> FALSE, status |-> 0]

Init ==
  /\ key = [k \in Keys |-> "active"]
  /\ req = [r \in Requests |-> NewRequest]
  /\ topic = << >>
  /\ isConnected = FALSE
  /\ connectPromise = "none"
  /\ link = "closed"
  /\ attempts = 0
  /\ phase = "boot"

At(r, pc)         == req[r].pc = pc
Go(r, pc)         == req' = [req EXCEPT ![r].pc = pc]
Answer(r, status) == req' = [req EXCEPT ![r].pc = "answered", ![r].status = status]
Under(r)          == req[r].pc \notin {"new", "answered", "lost"}

-----------------------------------------------------------------------------
(* The control plane. *)

Revoke(k) ==
  /\ key[k] = "active"
  /\ key' = [key EXCEPT ![k] = "revoked"]
  /\ UNCHANGED <<req, topic, producer, phase>>

Delete(k) ==
  /\ key[k] # "deleted"
  /\ key' = [key EXCEPT ![k] = "deleted"]
  /\ UNCHANGED <<req, topic, producer, phase>>

-----------------------------------------------------------------------------
(* The producer's connection. *)

\* connect(): nothing to do when connected, otherwise an attempt is shared by
\* all that wait for it; a rejected one is kept.
BadNeedsAttempt == ~isConnected /\ connectPromise # "rejected"
NeedsAttempt    == ~isConnected /\ connectPromise = "none"
Connect ==
  IF NeedsAttempt
    THEN /\ connectPromise' = "pending"
         /\ attempts' = attempts + 1
         /\ UNCHANGED <<isConnected, link>>
    ELSE UNCHANGED producer

Waiting == {r \in Requests : At(r, "connecting")}
Release(pc, status) ==
  req' = [r \in Requests |->
            IF r \in Waiting THEN [req[r] EXCEPT !.pc = pc, !.status = status] ELSE req[r]]

\* The attempt succeeds.  At boot the server starts to listen.
Connected ==
  /\ attempts > 0
  /\ attempts' = attempts - 1
  /\ isConnected' = TRUE
  /\ connectPromise' = "resolved"
  /\ link' = "open"
  /\ Release("send", 0)
  /\ phase' = IF phase = "boot" THEN "up" ELSE phase
  /\ UNCHANGED <<key, topic>>

\* The client gave up.  At boot the process exits.
ConnectFails ==
  /\ attempts > 0
  /\ attempts' = attempts - 1
  /\ connectPromise' = "rejected"
  /\ Release("answered", 503)
  /\ phase' = IF phase = "boot" THEN "stopped" ELSE phase
  /\ UNCHANGED <<key, topic, isConnected, link>>

OnModuleInit ==
  /\ phase = "boot" /\ connectPromise = "none"
  /\ Connect
  /\ UNCHANGED <<key, req, topic, phase>>

\* SIGTERM: the destroy hooks run before the server stops accepting.  It finds
\* the producer connected; a signal that arrives during boot is left out, since
\* whether the init hooks are then waited for is the framework's business.
OnModuleDestroy ==
  /\ phase = "up"
  /\ isConnected
  /\ link' = "closing"
  /\ phase' = "closing"
  /\ UNCHANGED <<key, req, topic, isConnected, connectPromise, attempts>>

BadForgotten == connectPromise
Forgotten    == "none"
Disconnected ==
  /\ phase = "closing"
  /\ link' = "closed"
  /\ isConnected' = FALSE
  /\ connectPromise' = Forgotten
  /\ phase' = "destroyed"
  /\ UNCHANGED <<key, req, topic, attempts>>

\* The server has answered what it had accepted, and the process ends.
Stop ==
  /\ phase = "destroyed"
  /\ \A r \in Requests : ~Under(r)
  /\ phase' = "stopped"
  /\ UNCHANGED <<key, req, topic, producer>>

\* The process dies; its clients get no answer.  A new one boots.
Crash ==
  /\ phase # "stopped"
  /\ req' = [r \in Requests |-> IF Under(r) THEN [req[r] EXCEPT !.pc = "lost"] ELSE req[r]]
  /\ isConnected' = FALSE
  /\ connectPromise' = "none"
  /\ link' = "closed"
  /\ attempts' = 0
  /\ phase' = "boot"
  /\ UNCHANGED <<key, topic>>

-----------------------------------------------------------------------------
(* Requests. *)

\* RateLimitGuard, then the header check of ApiKeyGuard.  The server listens until
\* every destroy hook has run, not only the producer's.
Arrive(r) ==
  /\ At(r, "new") /\ phase \in {"up", "closing", "destroyed"}
  /\ \E k \in Keys \cup {NoKey}, genuine, valid \in BOOLEAN, status \in {0, 401, 429} :
       /\ k = NoKey => status # 0
       /\ req' = [req EXCEPT ![r] =
            [pc |-> IF status = 0 THEN "lookup" ELSE "answered", key |-> k,
             genuine |-> genuine, valid |-> valid,
             stale |-> k \in Keys /\ key[k] # "active", sent |-> FALSE, status |-> status]]
  /\ UNCHANGED <<key, topic, producer, phase>>

\* validate: the row is found by the key's prefix.
BadUsable(k) == key[k] # "deleted"
Usable(k)    == key[k] = "active"
Lookup(r) ==
  /\ At(r, "lookup")
  /\ IF Usable(req[r].key) THEN Go(r, "compare") ELSE Answer(r, 401)
  /\ UNCHANGED <<key, topic, producer, phase>>

Compare(r) ==
  /\ At(r, "compare")
  /\ IF req[r].genuine THEN Go(r, "touch") ELSE Answer(r, 401)
  /\ UNCHANGED <<key, topic, producer, phase>>

\* lastUsedAt is written, which fails when the row is gone; then the pipe
\* validates the payload and the handler calls the producer.
Touch(r) ==
  /\ At(r, "touch")
  /\ \/ /\ key[req[r].key] = "deleted"
        /\ Answer(r, 500)
        /\ UNCHANGED producer
     \/ /\ key[req[r].key] # "deleted" /\ ~req[r].valid
        /\ Answer(r, 400)
        /\ UNCHANGED producer
     \/ /\ key[req[r].key] # "deleted" /\ req[r].valid
        /\ Connect
        /\ \/ isConnected /\ Go(r, "send")
           \/ ~isConnected /\ connectPromise = "rejected" /\ Answer(r, 503)
           \/ ~isConnected /\ connectPromise # "rejected" /\ Go(r, "connecting")
  /\ UNCHANGED <<key, topic, phase>>

\* A query of the guard fails.
QueryFails(r) ==
  /\ req[r].pc \in {"lookup", "touch"}
  /\ Answer(r, 500)
  /\ UNCHANGED <<key, topic, producer, phase>>

\* The client refuses to send on a connection that is closing or closed.
Send(r) ==
  /\ At(r, "send")
  /\ IF link = "open"
       THEN req' = [req EXCEPT ![r].pc = "inflight", ![r].sent = TRUE]
       ELSE Answer(r, 503)
  /\ UNCHANGED <<key, topic, producer, phase>>

\* The broker appends the batch, also when nobody waits for it any more; after a
\* lost acknowledgement the client sends it once more.
Write(r) ==
  /\ req[r].sent
  /\ Len(topic) < WriteBound
  /\ topic' = Append(topic, r)
  /\ UNCHANGED <<key, req, producer, phase>>

Written(r) == \E i \in DOMAIN topic : topic[i] = r

BadAcknowledged(r) == TRUE
Acknowledged(r)    == Written(r)
Accept(r) ==
  /\ At(r, "inflight") /\ link # "closed"
  /\ Acknowledged(r)
  /\ Answer(r, 202)
  /\ UNCHANGED <<key, topic, producer, phase>>

\* The broker refuses, or times out with or without having written.
SendFails(r) ==
  /\ At(r, "inflight")
  /\ Answer(r, 503)
  /\ UNCHANGED <<key, topic, producer, phase>>

Step(r) ==
  \/ Lookup(r) \/ Compare(r) \/ Touch(r) \/ QueryFails(r)
  \/ Send(r) \/ Write(r) \/ Accept(r) \/ SendFails(r)

Next ==
  \/ \E k \in Keys : Revoke(k) \/ Delete(k)
  \/ OnModuleInit \/ Connected \/ ConnectFails
  \/ OnModuleDestroy \/ Disconnected \/ Stop \/ Crash
  \/ \E r \in Requests : Arrive(r) \/ Step(r)

Spec == Init /\ [][Next]_vars

-----------------------------------------------------------------------------
(* Properties. *)

\* The variables keep their shape; at most one producer.connect() is under way,
\* whatever the number of requests that ask for one.
TypeOK ==
  /\ key \in [Keys -> {"active", "revoked", "deleted"}]
  /\ req \in [Requests -> RequestStates]
  /\ topic \in Seq(Requests)
  /\ isConnected \in BOOLEAN
  /\ connectPromise \in {"none", "pending", "resolved", "rejected"}
  /\ link \in {"closed", "open", "closing"}
  /\ attempts \in 0..1
  /\ phase \in {"boot", "up", "closing", "destroyed", "stopped"}

\* What the client is told is true of the topic: 202 means its events are
\* written, and a client error or an internal error means none of them is, now
\* or later.  Only 503, and no answer at all, leave it open, so that only after
\* these a client that repeats its POST may have its logs stored twice.
AnswersAreTrue ==
  \A r \in Requests :
    /\ req[r].status = 202 => Written(r)
    /\ req[r].status \in {400, 401, 429, 500} => ~Written(r)

\* "Revoke a temporary key and confirm it no longer authenticates ingestion
\* requests": nothing is written for a request that came after the revocation.
RevokedIsRefused ==
  \A r \in Requests : req[r].stale => ~Written(r)

\* However requests, shutdown and failures interleave, the shared promise and the
\* flag tell the truth about the one connection: a request that reads them never
\* opens a second one, nor waits for one that nobody is opening.
OneConnection ==
  /\ connectPromise = "pending" <=> attempts = 1
  /\ isConnected <=> link # "closed"
  /\ isConnected <=> connectPromise = "resolved"

\* "Infrastructure clients are created once, participate in Nest lifecycle hooks,
\* and close during shutdown" (README): the connection is closed when the process
\* ends in order.
ClosedAtStop == phase = "stopped" => link = "closed"
=============================================================================
