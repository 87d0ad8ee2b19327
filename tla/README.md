# LogScope in TLA+

Specifications, TLC models and TLAPS proofs of the LogScope backend: the log
pipeline (ingestion service, Kafka, log processor, Elasticsearch, Redis), the
control plane (accounts, projects, members, API keys), historical search and live
subscriptions. Paths below are relative to the repository root.

## 1. Inventory

| Component | State it keeps | Operations | Interacts with |
|---|---|---|---|
| Ingestion service (`apps/ingestion-service`) | Kafka producer: `isConnected`, `connectPromise` | `POST /logs`, `POST /logs/batch`, life-cycle hooks | PostgreSQL (keys), topic `logs.raw.v1` |
| Rate limiter (`RateLimitGuard`) | `buckets` Map, `requestCount` | `canActivate`, sweep every 500 requests | the clock |
| Log processor (`apps/log-processor`) | consumer group membership, one handler per partition and replica; offsets are in Kafka | `handleMessage`: validate, normalize, redact, index, broadcast, commit, or dead-letter and commit | Kafka, Elasticsearch, Redis, `logs.dlq.v1` |
| Projects and members (`ProjectsService`) | tables `Project`, `ProjectMember` | create, rename, delete, add/update/remove member, role checks | PostgreSQL |
| API keys (`ApiKeysService`, `ApiKeyService`) | table `ApiKey` | create, list, revoke; validate on ingestion | PostgreSQL |
| Historical search (`LogSearchService`, `LogIndexService`) | none; cursors live with the client | `search`, `searchLogs` | Elasticsearch, memberships |
| Realtime (`RealtimeLogSubscriptionService`) | Redis subscription, in-process PubSub; Redis keeps nothing | subscribe, forward | Redis, memberships |
| Authentication (`AuthService`, `JwtAuthGuard`) | table `User`; tokens are stateless | register, login, refresh, guard | PostgreSQL |
| Normalization, redaction, contracts | none | pure functions | used by the processor and realtime |
| Index bootstrap (`ensureLogIndex`) | the index and its template | template, exists, create | Elasticsearch |
| Processor life cycle (`main.ts`, module hooks) | three clients and a consumer per process | init hooks at once, then the consumer; destroy hooks at once | Elasticsearch, Redis, Kafka |
| Configuration (`packages/config`) | none | `validateEnvironment` | read by every process |
| HTTP bootstrap, health | none | wiring, probes | |

What is hard about them, with the line where it bites, is listed under `hazards`
in `PROJECT.json`. In short:

* **Log processor.** Delivery is at least once. Four awaits per record, each of
  which can fail with or without effect; replicas that lost a partition run on
  and commit late; crashes between any two awaits; offsets that move backwards.
  Correct means: nothing accepted is lost, the events of a project keep their
  order, live events are searchable, repeats are bounded by failures, and
  everything is handled in the end.
* **Control plane.** No operation but `deleteProject` uses a transaction of
  several statements, and every check is a query before the write it guards.
  Correct means: ownership, the isolation of projects from each other and the
  permissions of the README survive all interleavings of queries.
* **Ingestion.** The answer to the client must be true of the topic although
  keys are revoked, brokers time out and the process is stopped meanwhile; one
  connection is shared by all requests.
* **Rate limiter.** Boundary instants, the sweep, counting of refused requests.
* **Search.** Page boundaries among equal timestamps while events arrive and
  shards refresh at different times.
* **API keys.** A key is found by a prefix that few bits tell apart, then compared
  by hash; creation, revocation, deletion of the project and validation race.
  Correct means: as if whole keys were looked up at one moment of the call.
* **Authentication.** Two kinds of token told apart by a secret and by a claim, with
  secrets from the environment; registration that fails after its insert. Correct
  means: as long as the secrets in use are not published ones, nobody gets in without
  having proved a password, as far as bcrypt reads it; and an owner is never refused.
* **Realtime.** Two validations of one event with a normalization between them, lost
  connections, subscriptions that come and go. Correct means: exactly the events
  of the project, in order; and no value under a sensitive key in a document, a
  broadcast or the payload of a dead letter.
* **Start-up.** Hooks in parallel, replicas racing to create the index, starts that
  fail half way. Correct means: no record is taken before its sinks are ready, and
  all replicas come up in the end.

## 2. Modules

| Module | Models | Kind |
|---|---|---|
| `LogDelivery` | what the pipeline promises: per partition a log, settled in order, acknowledged only when settled | abstract |
| `LogProcessor` | replicas of the processor, the consumer group, the three sinks | detailed, implements `LogDelivery` |
| `LogProcessorProofs` | its theorems, the refinement among them | proofs |
| `FixedWindow` | a quota per identity and window, no table | abstract |
| `RateLimit` | `RateLimitGuard` with its Map and sweep | detailed, implements `FixedWindow` |
| `RateLimitProofs` | its theorems | proofs |
| `ControlPlane` | `ProjectsService`, `ApiKeysService` over the schema | detailed |
| `ControlPlaneProofs` | its theorems | proofs |
| `LogSearch` | `LogSearchService`, `LogIndexService.searchLogs` | detailed |
| `Ingestion` | controller, guards, `KafkaProducerService`, shutdown | detailed |
| `IngestionProofs` | its theorems | proofs |
| `KeyAuthority` | what API keys promise: whole keys, each live for one project or none | abstract |
| `ApiKeys` | `ApiKeysService` and `ApiKeyService` over the table `ApiKey` | detailed, implements `KeyAuthority` |
| `ApiKeysProofs` | its theorems, the refinement among them | proofs |
| `Configuration` | `validateEnvironment` | operators |
| `AuthTokens` | `AuthService`, `JwtAuthGuard` over the table `User` | detailed, uses `Configuration` |
| `AuthTokensProofs` | its theorems | proofs |
| `Normalization` | the contract check, `normalizeLogEvent`, `redactSensitiveData` | operators, recursive functions |
| `Realtime` | the Redis channel, replicas of the API, subscriptions | detailed, uses `Normalization` |
| `LogViewsProofs` | the theorems of `LogSearch`, `Normalization` and `Realtime` | proofs |
| `ProcessorStartup` | life cycle of the processor's replicas, `ensureLogIndex` | detailed, uses `Configuration` |
| `ProcessorStartupProofs` | its theorems | proofs |
| `MC...` | instances for TLC: values, symmetry | |

Operators named `Bad...` are plausible mistakes in the operator beside them. No
specification uses them; each property is known to fail when one takes the place
of the correct operator (`mutants` in `PROJECT.json`).

### How state and actions correspond to the code

**One action per await.** A request or a handler runs without interruption between
two awaits (Node's event loop), so an action is the code from one await to the
next: the answer of the awaited call, the checks that follow and the start of the
next call. Its effect on the other end (a document, an offset, a row) happens in
the action that awaits it.

`LogProcessor`: `task[c][p]` is the program counter of replica `c` in
`handleMessage` for partition `p`: `HandleMessage` parses and validates,
`IndexLog`, `PublishRealtime`, `SendToDeadLetterQueue` and `CommitOffset` are its
awaits, and each has a variant `...Fails(c, p, tookEffect)` for a call that threw.
`HandleMessage` sends `Malformed` and `Invalid` payloads the same way, as the two
catch branches do. kafkajs is modelled from how it is used (`autoCommit: false`, a
rejected `eachMessage`): a record whose handler threw is offered again at the same
position, a restarted or reassigned partition is read from the committed offset,
and a handler in flight is not stopped by a rebalance but its record is not
offered again (`fresh`). `LOG_PROCESSOR_CONCURRENCY` only limits how many
partitions advance at once; the model lets all of them advance.

`ControlPlane`: `req[r]` is a request with its arguments and stage. Tables are
functions from ids to rows; the id of a row is the request that inserts it. Unique
indexes and foreign keys (`ON DELETE RESTRICT` in the migration) decide whether a
write succeeds. The three deletes of `deleteProject` are three actions: rows
deleted by the open transaction stay visible to others and are locked until the
last statement commits or fails. A wait that PostgreSQL would break as a deadlock
ends as `StatementFails`. The look-up of the user by e-mail in `addMember`, an
update without a name, and the choice of a key prefix change no modelled state and
are part of the neighbouring action.

`LogSearch`: one walk of one user through the pages of a search. `searchable` may lag
`stored` by any set of events (each shard refreshes alone), but what was found once is
found again: the repository runs a single node, and replica shards that refresh at
different times, or answers of some shards only, are outside the model. A message, and
a text searched for, is a set of words, since the match asks for all words (`and`).
`FollowsInput` keeps the bounds of `limit`; the length limits of texts are left out.

`Ingestion`: `req[r]` is a POST at one of the awaits of the guards, the producer
or the broker. The events of a batch have one key, so they are written as one
batch of one partition or not at all; the topic records which requests were
written. A batch that was sent may be written after its answer (`sent`), twice, or
after a crash. `key[k]` is what the control plane does to a key, an abstraction of
`ControlPlane.keys`. A signal that arrives while the process boots is not modelled.

`ApiKeys`: `rows` is the table `ApiKey`; a request names the row it creates, and the
row's hash is the key that request drew. `holderBar`, `issuedBar` and `callBar` map
table and requests to `KeyAuthority`: a call is decided when its row is looked up.
Who may manage keys is `ControlPlane`'s business and a free choice here.

`AuthTokens`: `conf` is what `validateEnvironment` returned for one of the
environments, or `Refused`, and then nothing runs. A token is its claims, its expiry
and the secret; `ForeignTokens` are those of other deployments that sign with either
of the published development secrets, for either type of token. A row of `users` has
the hash of a password, which is what bcrypt reads of it (`Hashed`): the first 72
bytes. Registration accepts at most 128 characters (`Registrable`), a log-in has no
maximum. `Configuration` knows of a raw value what the readers can tell of it: its
type, its trimmed text, its number.

`Realtime`: `Index`, `DeadLetter`, `DeadLetterUnparsed` and `Publish` are what the API
and the reader of dead letters can tell of the processor. A record of the topic is an
event of any quality or `NotJson`; a letter is its payload and whether its error may
repeat text of the record (`quotes`), as the message of `JSON.parse` may. `published`
is the history of the Redis channel, which Redis itself does not keep. `inbox[a]` is
what Redis has sent to replica `a` and the process has not handled; it is lost with
the connection. `AssertAccess` and `Subscribe` are the two awaits of `logReceived`,
`Forward` is `forwardMessage`. `Behind(a)` counts what replica `a` has forwarded or
lost.

`Normalization`: a text is its core, whether white space surrounds it, whether it has
upper-case letters, and its `size`: within the limit of the contract, past it, or past
it only once it is in lower case. JSON values are finite trees, drawn from a set
`Values` that contains the parts of its members and what redaction makes of them.
`Redact` is one call of `redactSensitiveData`, given the results of its recursive
calls. `Leaves` is what redaction is compared with: a value as its leaves and the
paths to them.

`ProcessorStartup`: the hooks of Elasticsearch (`es`), Redis and the dead-letter
producer of a process advance independently; `Settled` is what Nest does when a hook
resolves or rejects. A call may fail with or without effect, and a process that dies
may leave a request behind that is still carried out (`Leave`). Elasticsearch's
automatic creation of a missing index is modelled from its template's pattern.

`RateLimit`: a request is one step, since `canActivate` has no await. Identities
stand for the hash or address of `getIdentity`.

## 3. Runs

Distinct states in parentheses.

| Run | Configuration | Bounds, and why they are enough |
|---|---|---|
| `processor` (239,844) | `LogProcessor.cfg` | 2 replicas, 1 partition of 3 records drawn from good, dead and refused ones, 2 failures. Two replicas are enough for a stale owner beside a new one; three records for a commit that moves back past another; two failures for a failure during the recovery from one. Safety, the refinement of `LogDelivery`, and `HandledUnlessBlocked`. |
| `processor_fresh_group` | `LogProcessorFreshGroup.cfg` | violation, see findings. |
| `rate_limit` | `RateLimit.cfg` | 2 identities, quota 2 per window of 3 ticks, a sweep every 3 requests, 6 requests, 7 instants: two full windows and two sweeps, and every alignment of request, window end and sweep. |
| `control_plane` (235,051) | `ControlPlane.cfg` | 2 users, 4 requests, which are also the ids: a project and three operations, two of them racing or all; two projects, a row in one and a call for the other; or three projects whose slugs collide. Requests arrive in the order of their ids, and the first is of the first user, since ids and users are alike; once begun they interleave freely. Asked roles are `OWNER`, which is refused, and `ADMIN`. The second request may name its project `shop 2`, which the second try for `shop` collides with. |
| `control_plane_stale_role` | `ControlPlaneStaleRole.cfg` | violation, see findings. |
| `log_search` (166,878) | `LogSearch.cfg` | 6 events, four of them at one instant, one of another project and one of another service; 11 searches: pages of 1 and 2, ranges, services, environments, levels, trace id, text, an empty range and limits that are refused. |
| `ingestion` (38,074) | `Ingestion.cfg` | 2 requests, 1 key, 3 batches written: each request may be written twice, and one may be under way while the other meets a shutdown. |
| `ingestion_shutdown` | `IngestionShutdown.cfg` | violation, see findings. |
| `api_keys` (38,682) | `ApiKeys.cfg` | 3 requests (two that race and the creation they race for, or three creations), 2 projects, 4 keys of which three share a prefix, 2 draws, 2 instants. |
| `auth_tokens` (1,618,819) | `AuthTokens.cfg` | 3 requests (register, sign in or refresh, use), 9 environments, among them each published secret in the other's place, two spellings of an address, 2 passwords to register with and a longer one that bcrypt cannot tell from one of them, access tokens that live one tick (or are over before they are issued) and refresh tokens that live three, on a clock of four. |
| `realtime` (410,016) | `Realtime.cfg` | 3 records of two projects, one of them in trouble in one of six ways (a blank service, an empty one, too long a message, attributes that are no object, an environment that is too long in lower case, no JSON) and one with nested attributes; 3 publications, one replica, one subscription. Replicas share only the channel and subscriptions only the replica, so one of each meets every order of its own steps and the rest. `Values` is the attributes of these events, what redaction makes of them, and the parts of both. |
| `startup` (55,826) | `ProcessorStartup.cfg` | 2 replicas, 13 environments, 3 faults: the loser of the race for the index meets two more. |

Bounds that are part of a module (`TopicBound`, `FaultBound`, `TimeBound`,
`RequestBound`, `WriteBound`, the sets of requests) are guards of the environment's
actions; no property mentions them but type invariants. Two partitions are covered
by the theorems, which hold for any number of them, and not by a run.
Deadlock checking is off where a system may come to rest because its bounded
environment has nothing more to ask.

### Fairness

* `LogProcessor`: `WF(Step(c, p))`, a live process goes on with the promise it
  awaits, and kafkajs goes on fetching; `WF(NeededRebalance)`, the coordinator
  reassigns a partition whose owner left after the session timeout. Nothing is
  assumed of producers, failures, crashes and unprovoked rebalances; failures are
  finitely many, which is the usual "once the failures stop".
* `ControlPlane`: `WF(Step(r))`, the event loop and PostgreSQL serve a request;
  a request waiting for a lock is not enabled. That `StatementFails` may end it
  is not assumed.
* `LogSearch`: the API answers, and the user keeps asking for the next page.
* `ProcessorStartup`: calls are answered and hooks resolve (or fail, finitely often);
  an operator or supervisor starts what is down and kills what failed to start. The
  last is needed because the code does not end such a process itself, see below.

### Findings

1. **A fresh group skips what it had begun** (`processor_fresh_group`).
   `startKafkaConsumer` subscribes with `fromBeginning` false. Until the group's
   first commit in a partition, every restart begins at the end of the log, so a
   crash while the first record is handled loses that record and all that came
   meanwhile. `LogDelivery` therefore allows skipping for a partition without an
   acknowledged offset, and only then; `NoSilentLoss` says the same of the code.
2. **Stale roles** (`control_plane_stale_role`). A manager demoted between the role
   check and the write still writes. Ownership is not affected
   (`OwnerIsMember`, `OwnerRowIsFixed`, `OnlyOwnerDeletes` hold and are proved).
3. **The producer may be left connected** (`ingestion_shutdown`). Destroy hooks run
   while the server accepts; `send` connects again after `disconnect`.

### Behaviour worth knowing

Nothing in the repository says otherwise, and properties are stated with these
exceptions:

* A record whose document Elasticsearch refuses blocks its partition: the error is
  treated as an outage. `HandledUnlessBlocked` promises the rest.
* An event whose service or environment is white space passes validation, is
  indexed and published, and then dropped from live streams by the second validation
  (`OnlyWhiteSpace` in `StreamIsExact`). So is one whose environment has at most 50
  characters as sent and more in lower case, since `toLowerCase` makes two characters
  of some (`Outgrown`).
* The payload of a record that does not parse is not sent to the dead letter topic,
  but the message of the parser's error is, and may repeat a piece of it
  (`DeadLetterUnparsed`; the exception in `NothingSensitiveLeaves`).
* Stored environments and trace ids are trimmed and in lower case, but the filters
  of a search are used as given.
* Membership is checked when a subscription opens and not again; what is published
  while a replica is disconnected from Redis is not delivered later.
* `validateEnvironment` accepts equal JWT secrets. The claim in a token keeps the two
  kinds apart then (`AdmissionIsEarned`, `RefreshNeedsRefreshToken`).
* In production `readSecret` compares a secret with the published fallback of its own
  variable only, so the fallback of the other variable is accepted. Tokens of that kind
  are then not bound to this service. The two properties promise the rest:
  `AdmissionIsEarned` where the access secret is not published
  (`AccessSecretIsPrivate`), `RefreshNeedsRefreshToken` where the refresh secret is not
  (`RefreshSecretIsPrivate`).
* bcrypt reads 72 bytes of a password and registration accepts 128 characters, so two
  long passwords can be one to `login`. `SignInIsExact` says which: those with one
  hash, and no others.
* `validateEnvironment` accepts life times that cannot be read. Register and login
  answer 500 then, register after its insert.
* A processor that fails to start keeps its open clients and stays alive until it is
  killed: `bootstrap().catch` only sets the exit code.
* Of two replicas that both found the index missing, one fails to start.
* Of two revocations that overlap, the later one's time is kept; `lastUsedAt` may
  step back when calls overtake each other. Neither makes a revoked key valid
  (`RevocationHolds`, `UsageIsTracked`).
* Quotas are counted per replica of the ingestion service.

## 4. Proofs

All theorems hold for every value of the constants, from the named assumptions of
each module (sets, natural bounds, events identified by their id). Every safety
property that a passing run checks, every type invariant and every refinement is a
theorem.

* **`LogProcessorProofs`** The inductive invariant is the conjunction of the safety
  properties themselves. `NoSilentLoss` alone is not inductive: that a late commit
  of a replica that lost the partition is safe follows only from what that replica
  has known since it started, which is `HandlersInStep` (everything below its
  position is accounted for; at `commit` its own record is settled). Conversely a
  new handler has that knowledge because the committed offset it starts from is
  covered. Logs, documents and counts only grow (`Grows`), so knowledge does not
  go stale.
  `DuplicatesNeedFaults` needs a second invariant, `RepetitionInv`, a budget: for each
  record, the replicas that are sending it, those that will come to it as things
  stand, the rebalance that an abandoned partition is owed, and the times it was sent,
  make together at most one more than the failures. A send turns its sender into a
  count, a failed one makes the sender come again and is a failure, and a rebalance
  lets one more replica come, for which a crash or a failure has paid. A handler that
  runs on after a rebalance (`fresh` false) sends its record, and comes to it once
  more only if its replica holds the partition again.
  The refinement maps broadcasts and dead letters to `settled` and the committed
  offset to `acked`; each step is a step of `LogDelivery` or invisible.
* **`RateLimitProofs`** Sweeping keeps every live bucket (`SweepKeepsLive`), so the
  mapped windows do not see it; `CountRequest` maps to `Admit` or `Refuse`,
  `OpenWindow` to `Open`. `SlidingQuota` follows from an assignment of the admitted
  requests to windows, at most the quota to each, whose last agrees with the bucket of
  the table (`QuotaInv`): the requests of any span as long as a window lie in two.
* **`ControlPlaneProofs`** The invariant says what a request still knows when it
  writes: ids are minted once (so a row found mutable cannot reappear as an owner
  row), the owner of a project never changes, and the rows a delete holds belong
  to its project and to no other delete. The action properties follow from it. That no
  row is without its project (`NoOrphans`) is the database's doing and no property of
  the service, but the invariant needs it. `ChangesStayInProject` (`ChangesAreOwn`)
  rests on what a request has read of the row it writes: the row still belongs to the
  project of the request's role, or is gone.
* **`LogViewsProofs`** *History.* The cursor of a walk stands for the last item
  listed: all that is listed is at or before it, and what the first page could see and
  is not listed is after it. The sort order is total because event ids are unique.

  *Live.* `StreamIsExact` speaks of a subscription and the channel; it is kept by
  `Forward` only because the head of the inbox is the next of the channel, so the
  invariant `LiveInv` adds that every connection holds the last messages published
  (`ConnectionsInStep`), that a subscription has got nothing before it opens, and that
  one without gaps is on a connected replica and began no later than that replica is
  (`Streaming`). A lost connection empties the inbox and ends `intact` in one step.

  *Redaction.* `RedactionCuts` says of every JSON value, at any depth, that redaction
  cuts each path at its first sensitive key and leaves all other leaves alone. It is
  an induction over values, in the form the provers take: of a set of values that were
  redacted wrongly, a smallest member has parts that were redacted rightly
  (`Smallest`, by `Depth`). That the recursive equations of `redactSensitiveData` and
  `Leaves` have a solution is proved the same way (`Recursion`). What is assumed is
  that values nest finitely deep and that `Values` is closed under taking parts and
  redacting (`JsonAssumption`), which JSON documents are: `JSON.parse` yields finite
  trees, and redaction yields such a tree again. `InputsAssumption` says that a record
  that parses has the fields of the contract, valid or not, under its own id. With
  `FromTopic`, which traces every document and dead letter to its record, this gives
  `NothingSensitiveLeaves`. `DroppedExactly` says that the second validation drops an
  indexed event exactly if it is `Dropped`, for texts of every size.
* **`IngestionProofs`** A batch may be written long after its answer, so the invariant
  says where a request can stand once its batch is on its way (`SentIsFinal`): at
  the broker, told 202 or 503, or abandoned. A key that was stale when its request
  arrived never gets past the look-up (`StaleStopsEarly`). That no second connection
  is opened rests on the life cycle of the hooks (`LifeCycle`).
* **`ApiKeysProofs`** A row may be deleted under a request that has read it, so
  requests are tied to the creations that made rows, which are over and do not change
  (`RowsAreNamed`, `KnowsRow`, `KeysAreOwn`). The refinement of `KeyAuthority` decides
  a call where its row is looked up: the comparison that follows only tells whether
  the presented key is the one that creation drew.
* **`ProcessorStartupProofs`** The first half is about `Configuration`: what each
  reader returns for a value it accepts, so what a process that starts can rely on.
  The second says what each hook needs of the index and its template in every state
  of its process, which no other replica takes away.
* **`AuthTokensProofs`** A user may be removed from the table, but a
  registration that wrote its account never changes it again (`Made`), so log-ins
  are compared with registrations (`KnowsAccount`, `LoginsFit`), and each accepted
  token with the request that was answered with it (`SessionsFit`): a token of another
  deployment verifies only where the secret is a published one. Two assumptions
  are about values: the environments are drawn from `EnvironmentVariables`, and the
  published fallback secrets are strings, which the provers cannot tell of a literal.
  Life times may be negative, or none (`NoSpan`).

With TLC only: the liveness properties (`HandledUnlessBlocked`, `RequestsFinish`,
`WalkEnds`, `EveryReplicaConsumes`), since the provers know no `ENABLED`; and the
three violations, which are counterexamples and not theorems.

### From the client to the sinks

There is no module that composes `Ingestion` with `LogProcessor`: they share nothing
but the topic `logs.raw.v1`, which one only appends to and the other only reads, so
every behaviour of the pair is an interleaving of one of each. What holds end to end
follows from what is shown of each:

* 202 means the events are in the topic (`AnswersAreTrue`); what is in the topic is
  never acknowledged unhandled, but for a partition without a committed offset
  (`NoSilentLoss`), and is handled in the end unless a refused record precedes it in
  its partition (`HandledUnlessBlocked`).
* A POST that got 503, or no answer, may be in the topic all the same, and a client
  that repeats it sends new event ids: that is two different records for the
  processor. Repeats of one event id come from failures in the processor only
  (`DuplicatesNeedFaults`).
* What the processor publishes is searchable and redacted (`BroadcastIsSearchable`,
  `NothingSensitiveLeaves`), and what a stream shows is what was published
  (`StreamIsExact`).

## 5. Not modelled

Left out: health probes, request ids, HTTP and database wiring (no state of
their own); operations that only read (`listProjects`, `getProject`, `listApiKeys`,
`me`); password hashing, but for the 72 bytes that bcrypt reads, and token signatures
(library code);
`bulkIndexLogs`, which nothing calls; the web console. `prisma/seed.ts` and
`scripts/check-database.ts` import `apps/api/src/modules/database/prisma-client-options`,
which does not exist, and so do not run. Statuses and wording of API answers are
abstracted, except where a property is about them (`Ingestion`, `ApiKeys`,
`AuthTokens`).
