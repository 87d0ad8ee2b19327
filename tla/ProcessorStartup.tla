-------------------------- MODULE ProcessorStartup --------------------------
(***************************************************************************)
(* How replicas of the log processor start and stop.  A process validates   *)
(* its environment, runs the onModuleInit hooks of its three clients at the *)
(* same time, and only when all have resolved starts its consumer.  One     *)
(* rejected hook fails the start, while the others go on.  The hook of      *)
(* Elasticsearch makes sure of the index: template, exists, create.  On     *)
(* SIGTERM the destroy hooks of all clients run at the same time.           *)
(*                                                                          *)
(* Elasticsearch makes a missing index when a document is written, with     *)
(* the mappings of a template whose pattern matches its name, else with     *)
(* mappings it guesses.  The handlers are in LogProcessor.                  *)
(***************************************************************************)
EXTENDS Configuration

CONSTANTS
  Replicas,      \* processes, with one environment
  Environments,  \* bound: the environments of a run
  FaultBound     \* bound on calls that fail, signals and deaths

ASSUME ProcessorStartupAssumption ==
  /\ Environments \subseteq EnvironmentVariables
  /\ FaultBound \in Nat

VARIABLES
  conf,      \* what validateEnvironment makes of the environment
  proc,      \* what each process is doing
  template,  \* the index template is there
  index,     \* "none", "mapped" with LOG_INDEX_MAPPINGS, "guessed"
  faults

vars == <<conf, proc, template, index, faults>>

Phases == {"down", "init", "bootstrap", "up", "stopping", "failed"}
States == [phase : Phases,
           es : {"off", "template", "exists", "create", "ready", "rejected"},
           redis : {"off", "connecting", "open", "rejected"},
           dlq : {"off", "connecting", "open", "rejected"},
           consumer : {"off", "connecting", "subscribing", "joining", "running",
                       "rejected"}]

Down == [phase |-> "down", es |-> "off", redis |-> "off", dlq |-> "off",
         consumer |-> "off"]
Starting == [phase |-> "init", es |-> "template", redis |-> "connecting",
             dlq |-> "connecting", consumer |-> "off"]

Init ==
  /\ conf \in {validateEnvironment(e) : e \in Environments}
  /\ proc = [c \in Replicas |-> Down]
  /\ template = FALSE
  /\ index \in {"none", "mapped"}
  /\ faults = 0

Fault == faults < FaultBound /\ faults' = faults + 1

\* main.ts: ConfigModule.forRoot throws when the environment is refused.
Boot(c) ==
  /\ proc[c].phase = "down" /\ conf # Refused
  /\ proc' = [proc EXCEPT ![c] = Starting]
  /\ UNCHANGED <<conf, template, index, faults>>

\* The init hooks are awaited together; onApplicationBootstrap comes after them.
\* The mistake: ensureLogIndex is not awaited.
BadSettled(p) ==
  IF p.phase = "init" /\ p.redis = "open" /\ p.dlq = "open"
    THEN [p EXCEPT !.phase = "bootstrap", !.consumer = "connecting"]
    ELSE p
Settled(p) ==
  IF p.phase = "init" /\ "rejected" \in {p.es, p.redis, p.dlq}
    THEN [p EXCEPT !.phase = "failed"]
  ELSE IF p.phase = "init" /\ p.es = "ready" /\ p.redis = "open" /\ p.dlq = "open"
    THEN [p EXCEPT !.phase = "bootstrap", !.consumer = "connecting"]
  ELSE p

SetHook(c, p) == proc' = [proc EXCEPT ![c] = Settled(p)]

-----------------------------------------------------------------------------
(* ensureLogIndex. *)

PutLogIndexTemplate(c) ==
  /\ proc[c].es = "template"
  /\ template' = TRUE
  /\ SetHook(c, [proc[c] EXCEPT !.es = "exists"])
  /\ UNCHANGED <<conf, index, faults>>

BadAfterExists == "create"
AfterExists    == IF index = "none" THEN "create" ELSE "ready"
Exists(c) ==
  /\ proc[c].es = "exists"
  /\ SetHook(c, [proc[c] EXCEPT !.es = AfterExists])
  /\ UNCHANGED <<conf, template, index, faults>>

\* Of two processes that found the index missing the second is refused.
Create(c) ==
  /\ proc[c].es = "create"
  /\ index' = IF index = "none" THEN "mapped" ELSE index
  /\ SetHook(c, [proc[c] EXCEPT !.es = IF index = "none" THEN "ready" ELSE "rejected"])
  /\ UNCHANGED <<conf, template, faults>>

\* A call fails, with its effect or without.
EnsureLogIndexFails(c) ==
  /\ Fault
  /\ \/ /\ proc[c].es \in {"template", "exists", "create"}
        /\ UNCHANGED <<template, index>>
     \/ /\ proc[c].es = "template"
        /\ template' = TRUE
        /\ UNCHANGED index
     \/ /\ proc[c].es = "create" /\ index = "none"
        /\ index' = "mapped"
        /\ UNCHANGED template
  /\ SetHook(c, [proc[c] EXCEPT !.es = "rejected"])
  /\ UNCHANGED conf

-----------------------------------------------------------------------------
(* The other hooks and the consumer. *)

ConnectRedis(c) ==
  /\ proc[c].redis = "connecting"
  /\ \/ SetHook(c, [proc[c] EXCEPT !.redis = "open"]) /\ UNCHANGED faults
     \/ SetHook(c, [proc[c] EXCEPT !.redis = "rejected"]) /\ Fault
  /\ UNCHANGED <<conf, template, index>>

ConnectProducer(c) ==
  /\ proc[c].dlq = "connecting"
  /\ \/ SetHook(c, [proc[c] EXCEPT !.dlq = "open"]) /\ UNCHANGED faults
     \/ SetHook(c, [proc[c] EXCEPT !.dlq = "rejected"]) /\ Fault
  /\ UNCHANGED <<conf, template, index>>

\* startKafkaConsumer: connect, subscribe, run.  Records may come before run
\* resolves.
AfterCall == [connecting |-> "subscribing", subscribing |-> "joining", joining |-> "running"]
StartKafkaConsumer(c) ==
  /\ proc[c].phase = "bootstrap"
  /\ LET next == AfterCall[proc[c].consumer]
     IN  \/ /\ proc' = [proc EXCEPT ![c].consumer = next,
                                    ![c].phase = IF next = "running" THEN "up" ELSE @]
            /\ UNCHANGED faults
         \/ /\ proc' = [proc EXCEPT ![c].consumer = "rejected", ![c].phase = "failed"]
            /\ Fault
  /\ UNCHANGED <<conf, template, index>>

Consuming(c) == proc[c].consumer \in {"joining", "running"}

TemplateMatches == conf.ELASTICSEARCH_LOGS_INDEX = StringFallback.ELASTICSEARCH_LOGS_INDEX

\* A handler writes a document; its client is open.
WriteDocument(c) ==
  /\ Consuming(c) /\ proc[c].es # "off"
  /\ index' = IF index # "none" THEN index
              ELSE IF template /\ TemplateMatches THEN "mapped" ELSE "guessed"
  /\ UNCHANGED <<conf, proc, template, faults>>

-----------------------------------------------------------------------------
(* The end of a process. *)

\* SIGTERM, once shutdown hooks are enabled.
Terminate(c) ==
  /\ proc[c].phase = "up"
  /\ Fault
  /\ proc' = [proc EXCEPT ![c].phase = "stopping"]
  /\ UNCHANGED <<conf, template, index>>

\* The destroy hook of one of the clients resolves; with the last the process ends.
OnModuleDestroy(c) ==
  /\ proc[c].phase = "stopping"
  /\ \E client \in {"es", "redis", "dlq", "consumer"} :
       /\ proc[c][client] # "off"
       /\ LET p == [proc[c] EXCEPT ![client] = "off"]
          IN  proc' = [proc EXCEPT ![c] =
                IF {p.es, p.redis, p.dlq, p.consumer} = {"off"} THEN Down ELSE p]
  /\ UNCHANGED <<conf, template, index, faults>>

\* What it asked of Elasticsearch last may still be done.
Leave(c) ==
  /\ proc' = [proc EXCEPT ![c] = Down]
  /\ template' \in {template, template \/ proc[c].es = "template"}
  /\ index' \in {index, IF proc[c].es = "create" /\ index = "none" THEN "mapped" ELSE index}
  /\ UNCHANGED conf

\* It dies, or is killed before it listens to signals.
Die(c) == proc[c].phase # "down" /\ Leave(c) /\ Fault

\* bootstrap().catch only sets the exit code: what is open keeps the process alive
\* until an operator kills it.
KillFailed(c) == proc[c].phase = "failed" /\ Leave(c) /\ UNCHANGED faults

StartStep(c) ==
  \/ PutLogIndexTemplate(c) \/ Exists(c) \/ Create(c)
  \/ ConnectRedis(c) \/ ConnectProducer(c) \/ StartKafkaConsumer(c)

Next ==
  \E c \in Replicas :
    \/ Boot(c) \/ StartStep(c) \/ EnsureLogIndexFails(c) \/ WriteDocument(c)
    \/ Terminate(c) \/ OnModuleDestroy(c) \/ Die(c) \/ KillFailed(c)

Spec == Init /\ [][Next]_vars

\* Calls are answered, hooks resolve, and an operator looks after processes that
\* are down or have failed to start.
Fairness ==
  \A c \in Replicas :
    /\ WF_vars(Boot(c)) /\ WF_vars(KillFailed(c)) /\ WF_vars(OnModuleDestroy(c))
    /\ WF_vars(PutLogIndexTemplate(c)) /\ WF_vars(Exists(c)) /\ WF_vars(Create(c))
    /\ WF_vars(ConnectRedis(c)) /\ WF_vars(ConnectProducer(c))
    /\ WF_vars(StartKafkaConsumer(c))
FairSpec == Spec /\ Fairness

-----------------------------------------------------------------------------
(* Properties. *)

\* An accepted environment gives ports that can be listened on, positive numbers
\* and, in production, secrets that differ each from its own published fallback,
\* however they were written; the processes are in states of the life cycle.
TypeOK ==
  /\ conf # Refused =>
       /\ conf.API_PORT \in 1 .. MaxPort /\ conf.INGESTION_PORT \in 1 .. MaxPort
       /\ conf.KAFKA_SEND_TIMEOUT_MS > 0 /\ conf.LOG_PROCESSOR_CONCURRENCY > 0
       /\ conf.NODE_ENV = "production" =>
            \A n \in DOMAIN SecretFallback : conf[n] # SecretFallback[n]
  /\ proc \in [Replicas -> States]
  /\ template \in BOOLEAN
  /\ index \in {"none", "mapped", "guessed"}
  /\ faults \in 0 .. FaultBound

\* Whatever other processes do meanwhile and however starts fail, no process takes
\* a record before the index it writes to has LOG_INDEX_MAPPINGS, whatever the
\* configured name, and before it can broadcast and dead-letter; so the mappings
\* are never guessed from a document.
ReadyBeforeConsuming ==
  /\ index # "guessed"
  /\ \A c \in Replicas : Consuming(c) =>
       /\ index = "mapped"
       /\ proc[c].phase # "stopping" => proc[c].redis = "open" /\ proc[c].dlq = "open"

\* Losing the race to create the index costs one start, not all: once faults stop
\* every replica of an accepted environment comes to consume and goes on.
EveryReplicaConsumes ==
  conf # Refused => \A c \in Replicas : <>[](proc[c].phase = "up")
=============================================================================
