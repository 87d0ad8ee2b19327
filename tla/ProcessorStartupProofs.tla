----------------------- MODULE ProcessorStartupProofs -----------------------
(***************************************************************************)
(* For any number of replicas, any environment and any faults: what an      *)
(* accepted environment gives can be used, and no process takes a record    *)
(* before its index has its mappings and its clients are connected.         *)
(***************************************************************************)
EXTENDS ProcessorStartup, TLAPS

-----------------------------------------------------------------------------
(* The environment. *)

\* What an accepted environment's values are: those that the readers return.
LEMMA AcceptedValues ==
  ASSUME NEW e, validateEnvironment(e) # Refused
  PROVE  \E environment \in supportedEnvironments :
           /\ validateEnvironment(e)["NODE_ENV"] = environment
           /\ \A n \in Names \ {"NODE_ENV", "PORT"} :
                /\ ~Failed(readVariable(e, environment, n))
                /\ validateEnvironment(e)[n] = readVariable(e, environment, n).value
<1> DEFINE environment == readString(e["NODE_ENV"], "development")
           results == [n \in Names \ {"NODE_ENV", "PORT"} |->
                         readVariable(e, environment.value, n)]
<1>1. validateEnvironment(e) =
        IF Failed(environment) \/ environment.value \notin supportedEnvironments
             \/ \E n \in DOMAIN results : Failed(results[n])
          THEN Refused
          ELSE [n \in DOMAIN results \cup {"NODE_ENV"} |->
                  IF n = "NODE_ENV" THEN environment.value ELSE results[n].value]
  BY DEF validateEnvironment
<1>2. PICK v : v = environment.value
  OBVIOUS
<1>3. /\ DOMAIN results = Names \ {"NODE_ENV", "PORT"}
      /\ \A n \in Names \ {"NODE_ENV", "PORT"} : results[n] = readVariable(e, v, n)
  BY <1>2
<1> HIDE DEF environment, results
<1>4. /\ v \in supportedEnvironments /\ \A n \in DOMAIN results : ~Failed(results[n])
      /\ validateEnvironment(e) = [n \in DOMAIN results \cup {"NODE_ENV"} |->
                                     IF n = "NODE_ENV" THEN v ELSE results[n].value]
  BY <1>1, <1>2
<1>5. /\ validateEnvironment(e)["NODE_ENV"] = v
      /\ \A n \in Names \ {"NODE_ENV", "PORT"} :
           validateEnvironment(e)[n] = results[n].value
  BY <1>3, <1>4
<1> QED  BY <1>3, <1>4, <1>5

\* The names of the variables, by reader.
LEMMA Domains ==
  /\ DOMAIN StringFallback =
       {"APP_NAME", "APP_VERSION", "CORS_ORIGINS", "ELASTICSEARCH_LOGS_INDEX",
        "ELASTICSEARCH_NODE", "JWT_ACCESS_EXPIRES_IN", "JWT_REFRESH_EXPIRES_IN",
        "KAFKA_BROKERS", "KAFKA_CLIENT_ID", "LOG_PROCESSOR_GROUP_ID", "REDIS_URL"}
  /\ DOMAIN SecretFallback = {"JWT_ACCESS_SECRET", "JWT_REFRESH_SECRET"}
  /\ DOMAIN PortFallback = {"API_PORT", "INGESTION_PORT"}
  /\ DOMAIN NumberFallback = {"KAFKA_SEND_TIMEOUT_MS", "LOG_PROCESSOR_CONCURRENCY"}
<1>1. DOMAIN StringFallback =
       {"APP_NAME", "APP_VERSION", "CORS_ORIGINS", "ELASTICSEARCH_LOGS_INDEX",
        "ELASTICSEARCH_NODE", "JWT_ACCESS_EXPIRES_IN", "JWT_REFRESH_EXPIRES_IN",
        "KAFKA_BROKERS", "KAFKA_CLIENT_ID", "LOG_PROCESSOR_GROUP_ID", "REDIS_URL"}
  BY DEF StringFallback
<1>2. DOMAIN SecretFallback = {"JWT_ACCESS_SECRET", "JWT_REFRESH_SECRET"}
  BY DEF SecretFallback
<1>3. DOMAIN PortFallback = {"API_PORT", "INGESTION_PORT"}
  BY DEF PortFallback
<1>4. DOMAIN NumberFallback = {"KAFKA_SEND_TIMEOUT_MS", "LOG_PROCESSOR_CONCURRENCY"}
  BY DEF NumberFallback
<1> QED  BY <1>1, <1>2, <1>3, <1>4

\* Every variable has one reader.
LEMMA Readers ==
  ASSUME NEW e, NEW environment, NEW n
  PROVE  /\ n \in DOMAIN SecretFallback =>
              readVariable(e, environment, n) = readSecret(e[n], environment, SecretFallback[n])
         /\ n \in DOMAIN PortFallback =>
              readVariable(e, environment, n) = readPort(RawPort(e, n), PortFallback[n])
         /\ n \in DOMAIN NumberFallback =>
              readVariable(e, environment, n) = readPositiveInteger(e[n], NumberFallback[n])
<1>1. ASSUME n \in DOMAIN SecretFallback
      PROVE  n \notin DOMAIN StringFallback \cup DOMAIN PortFallback \cup DOMAIN NumberFallback
  BY <1>1, Domains
<1>2. ASSUME n \in DOMAIN PortFallback
      PROVE  n \notin DOMAIN StringFallback \cup DOMAIN SecretFallback \cup DOMAIN NumberFallback
  BY <1>2, Domains
<1>3. ASSUME n \in DOMAIN NumberFallback
      PROVE  n \notin DOMAIN StringFallback \cup DOMAIN SecretFallback \cup DOMAIN PortFallback
  BY <1>3, Domains
<1> QED  BY <1>1, <1>2, <1>3 DEF readVariable

\* The highest port is a number.
LEMMA MaxPortIsNat == MaxPort \in Nat
BY DEF MaxPort

\* A number that is read is positive, and a port is one that can be listened on.
LEMMA NumbersRead ==
  ASSUME NEW raw \in RawValues, NEW fallback \in 1 .. MaxPort
  PROVE  /\ ~Failed(readPositiveInteger(raw, fallback)) =>
              /\ readPositiveInteger(raw, fallback).value \in Nat
              /\ readPositiveInteger(raw, fallback).value > 0
         /\ ~Failed(readPort(raw, fallback)) =>
              readPort(raw, fallback).value \in 1 .. MaxPort
<1> DEFINE number == readPositiveInteger(raw, fallback)
<1>1. fallback \in Nat /\ fallback > 0
  BY MaxPortIsNat
<1>2. raw.number \in Nat
  BY DEF RawValues
<1>3. ASSUME ~Failed(number) PROVE number.value \in Nat /\ number.value > 0
  <2>1. number = Read(fallback) \/ (~(raw.number < 1) /\ number = Read(raw.number))
    BY <1>3 DEF readPositiveInteger, Failed
  <2>2. number.value = fallback \/ (~(raw.number < 1) /\ number.value = raw.number)
    BY <2>1 DEF Read
  <2> HIDE DEF number
  <2> QED  BY <1>1, <1>2, <2>2
<1>4. readPort(raw, fallback) = IF ~Failed(number) /\ number.value > MaxPort THEN Thrown ELSE number
  BY DEF readPort
<1> HIDE DEF number
<1>5. ASSUME ~Failed(readPort(raw, fallback))
      PROVE  readPort(raw, fallback).value \in 1 .. MaxPort
  <2>1. readPort(raw, fallback) = number /\ ~Failed(number) /\ ~(number.value > MaxPort)
    BY <1>4, <1>5 DEF Failed
  <2>2. PICK k : k = number.value
    OBVIOUS
  <2>3. k \in Nat /\ k > 0 /\ ~(k > MaxPort)
    BY <1>3, <2>1, <2>2
  <2>4. k \in 1 .. MaxPort
    BY <2>3, MaxPortIsNat
  <2> QED  BY <2>1, <2>2, <2>4
<1> QED  BY <1>3, <1>5 DEF number

\* A secret that is read in production is not its own published fallback.
LEMMA SecretRead ==
  ASSUME NEW raw, NEW fallback, ~Failed(readSecret(raw, "production", fallback))
  PROVE  readSecret(raw, "production", fallback).value # fallback
<1>1. raw.type # "undefined" /\ raw.text # fallback
  BY DEF readSecret, Failed
<1>2. readSecret(raw, "production", fallback) = Read(raw.text)
  BY <1>1 DEF readSecret, readString, Failed
<1> QED  BY <1>1, <1>2 DEF Read

\* The configuration that the processes share.
ConfigurationFits ==
  conf # Refused =>
    /\ conf.API_PORT \in 1 .. MaxPort /\ conf.INGESTION_PORT \in 1 .. MaxPort
    /\ conf.KAFKA_SEND_TIMEOUT_MS > 0 /\ conf.LOG_PROCESSOR_CONCURRENCY > 0
    /\ conf.NODE_ENV = "production" =>
         \A n \in DOMAIN SecretFallback : conf[n] # SecretFallback[n]

\* What an accepted environment gives: ports in range, a timeout, secrets of its own.
LEMMA InitConfiguration == Init => ConfigurationFits
<1> SUFFICES ASSUME Init, conf # Refused PROVE ConfigurationFits
  BY DEF ConfigurationFits
<1>1. PICK e \in EnvironmentVariables : conf = validateEnvironment(e)
  BY ProcessorStartupAssumption DEF Init
<1>2. PICK environment \in supportedEnvironments :
        /\ conf["NODE_ENV"] = environment
        /\ \A n \in Names \ {"NODE_ENV", "PORT"} :
             /\ ~Failed(readVariable(e, environment, n))
             /\ conf[n] = readVariable(e, environment, n).value
  BY <1>1, AcceptedValues
<1>3. \A n \in Names : e[n] \in RawValues
  BY DEF EnvironmentVariables
<1>4. \A n \in DOMAIN SecretFallback \cup DOMAIN PortFallback \cup DOMAIN NumberFallback :
        n \in Names \ {"NODE_ENV", "PORT"}
  BY Domains DEF Names
<1>5. ASSUME NEW n \in DOMAIN PortFallback PROVE conf[n] \in 1 .. MaxPort
  <2>1. ~Failed(readPort(RawPort(e, n), PortFallback[n]))
        /\ conf[n] = readPort(RawPort(e, n), PortFallback[n]).value
    BY <1>2, <1>4, Readers
  <2>2. PortFallback[n] \in 1 .. MaxPort
    <3>1. PortFallback["API_PORT"] \in 1 .. MaxPort /\ PortFallback["INGESTION_PORT"] \in 1 .. MaxPort
      BY DEF PortFallback, MaxPort
    <3> QED  BY <3>1, Domains
  <2>3. RawPort(e, n) \in RawValues
    BY <1>3, <1>4 DEF RawPort, Names
  <2> QED  BY <2>1, <2>2, <2>3, NumbersRead
<1>6. ASSUME NEW n \in DOMAIN NumberFallback PROVE conf[n] > 0
  <2>1. ~Failed(readPositiveInteger(e[n], NumberFallback[n]))
        /\ conf[n] = readPositiveInteger(e[n], NumberFallback[n]).value
    BY <1>2, <1>4, Readers
  <2>2. NumberFallback[n] \in 1 .. MaxPort
    <3>1. /\ NumberFallback["KAFKA_SEND_TIMEOUT_MS"] \in 1 .. MaxPort
          /\ NumberFallback["LOG_PROCESSOR_CONCURRENCY"] \in 1 .. MaxPort
      BY DEF NumberFallback, MaxPort
    <3> QED  BY <3>1, Domains
  <2>3. e[n] \in RawValues
    BY <1>3, <1>4
  <2> QED  BY <2>1, <2>2, <2>3, NumbersRead
<1>7. ASSUME NEW n \in DOMAIN SecretFallback, conf["NODE_ENV"] = "production"
      PROVE  conf[n] # SecretFallback[n]
  <2>1. ~Failed(readSecret(e[n], environment, SecretFallback[n]))
        /\ conf[n] = readSecret(e[n], environment, SecretFallback[n]).value
    BY <1>2, <1>4, Readers
  <2> QED  BY <1>2, <1>7, <2>1, SecretRead
<1>8. /\ {"API_PORT", "INGESTION_PORT"} \subseteq DOMAIN PortFallback
      /\ {"KAFKA_SEND_TIMEOUT_MS", "LOG_PROCESSOR_CONCURRENCY"} \subseteq DOMAIN NumberFallback
  BY Domains
<1> QED  BY <1>5, <1>6, <1>7, <1>8 DEF ConfigurationFits

-----------------------------------------------------------------------------
(* The life of a process. *)

\* A process goes on to the next phase when its clients are ready, and only then.
Fits(p) ==
  /\ p.phase = "down" => {p.es, p.redis, p.dlq, p.consumer} = {"off"}
  /\ p.phase = "init" => p.consumer = "off"
  /\ p.phase = "failed" => p.consumer \in {"off", "rejected"}
  /\ p.phase \in {"bootstrap", "up"} => p.es = "ready" /\ p.redis = "open" /\ p.dlq = "open"
  /\ p.phase = "bootstrap" => p.consumer \in {"connecting", "subscribing", "joining"}
  /\ p.phase = "up" => p.consumer = "running"
  /\ p.phase = "stopping" => /\ p.es \in {"off", "ready"}
                             /\ p.redis \in {"off", "open"} /\ p.dlq \in {"off", "open"}
                             /\ p.consumer \in {"off", "running"}

\* The index is there for who made sure of it and who takes records.
Needs(p) == p.es = "ready" \/ p.consumer \in {"joining", "running"}

IndInv ==
  /\ TypeOK
  /\ index # "guessed"
  /\ \A c \in Replicas : Fits(proc[c]) /\ (Needs(proc[c]) => index = "mapped")

\* Process c becomes p, and the index is what it was or has got its mappings.
Becomes(c, p) ==
  /\ p \in States /\ Fits(p) /\ (Needs(p) => index' = "mapped")
  /\ proc' = [proc EXCEPT ![c] = p]
  /\ index' \in {index, "mapped"}
  /\ conf' = conf /\ template' \in BOOLEAN

\* A process that moves so keeps the invariant, whatever fault the step used up.
LEMMA BecomesInd ==
  ASSUME IndInv, NEW c \in Replicas, NEW p, Becomes(c, p),
         faults' = faults \/ Fault
  PROVE  IndInv'
<1>1. /\ proc \in [Replicas -> States] /\ index \in {"none", "mapped"}
      /\ \A d \in Replicas : Fits(proc[d]) /\ (Needs(proc[d]) => index = "mapped")
  BY DEF IndInv, TypeOK
<1>2. /\ proc' \in [Replicas -> States] /\ proc'[c] = p
      /\ \A d \in Replicas : d # c => proc'[d] = proc[d]
      /\ index' \in {"none", "mapped"} /\ (index = "mapped" => index' = "mapped")
  BY <1>1 DEF Becomes
<1>3. \A d \in Replicas : Fits(proc'[d]) /\ (Needs(proc'[d]) => index' = "mapped")
  BY <1>1, <1>2 DEF Becomes
<1>4. (\A d \in Replicas : Fits(proc[d]) /\ (Needs(proc[d]) => index = "mapped"))'
  BY <1>3 DEF Fits, Needs
<1>5. faults' \in 0 .. FaultBound
  BY ProcessorStartupAssumption DEF IndInv, TypeOK, Fault
<1>6. conf' = conf /\ template' \in BOOLEAN
  BY DEF Becomes
<1>7. TypeOK'
  BY <1>2, <1>5, <1>6 DEF IndInv, TypeOK
<1> QED  BY <1>2, <1>4, <1>7 DEF IndInv

\* Settling a process keeps it fitting, and it needs no more than before.
LEMMA SettledFits ==
  ASSUME NEW p \in States, Fits(p)
  PROVE  /\ Settled(p) \in States /\ Fits(Settled(p))
         /\ Needs(Settled(p)) => Needs(p)
<1>1. CASE Settled(p) = p
  BY <1>1
<1>2. CASE p.phase = "init" /\ Settled(p) = [p EXCEPT !.phase = "failed"]
  BY <1>2 DEF States, Phases, Fits, Needs
<1>3. CASE /\ p.phase = "init" /\ p.es = "ready" /\ p.redis = "open" /\ p.dlq = "open"
           /\ Settled(p) = [p EXCEPT !.phase = "bootstrap", !.consumer = "connecting"]
  BY <1>3 DEF States, Phases, Fits, Needs
<1> QED  BY <1>1, <1>2, <1>3 DEF Settled

\* The facts about a process that a step starts from.
LEMMA AtWork ==
  ASSUME IndInv, NEW c \in Replicas
  PROVE  /\ proc[c] \in States /\ Fits(proc[c]) /\ (Needs(proc[c]) => index = "mapped")
         /\ index \in {"none", "mapped"} /\ template \in BOOLEAN
BY DEF IndInv, TypeOK

\* A hook's step: from p, which fits, the process settles.
LEMMA HookInd ==
  ASSUME IndInv, NEW c \in Replicas, NEW p \in States, Fits(p), SetHook(c, p),
         Needs(p) => index' = "mapped", index' \in {index, "mapped"},
         conf' = conf, template' \in BOOLEAN, faults' = faults \/ Fault
  PROVE  IndInv'
<1>1. Becomes(c, Settled(p))
  BY SettledFits DEF Becomes, SetHook
<1> QED  BY <1>1, BecomesInd

\* While Elasticsearch's hook is at work the process is starting or has failed.
LEMMA EnsureLogIndexInd ==
  ASSUME IndInv, NEW c \in Replicas,
         \/ PutLogIndexTemplate(c) \/ Exists(c) \/ Create(c) \/ EnsureLogIndexFails(c)
  PROVE  IndInv'
<1>1. ASSUME proc[c].es \in {"template", "exists", "create"},
             NEW es \in {"exists", "create", "ready", "rejected"},
             SetHook(c, [proc[c] EXCEPT !.es = es]), es = "ready" => index' = "mapped",
             index' \in {index, "mapped"}, conf' = conf, template' \in BOOLEAN,
             faults' = faults \/ Fault
      PROVE  IndInv'
  <2>1. PICK p : p = [proc[c] EXCEPT !.es = es]
    OBVIOUS
  <2>2. p \in States /\ Fits(p) /\ (Needs(p) => es = "ready")
    BY <1>1, <2>1, AtWork DEF States, Fits, Needs, Phases
  <2> QED  BY <1>1, <2>1, <2>2, HookInd
<1>2. CASE PutLogIndexTemplate(c)
  BY <1>1, <1>2 DEF PutLogIndexTemplate
<1>3. CASE Exists(c)
  <2>1. AfterExists \in {"create", "ready"} /\ (AfterExists = "ready" => index = "mapped")
    BY AtWork DEF AfterExists
  <2> QED  BY <1>1, <1>3, <2>1, AtWork DEF Exists
<1>4. CASE Create(c)
  <2>1. index' = "mapped"
    BY <1>4, AtWork DEF Create
  <2>2. CASE index = "none"
    BY <1>1, <1>4, <2>1, <2>2, AtWork DEF Create
  <2>3. CASE index # "none"
    BY <1>1, <1>4, <2>1, <2>3, AtWork DEF Create
  <2> QED  BY <2>2, <2>3
<1>5. CASE EnsureLogIndexFails(c)
  <2>1. /\ proc[c].es \in {"template", "exists", "create"} /\ index' \in {index, "mapped"}
        /\ template' \in BOOLEAN /\ conf' = conf /\ Fault
        /\ SetHook(c, [proc[c] EXCEPT !.es = "rejected"])
    BY <1>5, AtWork DEF EnsureLogIndexFails
  <2> QED  BY <1>1, <2>1
<1> QED  BY <1>2, <1>3, <1>4, <1>5

\* So it is while another client connects.
LEMMA ConnectInd ==
  ASSUME IndInv, NEW c \in Replicas, ConnectRedis(c) \/ ConnectProducer(c)
  PROVE  IndInv'
<1>1. UNCHANGED <<conf, template, index>> /\ (faults' = faults \/ Fault)
  BY DEF ConnectRedis, ConnectProducer
<1>2. PICK p : /\ SetHook(c, p)
               /\ \/ /\ proc[c].redis = "connecting"
                     /\ \E s \in {"open", "rejected"} : p = [proc[c] EXCEPT !.redis = s]
                  \/ /\ proc[c].dlq = "connecting"
                     /\ \E s \in {"open", "rejected"} : p = [proc[c] EXCEPT !.dlq = s]
  BY DEF ConnectRedis, ConnectProducer
<1>3. p \in States /\ Fits(p) /\ (Needs(p) => Needs(proc[c]))
  <2>1. CASE /\ proc[c].redis = "connecting"
             /\ \E s \in {"open", "rejected"} : p = [proc[c] EXCEPT !.redis = s]
    BY <2>1, AtWork DEF States, Fits, Needs, Phases
  <2>2. CASE /\ proc[c].dlq = "connecting"
             /\ \E s \in {"open", "rejected"} : p = [proc[c] EXCEPT !.dlq = s]
    BY <2>2, AtWork DEF States, Fits, Needs, Phases
  <2> QED  BY <1>2, <2>1, <2>2
<1> QED  BY <1>1, <1>2, <1>3, AtWork, HookInd

\* The consumer starts when the index is there.
LEMMA ConsumerInd ==
  ASSUME IndInv, NEW c \in Replicas, StartKafkaConsumer(c)
  PROVE  IndInv'
<1>1. /\ proc[c].phase = "bootstrap" /\ UNCHANGED <<conf, template, index>>
      /\ (faults' = faults \/ Fault)
  BY DEF StartKafkaConsumer
<1>2. index = "mapped" /\ proc[c].consumer \in {"connecting", "subscribing", "joining"}
  BY <1>1, AtWork DEF Fits, Needs
<1>3. PICK p : /\ proc' = [proc EXCEPT ![c] = p]
               /\ \/ \E s \in {"subscribing", "joining"} :
                        p = [proc[c] EXCEPT !.consumer = s]
                  \/ p = [proc[c] EXCEPT !.consumer = "running", !.phase = "up"]
                  \/ p = [proc[c] EXCEPT !.consumer = "rejected", !.phase = "failed"]
  <2>1. proc \in [Replicas -> States] /\ proc[c] \in States
    BY DEF IndInv, TypeOK
  <2>2. PICK s \in {"subscribing", "joining", "running"} : s = AfterCall[proc[c].consumer]
    BY <1>2 DEF AfterCall
  <2>3. \/ proc' = [proc EXCEPT ![c].consumer = s,
                                ![c].phase = IF s = "running" THEN "up" ELSE @]
        \/ proc' = [proc EXCEPT ![c].consumer = "rejected", ![c].phase = "failed"]
    BY <2>2 DEF StartKafkaConsumer
  <2>4. CASE proc' = [proc EXCEPT ![c].consumer = "rejected", ![c].phase = "failed"]
    BY <2>1, <2>4
  <2>5. CASE /\ s = "running"
             /\ proc' = [proc EXCEPT ![c].consumer = s,
                                     ![c].phase = IF s = "running" THEN "up" ELSE @]
    <3>1. proc' = [proc EXCEPT ![c] = [proc[c] EXCEPT !.consumer = "running", !.phase = "up"]]
      BY <2>1, <2>5
    <3> QED  BY <3>1
  <2>6. CASE /\ s # "running"
             /\ proc' = [proc EXCEPT ![c].consumer = s,
                                     ![c].phase = IF s = "running" THEN "up" ELSE @]
    <3>1. proc' = [proc EXCEPT ![c] = [proc[c] EXCEPT !.consumer = s]]
      BY <2>1, <2>6 DEF States
    <3> QED  BY <2>6, <3>1
  <2> QED  BY <2>3, <2>4, <2>5, <2>6
<1>4. proc[c] \in States /\ Fits(proc[c])
  BY AtWork
<1>5. p \in States
  BY <1>3, <1>4 DEF States, Phases
<1>6. Fits(p)
  <2>1. CASE \E s \in {"subscribing", "joining"} : p = [proc[c] EXCEPT !.consumer = s]
    BY <1>1, <1>4, <2>1 DEF States, Fits
  <2>2. CASE p = [proc[c] EXCEPT !.consumer = "running", !.phase = "up"]
    BY <1>1, <1>4, <2>2 DEF States, Fits
  <2>3. CASE p = [proc[c] EXCEPT !.consumer = "rejected", !.phase = "failed"]
    BY <1>1, <1>4, <2>3 DEF States, Fits
  <2> QED  BY <1>3, <2>1, <2>2, <2>3
<1>7. Becomes(c, p)
  BY <1>1, <1>2, <1>3, <1>5, <1>6, AtWork DEF Becomes
<1> QED  BY <1>1, <1>7, BecomesInd

\* A document is written to an index that is there.
LEMMA WriteDocumentInd ==
  ASSUME IndInv, NEW c \in Replicas, WriteDocument(c)
  PROVE  IndInv'
<1>1. UNCHANGED vars
  <2>1. index = "mapped"
    BY AtWork DEF WriteDocument, Consuming, Needs
  <2> QED  BY <2>1 DEF WriteDocument, vars
<1> QED  BY <1>1 DEF IndInv, TypeOK, vars

\* A process comes up, or goes down in any way.
LEMMA LifeInd ==
  ASSUME IndInv, NEW c \in Replicas,
         \/ Boot(c) \/ Terminate(c) \/ OnModuleDestroy(c) \/ Die(c) \/ KillFailed(c)
  PROVE  IndInv'
<1>1. /\ Down \in States /\ Fits(Down) /\ ~Needs(Down)
      /\ Starting \in States /\ Fits(Starting) /\ ~Needs(Starting)
  BY DEF Down, Starting, States, Phases, Fits, Needs
<1>2. CASE Boot(c)
  <2>1. Becomes(c, Starting) /\ faults' = faults
    BY <1>1, <1>2, AtWork DEF Boot, Becomes
  <2> QED  BY <2>1, BecomesInd
<1>3. CASE Terminate(c)
  <2>1. proc[c].phase = "up" /\ Fault /\ UNCHANGED <<conf, template, index>>
        /\ proc' = [proc EXCEPT ![c].phase = "stopping"]
    BY <1>3 DEF Terminate
  <2>2. PICK p : p = [proc[c] EXCEPT !.phase = "stopping"]
    OBVIOUS
  <2>3. proc' = [proc EXCEPT ![c] = p]
    BY <2>1, <2>2
  <2>4. p \in States /\ Fits(p) /\ (Needs(p) => Needs(proc[c]))
    BY <2>1, <2>2, AtWork DEF States, Phases, Fits, Needs
  <2>5. Becomes(c, p)
    BY <2>1, <2>3, <2>4, AtWork DEF Becomes
  <2> QED  BY <2>1, <2>5, BecomesInd
<1>4. CASE OnModuleDestroy(c)
  <2>1. proc[c].phase = "stopping" /\ UNCHANGED <<conf, template, index, faults>>
    BY <1>4 DEF OnModuleDestroy
  <2>2. PICK client \in {"es", "redis", "dlq", "consumer"} : \E p :
          /\ p = Down \/ p = [proc[c] EXCEPT ![client] = "off"]
          /\ proc' = [proc EXCEPT ![c] = p]
    BY <1>4 DEF OnModuleDestroy
  <2>3. PICK p : /\ p = Down \/ p = [proc[c] EXCEPT ![client] = "off"]
                 /\ proc' = [proc EXCEPT ![c] = p]
    BY <2>2
  <2>4. p \in States /\ Fits(p) /\ (Needs(p) => Needs(proc[c]))
    <3>1. CASE p = Down
      BY <1>1, <3>1
    <3>2. CASE p = [proc[c] EXCEPT ![client] = "off"]
      BY <2>1, <3>2, AtWork DEF States, Phases, Fits, Needs
    <3> QED  BY <2>3, <3>1, <3>2
  <2>5. Becomes(c, p)
    BY <2>1, <2>3, <2>4, AtWork DEF Becomes
  <2> QED  BY <2>1, <2>5, BecomesInd
<1>5. CASE Die(c) \/ KillFailed(c)
  <2>1. Leave(c) /\ (faults' = faults \/ Fault)
    BY <1>5 DEF Die, KillFailed
  <2>2. Becomes(c, Down)
    BY <1>1, <2>1, AtWork DEF Leave, Becomes
  <2> QED  BY <2>1, <2>2, BecomesInd
<1> QED  BY <1>2, <1>3, <1>4, <1>5

-----------------------------------------------------------------------------
(* The theorems. *)

\* The invariant holds when nothing runs.
LEMMA InitInd == Init => IndInv
<1> SUFFICES ASSUME Init PROVE IndInv
  OBVIOUS
<1>1. /\ proc \in [Replicas -> States] /\ index \in {"none", "mapped"}
      /\ \A c \in Replicas : Fits(proc[c]) /\ ~Needs(proc[c])
  BY DEF Init, Down, States, Phases, Fits, Needs
<1>2. template \in BOOLEAN /\ faults \in 0 .. FaultBound
  <2>1. template \in BOOLEAN /\ faults = 0
    BY DEF Init
  <2> QED  BY <2>1, ProcessorStartupAssumption
<1>3. ConfigurationFits
  BY InitConfiguration
<1>4. TypeOK
  BY <1>1, <1>2, <1>3 DEF TypeOK, ConfigurationFits
<1> QED  BY <1>1, <1>4 DEF IndInv

\* The invariant is inductive.
LEMMA NextInd == IndInv /\ [Next]_vars => IndInv'
<1>1. ASSUME IndInv, UNCHANGED vars PROVE IndInv'
  BY <1>1 DEF vars, IndInv, TypeOK
<1> QED
  BY <1>1, EnsureLogIndexInd, ConnectInd, ConsumerInd, WriteDocumentInd, LifeInd
  DEF Next, StartStep

\* The invariant holds in every reachable state.
THEOREM Invariance == Spec => []IndInv
BY InitInd, NextInd, PTL DEF Spec

\* Whatever the environment says, a configuration that is accepted has ports that
\* can be listened on, positive numbers and, in production, secrets of its own.
THEOREM TypeCorrect == Spec => []TypeOK
<1>1. IndInv => TypeOK
  BY DEF IndInv
<1> QED  BY <1>1, Invariance, PTL

\* However many replicas start, fail, die and stop, none takes a record before the
\* index has its mappings and its own clients are connected.
THEOREM StartIsOrdered == Spec => []ReadyBeforeConsuming
<1>1. ASSUME IndInv, NEW c \in Replicas, Consuming(c)
      PROVE  /\ index = "mapped"
             /\ proc[c].phase # "stopping" => proc[c].redis = "open" /\ proc[c].dlq = "open"
  <2>1. proc[c].phase \in Phases
    BY <1>1, AtWork DEF States
  <2> QED  BY <1>1, <2>1, AtWork DEF Fits, Needs, Consuming, Phases
<1>2. IndInv => ReadyBeforeConsuming
  BY <1>1 DEF IndInv, ReadyBeforeConsuming
<1> QED  BY <1>2, Invariance, PTL
=============================================================================
