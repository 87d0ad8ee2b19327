--------------------------- MODULE Configuration ---------------------------
(***************************************************************************)
(* validateEnvironment of packages/config, which every process runs on its  *)
(* environment before anything else: either all values are read, or the     *)
(* process does not start.  Pure operators.                                 *)
(*                                                                          *)
(* A raw value is what the code can tell of it: whether it is there, its    *)
(* type, its text once trimmed, and the number that Number() makes of it    *)
(* when that is an integer above zero, else 0.                              *)
(***************************************************************************)
EXTENDS Naturals

RawValues ==
  [type : {"undefined", "string", "number", "object"}, text : STRING, number : Nat]

Unset == [type |-> "undefined", text |-> "", number |-> 0]
Text(t)   == [type |-> "string", text |-> t, number |-> 0]
Digits(n) == [type |-> "string", text |-> "digits", number |-> n]
Number(n) == [type |-> "number", text |-> "", number |-> n]
Other == [type |-> "object", text |-> "", number |-> 0]

\* What a reader returns instead of throwing.
Thrown == [thrown |-> TRUE]
Read(value) == [value |-> value]
Failed(result) == result = Thrown

StringFallback ==
  [APP_NAME                 |-> "LogScope",
   APP_VERSION              |-> "0.1.0",
   CORS_ORIGINS             |-> "http://localhost:3000,http://localhost:5173",
   ELASTICSEARCH_LOGS_INDEX |-> "syspulse-logs",
   ELASTICSEARCH_NODE       |-> "http://localhost:9200",
   JWT_ACCESS_EXPIRES_IN    |-> "15m",
   JWT_REFRESH_EXPIRES_IN   |-> "7d",
   KAFKA_BROKERS            |-> "localhost:9092",
   KAFKA_CLIENT_ID          |-> "logscope",
   LOG_PROCESSOR_GROUP_ID   |-> "logscope-log-processor-v1",
   REDIS_URL                |-> "redis://localhost:16379"]
SecretFallback ==
  [JWT_ACCESS_SECRET  |-> "dev-access-secret-change-me",
   JWT_REFRESH_SECRET |-> "dev-refresh-secret-change-me"]
PortFallback   == [API_PORT |-> 3000, INGESTION_PORT |-> 3001]
NumberFallback == [KAFKA_SEND_TIMEOUT_MS |-> 10000, LOG_PROCESSOR_CONCURRENCY |-> 4]

supportedEnvironments == {"development", "test", "production"}
Names ==
  {"NODE_ENV", "PORT"} \cup DOMAIN StringFallback \cup DOMAIN SecretFallback
    \cup DOMAIN PortFallback \cup DOMAIN NumberFallback

EnvironmentVariables == [Names -> RawValues]

\* An environment with nothing set.
Bare == [n \in Names |-> Unset]

readString(raw, fallback) ==
  IF raw.type = "undefined" THEN Read(fallback)
  ELSE IF raw.type # "string" \/ raw.text = "" THEN Thrown
  ELSE Read(raw.text)

\* The trimmed value is compared with the fallback, not the raw one.
readSecret(raw, environment, fallback) ==
  IF environment = "production" /\ (raw.type = "undefined" \/ raw.text = fallback)
    THEN Thrown
    ELSE readString(raw, fallback)

readPositiveInteger(raw, fallback) ==
  IF raw.type = "undefined" THEN Read(fallback)
  ELSE IF raw.type \notin {"string", "number"} \/ raw.number < 1 THEN Thrown
  ELSE Read(raw.number)

MaxPort == 65535
BadReadPort(raw, fallback) == readPositiveInteger(raw, fallback)
readPort(raw, fallback) ==
  LET port == readPositiveInteger(raw, fallback)
  IN  IF ~Failed(port) /\ port.value > MaxPort THEN Thrown ELSE port

\* API_PORT ?? PORT: an API_PORT that is set but bad is not replaced by PORT.
RawPort(config, n) ==
  IF n = "API_PORT" /\ config[n] = Unset THEN config["PORT"] ELSE config[n]

Refused == [n \in {} |-> 0]

\* The reader of each variable.
readVariable(config, environment, n) ==
  CASE n \in DOMAIN StringFallback -> readString(config[n], StringFallback[n])
    [] n \in DOMAIN SecretFallback -> readSecret(config[n], environment, SecretFallback[n])
    [] n \in DOMAIN PortFallback -> readPort(RawPort(config, n), PortFallback[n])
    [] n \in DOMAIN NumberFallback -> readPositiveInteger(config[n], NumberFallback[n])

\* The values read, or Refused when some reader throws.
validateEnvironment(config) ==
  LET environment == readString(config["NODE_ENV"], "development")
      results == [n \in Names \ {"NODE_ENV", "PORT"} |->
                    readVariable(config, environment.value, n)]
  IN  IF Failed(environment) \/ environment.value \notin supportedEnvironments
           \/ \E n \in DOMAIN results : Failed(results[n])
        THEN Refused
        ELSE [n \in DOMAIN results \cup {"NODE_ENV"} |->
                IF n = "NODE_ENV" THEN environment.value ELSE results[n].value]
=============================================================================
