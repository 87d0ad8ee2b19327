--------------------------- MODULE Normalization ---------------------------
(***************************************************************************)
(* What the log processor does to an event between validation and storage:  *)
(* the contract v1 check, normalizeLogEvent and redactSensitiveData, which   *)
(* recurses over JSON values.                                               *)
(*                                                                          *)
(* A text is its core, whether white space surrounds it, whether it has     *)
(* upper-case letters, and how it stands to the longest text the contract   *)
(* allows in its place.  traceId stands for spanId too; the formats of ids, *)
(* level and timestamp are left out.                                        *)
(***************************************************************************)
EXTENDS Naturals, Sequences

CONSTANTS
  NormalKey(_),  \* normalizeKey: without - and _, in lower case
  Absent,        \* undefined
  Values,        \* JSON values, with their parts and with what redaction makes of them
  Depth          \* how deep each of them nests

SENSITIVE_KEYS ==
  {"password", "token", "accessToken", "refreshToken", "authorization", "cookie",
   "creditCard"}

-----------------------------------------------------------------------------
(* Texts. *)

\* It fits the limit, or grows past it in lower case, as a capital I with a dot does
\* that becomes two characters, or is too long as it is.
Sizes == {"fits", "grows", "long"}

Plain(core) == [core |-> core, padded |-> FALSE, upper |-> FALSE, size |-> "fits"]
Blank       == [Plain("") EXCEPT !.padded = TRUE]
Trim(t)     == [t EXCEPT !.padded = FALSE]
LowerCase(t) ==
  [t EXCEPT !.upper = FALSE, !.size = IF @ = "grows" THEN "long" ELSE @]
IsEmpty(t) == t.core = "" /\ ~t.padded

\* rawLogEventSchema: service, environment and message have at least one character and
\* at most 100, 50 and 20000, and attributes are an object.
Admits(text) == ~IsEmpty(text) /\ text.size # "long"
FollowsContract(event) ==
  /\ Admits(event.service) /\ Admits(event.environment) /\ Admits(event.message)
  /\ event.attributes # Absent => event.attributes.type = "object"

normalizeOptionalIdentifier(value) ==
  IF value = Absent THEN Absent
  ELSE IF IsEmpty(Trim(value)) THEN Absent
  ELSE LowerCase(Trim(value))

BadNormalizeLogEvent(event) ==
  [event EXCEPT !.environment = LowerCase(Trim(@)), !.service = Trim(@),
                !.message = Trim(@), !.traceId = normalizeOptionalIdentifier(@)]
normalizeLogEvent(event) ==
  [event EXCEPT !.environment = LowerCase(Trim(@)), !.service = Trim(@),
                !.traceId = normalizeOptionalIdentifier(@)]

-----------------------------------------------------------------------------
(* JSON values. *)

Scalar(v)      == [type |-> "scalar", value |-> v]
Array(items)   == [type |-> "array", items |-> items]
Object(fields) == [type |-> "object", fields |-> fields]

REDACTED_VALUE == Scalar("[REDACTED]")
NORMALIZED_SENSITIVE_KEYS == {NormalKey(k) : k \in SENSITIVE_KEYS}

isSensitiveKey(key) == NormalKey(key) \in NORMALIZED_SENSITIVE_KEYS

Redacted(key, value) == IF isSensitiveKey(key) THEN REDACTED_VALUE ELSE value

\* One call of redactSensitiveData; redact is what it makes of the parts.
\* Bad: arrays are left as they are.
BadRedact(redact, value) ==
  IF value.type = "object"
    THEN Object([key \in DOMAIN value.fields |-> Redacted(key, redact[value.fields[key]])])
    ELSE value
Redact(redact, value) ==
  IF value.type = "array"
    THEN Array([i \in DOMAIN value.items |-> redact[value.items[i]]])
  ELSE IF value.type = "object"
    THEN Object([key \in DOMAIN value.fields |-> Redacted(key, redact[value.fields[key]])])
    ELSE value

redactSensitiveData[value \in Values] == Redact(redactSensitiveData, value)

RedactedAttributes(event) ==
  [event EXCEPT !.attributes = IF @ = Absent THEN Absent ELSE redactSensitiveData[@]]

\* LogEventProcessorService.process up to the writes.
Processed(event) == RedactedAttributes(normalizeLogEvent(event))

-----------------------------------------------------------------------------
(* What redaction is to do, said of the leaves of a value and the paths to them. *)

Children(value) ==
  IF value.type = "array"
    THEN {[step |-> [index |-> i], value |-> value.items[i]] : i \in DOMAIN value.items}
  ELSE IF value.type = "object"
    THEN {[step |-> [key |-> k], value |-> value.fields[k]] : k \in DOMAIN value.fields}
    ELSE {}

Prefixed(step, leaf) == [path |-> <<step>> \o leaf.path, value |-> leaf.value]

\* The leaves of a value; leaves are those of its parts.  An empty array or object
\* is a leaf.
LeavesOf(leaves, value) ==
  IF Children(value) = {}
    THEN {[path |-> << >>, value |-> IF value.type = "scalar" THEN value.value ELSE value.type]}
    ELSE UNION {{Prefixed(child.step, leaf) : leaf \in leaves[child.value]} :
                  child \in Children(value)}

Leaves[value \in Values] == LeavesOf(Leaves, value)

\* A leaf under a sensitive key gives way to one redacted value at that key.
isSensitiveStep(step) == "key" \in DOMAIN step /\ isSensitiveKey(step.key)
Cut(leaf) ==
  LET entries == {i \in DOMAIN leaf.path : isSensitiveStep(leaf.path[i])}
  IN  IF entries = {} THEN leaf
      ELSE [path  |-> SubSeq(leaf.path, 1, CHOOSE i \in entries : \A j \in entries : i <= j),
            value |-> "[REDACTED]"]

\* Values are finite trees, closed as said above; undefined is none of them.
ASSUME JsonAssumption ==
  /\ Depth \in [Values -> Nat]
  /\ Absent \notin Values
  /\ \A value \in Values :
       /\ value.type \in {"scalar", "array", "object"}
       /\ \A child \in Children(value) :
            child.value \in Values /\ Depth[child.value] < Depth[value]
       /\ redactSensitiveData[value] \in Values
=============================================================================
