-------------------------- MODULE IngestionProofs --------------------------
(***************************************************************************)
(* For any requests, keys and bound on the topic: what the ingestion        *)
(* service answers is true of the topic, a revoked key writes nothing, and  *)
(* the producer has one connection.                                         *)
(*                                                                          *)
(* AnswersAreTrue and RevokedIsRefused are not inductive, since a batch is  *)
(* written at any time after it was sent, with its answer given or not: the *)
(* invariant says where a request can stand once its batch is on its way    *)
(* (SentIsFinal), and that one with a stale key never gets past the look-up *)
(* (StaleStopsEarly).  OneConnection rests on the life cycle: the destroy   *)
(* hook runs only while connected (LifeCycle).                              *)
(***************************************************************************)
EXTENDS Ingestion, SequenceTheorems, TLAPS

\* What is known of request r when its state is s.  Only a batch that was sent
\* is in the topic; it was sent by a request at the broker, told 202 or 503, or
\* abandoned; no answer is given before the end.
SentIsFinal(r, s) ==
  /\ Written(r) => s.sent
  /\ s.sent => \/ s.pc \in {"inflight", "lost"}
               \/ s.pc = "answered" /\ s.status \in {202, 503}
  /\ s.status # 0 => s.pc = "answered"
  /\ s.status = 202 => Written(r)

\* A key that was not active stays so, and the look-up refuses it.
StaleStopsEarly(s) ==
  s.stale => /\ s.key \in Keys /\ key[s.key] # "active"
             /\ s.pc \in {"lookup", "answered", "lost"}
             /\ ~s.sent

\* A request beyond the header check names a key of the table.
KeyIsKnown(s) == s.pc \in {"lookup", "compare", "touch"} => s.key \in Keys

Fits(r, s) ==
  s \in RequestStates /\ SentIsFinal(r, s) /\ StaleStopsEarly(s) /\ KeyIsKnown(s)

RequestsFit == \A r \in Requests : Fits(r, req[r])

\* The server listens only when connected, until the destroy hook has run, and a
\* request waits only for an attempt that is under way.
LifeCycle ==
  /\ phase \in {"up", "closing"} => isConnected
  /\ phase = "boot" => ~isConnected /\ link = "closed"
  /\ \A r \in Requests : At(r, "connecting") => connectPromise = "pending"

IndInv ==
  /\ TypeOK
  /\ RequestsFit
  /\ OneConnection
  /\ LifeCycle

-----------------------------------------------------------------------------
(* Steps that leave requests, keys and topic alone, or change one request. *)

\* Everything but the requests keeps its shape.
Shape ==
  /\ key \in [Keys -> {"active", "revoked", "deleted"}]
  /\ topic \in Seq(Requests)
  /\ isConnected \in BOOLEAN
  /\ connectPromise \in {"none", "pending", "resolved", "rejected"}
  /\ link \in {"closed", "open", "closing"}
  /\ attempts \in 0..1
  /\ phase \in {"boot", "up", "closing", "destroyed", "stopped"}

\* Requests that do not move still fit.
LEMMA RequestsStay ==
  ASSUME IndInv, UNCHANGED <<key, req, topic>>
  PROVE  req' \in [Requests -> RequestStates] /\ RequestsFit'
BY DEF IndInv, TypeOK, RequestsFit, Fits, SentIsFinal, StaleStopsEarly, KeyIsKnown, Written

\* One request moves to a state that fits; the others stay.
LEMMA RequestMoves ==
  ASSUME IndInv, NEW r \in Requests, NEW s, Fits(r, s),
         req' = [req EXCEPT ![r] = s], UNCHANGED <<key, topic>>
  PROVE  /\ req' \in [Requests -> RequestStates] /\ RequestsFit'
         /\ req'[r] = s /\ \A q \in Requests : q # r => req'[q] = req[q]
<1>1. /\ req \in [Requests -> RequestStates] /\ s \in RequestStates
      /\ \A q \in Requests : Fits(q, req[q])
  BY DEF IndInv, TypeOK, RequestsFit, Fits
<1>2. /\ req' \in [Requests -> RequestStates]
      /\ req'[r] = s /\ \A q \in Requests : q # r => req'[q] = req[q]
  BY <1>1
<1>3. ASSUME NEW q \in Requests PROVE Fits(q, req[q])' <=> Fits(q, req'[q])
  BY DEF Fits, SentIsFinal, StaleStopsEarly, KeyIsKnown, Written
<1> QED  BY <1>1, <1>2, <1>3 DEF RequestsFit

\* The same when the connection is left alone too, as in most steps.
LEMMA OnlyRequestMoves ==
  ASSUME IndInv, NEW r \in Requests, NEW s, Fits(r, s), s.pc # "connecting",
         req' = [req EXCEPT ![r] = s], UNCHANGED <<key, topic, producer, phase>>
  PROVE  IndInv'
<1>1. /\ req' \in [Requests -> RequestStates] /\ RequestsFit'
      /\ req'[r] = s /\ \A q \in Requests : q # r => req'[q] = req[q]
  BY RequestMoves
<1>2. TypeOK'
  BY <1>1 DEF IndInv, TypeOK, Shape, producer
<1>3. OneConnection' /\ LifeCycle'
  BY <1>1 DEF IndInv, OneConnection, LifeCycle, producer, At
<1> QED  BY <1>1, <1>2, <1>3 DEF IndInv

-----------------------------------------------------------------------------
(* The steps. *)

\* The invariant holds at first.
LEMMA InitInd == Init => IndInv
<1> SUFFICES ASSUME Init PROVE IndInv
  OBVIOUS
<1>1. NewRequest \in RequestStates
  BY DEF NewRequest, RequestStates, Stages, Statuses
<1>2. TypeOK
  <2>1. topic \in Seq(Requests)
    BY EmptySeq DEF Init
  <2>2. req \in [Requests -> RequestStates]
    BY <1>1 DEF Init
  <2>3. key \in [Keys -> {"active", "revoked", "deleted"}]
    BY DEF Init
  <2>4. attempts \in 0..1
    BY DEF Init
  <2>5. isConnected \in BOOLEAN
    BY DEF Init
  <2> QED  BY <2>1, <2>2, <2>3, <2>4, <2>5, Zenon DEF Init, TypeOK
<1>3. RequestsFit
  <2>1. \A r \in Requests : ~Written(r)
    <3>1. topic = << >> /\ DOMAIN << >> = {}
      BY DEF Init
    <3> QED  BY <3>1 DEF Written
  <2>2. \A r \in Requests : req[r] = NewRequest
    BY DEF Init
  <2>3. /\ ~NewRequest.sent /\ ~NewRequest.stale
        /\ NewRequest.status = 0 /\ NewRequest.pc = "new"
    BY DEF NewRequest
  <2>4. \A r \in Requests : Fits(r, NewRequest)
    <3>1. KeyIsKnown(NewRequest)
      BY <2>3 DEF KeyIsKnown
    <3>2. StaleStopsEarly(NewRequest)
      BY <2>3 DEF StaleStopsEarly
    <3>3. \A r \in Requests : SentIsFinal(r, NewRequest)
      <4>1. NewRequest.status # 202
        BY <2>3
      <4> QED  BY <2>1, <2>3, <4>1, Zenon DEF SentIsFinal
    <3> QED  BY <1>1, <3>1, <3>2, <3>3 DEF Fits
  <2> QED
    BY <2>2, <2>4 DEF RequestsFit
<1>4. OneConnection /\ LifeCycle
  BY DEF Init, OneConnection, LifeCycle, At, NewRequest
<1> QED  BY <1>2, <1>3, <1>4 DEF IndInv

\* A key that is not active never becomes active again.
LEMMA KeyInd ==
  ASSUME IndInv, NEW k \in Keys, Revoke(k) \/ Delete(k)
  PROVE  IndInv'
<1>1. /\ key' \in [Keys -> {"active", "revoked", "deleted"}]
      /\ \A j \in Keys : key[j] # "active" => key'[j] # "active"
  BY DEF IndInv, TypeOK, Revoke, Delete
<1>2. UNCHANGED <<req, topic, producer, phase>>
  BY DEF Revoke, Delete
<1>3. TypeOK'
  BY <1>1, <1>2 DEF IndInv, TypeOK, producer
<1>4. RequestsFit'
  BY <1>1, <1>2 DEF IndInv, RequestsFit, Fits, SentIsFinal, StaleStopsEarly, KeyIsKnown, Written
<1>5. OneConnection' /\ LifeCycle'
  BY <1>2 DEF IndInv, OneConnection, LifeCycle, producer, At
<1> QED  BY <1>3, <1>4, <1>5 DEF IndInv

\* connect() keeps flag, promise and attempts in step.
LEMMA ConnectInd ==
  ASSUME TypeOK, OneConnection, Connect
  PROVE  /\ isConnected' = isConnected /\ link' = link
         /\ connectPromise' \in {"none", "pending", "resolved", "rejected"}
         /\ attempts' \in 0..1
         /\ OneConnection'
         /\ connectPromise = "pending" => connectPromise' = "pending"
         /\ ~isConnected /\ connectPromise # "rejected" => connectPromise' = "pending"
BY DEF TypeOK, OneConnection, Connect, NeedsAttempt, producer

\* A process boots and starts to connect.
LEMMA BootInd ==
  ASSUME IndInv, OnModuleInit
  PROVE  IndInv'
<1>1. UNCHANGED <<key, req, topic, phase>> /\ Connect
  BY DEF OnModuleInit
<1>2. /\ isConnected' = isConnected /\ link' = link /\ OneConnection'
      /\ connectPromise' \in {"none", "pending", "resolved", "rejected"}
      /\ attempts' \in 0..1
      /\ connectPromise = "pending" => connectPromise' = "pending"
  BY <1>1, ConnectInd DEF IndInv
<1>3. TypeOK' /\ RequestsFit'
  BY <1>1, <1>2, RequestsStay DEF IndInv, TypeOK, Shape
<1>4. LifeCycle'
  BY <1>1, <1>2 DEF IndInv, LifeCycle, At
<1> QED  BY <1>2, <1>3, <1>4 DEF IndInv

\* The end of an attempt moves all that wait for it to one stage.
LEMMA ReleaseInd ==
  ASSUME IndInv, UNCHANGED <<key, topic>>, NEW pc, NEW status, Release(pc, status),
         \/ pc = "send" /\ status = 0
         \/ pc = "answered" /\ status = 503
  PROVE  /\ req' \in [Requests -> RequestStates] /\ RequestsFit'
         /\ \A r \in Requests : req'[r].pc # "connecting"
<1>1. req \in [Requests -> RequestStates] /\ \A r \in Requests : Fits(r, req[r])
  BY DEF IndInv, TypeOK, RequestsFit
<1>2. ASSUME NEW r \in Requests
      PROVE  /\ req'[r] \in RequestStates /\ req'[r].pc # "connecting"
             /\ Fits(r, req[r])'
  <2>1. CASE ~At(r, "connecting")
    <3>1. req'[r] = req[r]
      BY <2>1 DEF Release, Waiting, At
    <3> QED
      BY <1>1, <2>1, <3>1 DEF At, Fits, SentIsFinal, StaleStopsEarly, KeyIsKnown, Written
  <2>2. CASE At(r, "connecting")
    <3> DEFINE s == [req[r] EXCEPT !.pc = pc, !.status = status]
    <3>1. req'[r] = s
      BY <2>2 DEF Release, Waiting, At
    <3>2. req[r] \in RequestStates /\ req[r].pc = "connecting" /\ Fits(r, req[r])
      BY <1>1, <2>2 DEF At
    <3>3. /\ s \in RequestStates /\ s.pc = pc /\ s.status = status
          /\ s.sent = req[r].sent /\ s.stale = req[r].stale /\ s.key = req[r].key
      <4>1. pc \in Stages /\ status \in Statuses
        BY DEF Stages, Statuses
      <4> QED  BY <3>2, <4>1 DEF RequestStates
    <3>4. ~s.sent /\ ~s.stale /\ ~Written(r)
      BY <3>2, <3>3 DEF Fits, SentIsFinal, StaleStopsEarly
    <3> HIDE DEF s
    <3> QED
      BY <3>1, <3>3, <3>4 DEF Fits, SentIsFinal, StaleStopsEarly, KeyIsKnown, Written
  <2> QED  BY <2>1, <2>2
<1>3. req' \in [Requests -> RequestStates]
  <2>1. req' = [r \in Requests |-> req'[r]]
    BY DEF Release
  <2> QED  BY <1>2, <2>1
<1> QED  BY <1>2, <1>3 DEF RequestsFit

\* An attempt to connect ends and releases whoever waits for it, to send or with 503.
LEMMA AttemptEndsInd ==
  ASSUME IndInv, Connected \/ ConnectFails
  PROVE  IndInv'
<1>1. UNCHANGED <<key, topic>> /\ (Release("send", 0) \/ Release("answered", 503))
  BY DEF Connected, ConnectFails
<1>2. /\ req' \in [Requests -> RequestStates] /\ RequestsFit'
      /\ \A r \in Requests : req'[r].pc # "connecting"
  BY <1>1, ReleaseInd
<1>3. Shape'
  <2>1. /\ attempts' = attempts - 1 /\ attempts > 0 /\ UNCHANGED <<key, topic>>
        /\ isConnected' = TRUE \/ isConnected' = isConnected
        /\ link' = "open" \/ link' = link
        /\ connectPromise' = "resolved" \/ connectPromise' = "rejected"
        /\ phase' = "up" \/ phase' = "stopped" \/ phase' = phase
    BY DEF Connected, ConnectFails
  <2>2. TypeOK
    BY DEF IndInv
  <2>3. attempts' \in 0..1
    BY <2>1, <2>2 DEF TypeOK
  <2>4. isConnected' \in BOOLEAN
    BY <2>1, <2>2 DEF TypeOK
  <2>5. key' \in [Keys -> {"active", "revoked", "deleted"}] /\ topic' \in Seq(Requests)
    BY <2>1, <2>2 DEF TypeOK
  <2>6. /\ connectPromise' \in {"none", "pending", "resolved", "rejected"}
        /\ link' \in {"closed", "open", "closing"}
        /\ phase' \in {"boot", "up", "closing", "destroyed", "stopped"}
    BY <2>1, <2>2 DEF TypeOK
  <2> QED  BY <2>3, <2>4, <2>5, <2>6 DEF Shape
<1>5. OneConnection'
  BY DEF IndInv, TypeOK, OneConnection, Connected, ConnectFails
<1>4. LifeCycle'
  BY <1>2 DEF IndInv, TypeOK, OneConnection, LifeCycle, At, Connected, ConnectFails
<1> QED  BY <1>2, <1>3, <1>4, <1>5 DEF IndInv, TypeOK, Shape

\* The hook disconnects while no attempt is under way, so nobody waits for one.
LEMMA ShutdownInd ==
  ASSUME IndInv, OnModuleDestroy \/ Disconnected \/ Stop
  PROVE  IndInv'
<1>1. UNCHANGED <<key, req, topic>>
  BY DEF OnModuleDestroy, Disconnected, Stop
<1>2. Shape'
  BY DEF IndInv, TypeOK, Shape, OnModuleDestroy, Disconnected, Stop, Forgotten, producer
<1>4. OneConnection'
  BY DEF IndInv, TypeOK, OneConnection, LifeCycle, OnModuleDestroy, Disconnected, Stop,
         Forgotten, producer
<1>3. LifeCycle'
  BY <1>1 DEF IndInv, TypeOK, OneConnection, LifeCycle, At, OnModuleDestroy, Disconnected,
              Stop, producer
<1> QED  BY <1>1, <1>2, <1>3, <1>4, RequestsStay DEF IndInv, TypeOK, Shape

\* A crash ends the connection and loses the requests under way.
LEMMA CrashInd ==
  ASSUME IndInv, Crash
  PROVE  IndInv'
<1>0. UNCHANGED <<key, topic>>
  BY DEF Crash
<1>1. ASSUME NEW r \in Requests
      PROVE  /\ req'[r] \in RequestStates /\ req'[r].pc # "connecting"
             /\ Fits(r, req[r])'
  <2>1. req[r] \in RequestStates /\ Fits(r, req[r])
    BY DEF IndInv, TypeOK, RequestsFit
  <2>2. CASE ~Under(r)
    <3>1. req'[r] = req[r] /\ req[r].pc # "connecting"
      BY <2>2 DEF Crash, Under
    <3> QED
      BY <1>0, <2>1, <3>1 DEF Fits, SentIsFinal, StaleStopsEarly, KeyIsKnown, Written
  <2>3. CASE Under(r)
    <3> DEFINE s == [req[r] EXCEPT !.pc = "lost"]
    <3>1. req'[r] = s
      BY <2>3 DEF Crash
    <3>2. /\ s \in RequestStates /\ s.pc = "lost" /\ s.status = req[r].status
          /\ s.sent = req[r].sent /\ s.stale = req[r].stale /\ s.key = req[r].key
      BY <2>1 DEF RequestStates, Stages, Statuses
    <3>3. s.status = 0
      BY <2>1, <2>3, <3>2 DEF Fits, SentIsFinal, Under
    <3> HIDE DEF s
    <3> QED
      BY <1>0, <2>1, <3>1, <3>2, <3>3
      DEF Fits, SentIsFinal, StaleStopsEarly, KeyIsKnown, Written
  <2> QED  BY <2>2, <2>3
<1>2. req' \in [Requests -> RequestStates] /\ RequestsFit'
  BY <1>1 DEF Crash, RequestsFit
<1>3. /\ isConnected' = FALSE /\ connectPromise' = "none" /\ link' = "closed" /\ attempts' = 0
      /\ phase' = "boot"
  BY DEF Crash
<1>4. Shape'
  <2>1. attempts' \in 0..1
    BY <1>3
  <2> QED  BY <1>0, <1>3, <2>1, Zenon DEF IndInv, TypeOK, Shape
<1>5. OneConnection'
  BY <1>3 DEF OneConnection
<1>6. LifeCycle'
  BY <1>1, <1>3 DEF LifeCycle, At
<1> QED  BY <1>2, <1>4, <1>5, <1>6 DEF IndInv, TypeOK, Shape

\* What a request is when it has passed the guards (status 0) or was refused.
Taken(k, genuine, valid, status) ==
  [pc |-> IF status = 0 THEN "lookup" ELSE "answered", key |-> k,
   genuine |-> genuine, valid |-> valid,
   stale |-> k \in Keys /\ key[k] # "active", sent |-> FALSE, status |-> status]

\* The guards: a request is taken, or refused at once.
LEMMA ArriveInd ==
  ASSUME IndInv, NEW r \in Requests, Arrive(r)
  PROVE  IndInv'
<1>1. ~Written(r)
  BY DEF IndInv, RequestsFit, Fits, SentIsFinal, Arrive, At
<1>2. UNCHANGED <<key, topic, producer, phase>>
  BY DEF Arrive
<1>3. PICK s : Fits(r, s) /\ s.pc # "connecting" /\ req' = [req EXCEPT ![r] = s]
  <2>1. PICK k \in Keys \cup {NoKey}, genuine \in BOOLEAN, valid \in BOOLEAN,
             status \in {0, 401, 429} :
          /\ k = NoKey => status # 0
          /\ req' = [req EXCEPT ![r] = Taken(k, genuine, valid, status)]
    BY DEF Arrive, Taken
  <2>2. PICK s : s = Taken(k, genuine, valid, status)
    OBVIOUS
  <2>3. /\ s \in RequestStates /\ ~s.sent /\ s.key = k /\ s.status = status
        /\ s.pc = IF status = 0 THEN "lookup" ELSE "answered"
        /\ s.stale = (k \in Keys /\ key[k] # "active")
    BY <2>2 DEF Taken, RequestStates, Stages, Statuses
  <2>4. s.pc \in {"lookup", "answered"}
    BY <2>3
  <2>5. KeyIsKnown(s)
    BY <2>1, <2>3 DEF KeyIsKnown
  <2>6. StaleStopsEarly(s)
    BY <2>3, <2>4 DEF StaleStopsEarly
  <2>7. SentIsFinal(r, s)
    BY <1>1, <2>3 DEF SentIsFinal
  <2>8. Fits(r, s)
    BY <2>3, <2>5, <2>6, <2>7 DEF Fits
  <2> QED  BY <2>1, <2>2, <2>4, <2>8
<1> QED  BY <1>2, <1>3, OnlyRequestMoves

\* What a request becomes with an answer: two fields change.
Answered(q, status) == [q EXCEPT !.pc = "answered", !.status = status]

\* An answer is a move to that state.
LEMMA AnswerIsMove ==
  ASSUME NEW r \in Requests, NEW status, Answer(r, status),
         req \in [Requests -> RequestStates]
  PROVE  req' = [req EXCEPT ![r] = Answered(req[r], status)]
BY DEF Answer, Answered

\* That state is one of a request's, and the other fields are as they were.
LEMMA AnswerState ==
  ASSUME NEW q \in RequestStates, NEW status \in Statuses
  PROVE  /\ Answered(q, status) \in RequestStates
         /\ Answered(q, status).pc = "answered" /\ Answered(q, status).status = status
         /\ Answered(q, status).sent = q.sent /\ Answered(q, status).stale = q.stale
         /\ Answered(q, status).key = q.key
<1>1. "answered" \in Stages
  BY DEF Stages
<1>2. Answered(q, status) \in RequestStates
  BY <1>1 DEF Answered, RequestStates
<1>3. /\ Answered(q, status).pc = "answered" /\ Answered(q, status).status = status
      /\ Answered(q, status).sent = q.sent /\ Answered(q, status).stale = q.stale
      /\ Answered(q, status).key = q.key
  BY DEF Answered, RequestStates
<1> QED  BY <1>2, <1>3

\* An answer given to a request that fits, and that is true, fits.
LEMMA AnswerFits ==
  ASSUME IndInv, NEW r \in Requests, NEW status \in Statuses \ {0}, Answer(r, status),
         req[r].sent => status \in {202, 503},
         Written(r) => req[r].sent,
         status = 202 => Written(r)
  PROVE  \E s : /\ Fits(r, s) /\ s.pc = "answered"
                /\ req' = [req EXCEPT ![r] = s]
<1>0. PICK s : s = Answered(req[r], status)
  OBVIOUS
<1>1. req \in [Requests -> RequestStates] /\ Fits(r, req[r])
  BY DEF IndInv, TypeOK, RequestsFit
<1>2. req' = [req EXCEPT ![r] = s]
  BY <1>0, <1>1, AnswerIsMove
<1>3. /\ s \in RequestStates /\ s.pc = "answered" /\ s.status = status
      /\ s.sent = req[r].sent /\ s.stale = req[r].stale /\ s.key = req[r].key
  <2>1. req[r] \in RequestStates
    BY <1>1
  <2> QED  BY <1>0, <2>1, AnswerState
<1>4. SentIsFinal(r, s)
  BY <1>1, <1>3 DEF SentIsFinal
<1>5. StaleStopsEarly(s) /\ KeyIsKnown(s)
  BY <1>1, <1>3, Zenon DEF Fits, StaleStopsEarly, KeyIsKnown
<1> QED  BY <1>2, <1>3, <1>4, <1>5 DEF Fits

\* The queries of the key guard move one request, on its own.
LEMMA GuardInd ==
  ASSUME IndInv, NEW r \in Requests,
         Lookup(r) \/ Compare(r) \/ QueryFails(r)
  PROVE  IndInv'
<1>1. UNCHANGED <<key, topic, producer, phase>>
  BY DEF Lookup, Compare, QueryFails
<1>2. Fits(r, req[r]) /\ req[r].status = 0 /\ ~req[r].sent /\ ~Written(r)
  BY DEF IndInv, RequestsFit, Fits, SentIsFinal, Lookup, Compare, QueryFails, At
<1>3. ASSUME NEW pc \in {"compare", "touch"}, Go(r, pc), ~req[r].stale, req[r].key \in Keys
      PROVE  IndInv'
  <2> DEFINE s == [req[r] EXCEPT !.pc = pc]
  <2>1. /\ s \in RequestStates /\ s.pc = pc /\ s.status = 0 /\ ~s.sent
        /\ s.stale = req[r].stale /\ s.key = req[r].key
    BY <1>2 DEF Fits, RequestStates, Stages
  <2>2. req' = [req EXCEPT ![r] = s]
    BY <1>3 DEF Go
  <2> HIDE DEF s
  <2>3. Fits(r, s)
    BY <1>2, <1>3, <2>1 DEF Fits, SentIsFinal, StaleStopsEarly, KeyIsKnown
  <2> QED  BY <1>1, <2>1, <2>2, <2>3, OnlyRequestMoves
<1>4. ASSUME NEW status \in {401, 500}, Answer(r, status) PROVE IndInv'
  <2>1. status \in Statuses \ {0} /\ status # 202
    BY DEF Statuses
  <2> QED  BY <1>1, <1>2, <1>4, <2>1, AnswerFits, OnlyRequestMoves
<1>5. CASE Lookup(r) /\ Go(r, "compare") /\ Usable(req[r].key)
  <2>1. ~req[r].stale /\ req[r].key \in Keys
    BY <1>2, <1>5 DEF Fits, StaleStopsEarly, KeyIsKnown, Lookup, Usable, At
  <2> QED  BY <1>3, <1>5, <2>1
<1>6. CASE Compare(r) /\ Go(r, "touch")
  <2>1. ~req[r].stale /\ req[r].key \in Keys
    BY <1>2, <1>6 DEF Fits, StaleStopsEarly, KeyIsKnown, Compare, At
  <2> QED  BY <1>3, <1>6, <2>1
<1>7. CASE Answer(r, 401) \/ Answer(r, 500)
  BY <1>4, <1>7
<1> QED  BY <1>5, <1>6, <1>7 DEF Lookup, Compare, QueryFails

\* The last step of the guard may open the connection.
LEMMA TouchInd ==
  ASSUME IndInv, NEW r \in Requests, Touch(r)
  PROVE  IndInv'
<1>1. UNCHANGED <<key, topic, phase>> /\ (Connect \/ UNCHANGED producer)
  BY DEF Touch
<1>2. Fits(r, req[r]) /\ req[r].status = 0 /\ ~req[r].sent /\ ~Written(r) /\ ~req[r].stale
  BY DEF IndInv, RequestsFit, Fits, SentIsFinal, StaleStopsEarly, Touch, At
<1>3. /\ isConnected' = isConnected /\ link' = link /\ OneConnection' /\ Shape'
      /\ connectPromise = "pending" => connectPromise' = "pending"
  BY <1>1, ConnectInd DEF IndInv, TypeOK, Shape, OneConnection, producer
<1> DEFINE Moved ==
      \E s : /\ Fits(r, s) /\ req' = [req EXCEPT ![r] = s]
             /\ s.pc = "connecting" => connectPromise' = "pending"
<1>4. Moved
  <2>1. ASSUME NEW status \in {400, 500, 503}, Answer(r, status) PROVE Moved
    <3>1. status \in Statuses \ {0} /\ status # 202
      BY DEF Statuses
    <3> QED  BY <1>2, <2>1, <3>1, AnswerFits
  <2>2. ASSUME NEW pc \in {"send", "connecting"}, Go(r, pc),
               pc = "connecting" => connectPromise' = "pending"
        PROVE  Moved
    <3> DEFINE s == [req[r] EXCEPT !.pc = pc]
    <3>1. /\ s \in RequestStates /\ s.pc = pc /\ s.status = 0 /\ ~s.sent /\ ~s.stale
      BY <1>2 DEF Fits, RequestStates, Stages
    <3>2. req' = [req EXCEPT ![r] = s]
      BY <2>2 DEF Go
    <3> HIDE DEF s
    <3>3. Fits(r, s)
      BY <1>2, <3>1 DEF Fits, SentIsFinal, StaleStopsEarly, KeyIsKnown
    <3> QED  BY <2>2, <3>1, <3>2, <3>3
  <2>3. ~isConnected /\ connectPromise # "rejected" /\ Connect => connectPromise' = "pending"
    BY ConnectInd DEF IndInv
  <2> QED  BY <2>1, <2>2, <2>3 DEF Touch
<1>5. /\ RequestsFit' /\ req' \in [Requests -> RequestStates]
      /\ \A q \in Requests : req'[q].pc = "connecting" =>
           req[q].pc = "connecting" \/ connectPromise' = "pending"
  <2>1. PICK s : /\ Fits(r, s) /\ req' = [req EXCEPT ![r] = s]
                 /\ s.pc = "connecting" => connectPromise' = "pending"
    BY <1>4 DEF Moved
  <2>2. /\ req' \in [Requests -> RequestStates] /\ RequestsFit'
        /\ req'[r] = s /\ \A q \in Requests : q # r => req'[q] = req[q]
    BY <1>1, <2>1, RequestMoves
  <2> QED  BY <2>1, <2>2
<1>6. LifeCycle'
  BY <1>1, <1>3, <1>5 DEF IndInv, LifeCycle, At
<1> QED  BY <1>3, <1>5, <1>6 DEF IndInv, TypeOK, Shape

\* Only here, on an open connection, a batch is on its way.
LEMMA SendInd ==
  ASSUME IndInv, NEW r \in Requests, Send(r)
  PROVE  IndInv'
<1>1. UNCHANGED <<key, topic, producer, phase>>
  BY DEF Send
<1>2. Fits(r, req[r]) /\ req[r].status = 0 /\ ~req[r].sent /\ ~Written(r) /\ ~req[r].stale
  BY DEF IndInv, RequestsFit, Fits, SentIsFinal, StaleStopsEarly, Send, At
<1>3. CASE Answer(r, 503)
  BY <1>1, <1>2, <1>3, AnswerFits, OnlyRequestMoves DEF Statuses
<1>4. CASE req' = [req EXCEPT ![r].pc = "inflight", ![r].sent = TRUE]
  <2> DEFINE s == [req[r] EXCEPT !.pc = "inflight", !.sent = TRUE]
  <2>1. req' = [req EXCEPT ![r] = s]
    <3>1. req \in [Requests -> RequestStates]
      BY DEF IndInv, TypeOK
    <3>2. \A q \in Requests : req'[q] = IF q = r THEN s ELSE req[q]
      BY <1>4, <3>1
    <3>3. req' = [q \in Requests |-> req'[q]]
      BY <1>4, <3>1
    <3> QED  BY <3>1, <3>2, <3>3
  <2>2. /\ s \in RequestStates /\ s.pc = "inflight" /\ s.status = 0 /\ s.sent /\ ~s.stale
    BY <1>2 DEF Fits, RequestStates, Stages
  <2> HIDE DEF s
  <2>3. Fits(r, s)
    BY <1>2, <2>2 DEF Fits, SentIsFinal, StaleStopsEarly, KeyIsKnown
  <2> QED  BY <1>1, <2>1, <2>2, <2>3, OnlyRequestMoves
<1> QED  BY <1>3, <1>4 DEF Send

\* Written at whatever time, a batch that was sent may be in the topic.
LEMMA WriteInd ==
  ASSUME IndInv, NEW r \in Requests, Write(r)
  PROVE  IndInv'
<1>1. UNCHANGED <<key, req, producer, phase>> /\ topic' = Append(topic, r) /\ req[r].sent
  BY DEF Write
<1>2. topic' \in Seq(Requests)
  BY <1>1, AppendProperties DEF IndInv, TypeOK
<1>3. \A q \in Requests : (Written(q) => Written(q)') /\ (Written(q)' => Written(q) \/ q = r)
  <2>1. /\ topic \in Seq(Requests) /\ Len(topic) \in Nat
        /\ DOMAIN topic = 1 .. Len(topic) /\ DOMAIN topic' = 1 .. Len(topic) + 1
        /\ \A i \in 1 .. Len(topic) : topic'[i] = topic[i]
        /\ topic'[Len(topic) + 1] = r
    BY <1>1, AppendProperties, LenProperties DEF IndInv, TypeOK
  <2> QED  BY <2>1 DEF Written
<1>4. RequestsFit'
  <2>1. ASSUME NEW q \in Requests PROVE SentIsFinal(q, req[q])'
    BY <1>1, <1>3 DEF IndInv, RequestsFit, Fits, SentIsFinal
  <2> QED
    BY <1>1, <2>1 DEF IndInv, RequestsFit, Fits, StaleStopsEarly, KeyIsKnown
<1>5. TypeOK' /\ OneConnection' /\ LifeCycle'
  BY <1>1, <1>2 DEF IndInv, TypeOK, OneConnection, LifeCycle, producer, At
<1> QED  BY <1>4, <1>5 DEF IndInv

\* The broker's acknowledgement, or what the client makes of its absence.
LEMMA AnswerOfBrokerInd ==
  ASSUME IndInv, NEW r \in Requests, Accept(r) \/ SendFails(r)
  PROVE  IndInv'
<1>1. UNCHANGED <<key, topic, producer, phase>>
  BY DEF Accept, SendFails
<1>2. Written(r) => req[r].sent
  BY DEF IndInv, RequestsFit, Fits, SentIsFinal
<1>3. CASE Accept(r)
  <2>1. Answer(r, 202) /\ Written(r)
    BY <1>3 DEF Accept, Acknowledged
  <2> QED  BY <1>1, <1>2, <2>1, AnswerFits, OnlyRequestMoves DEF Statuses
<1>4. CASE SendFails(r)
  <2>1. Answer(r, 503)
    BY <1>4 DEF SendFails
  <2> QED  BY <1>1, <1>2, <2>1, AnswerFits, OnlyRequestMoves DEF Statuses
<1> QED  BY <1>3, <1>4

\* Nothing happens.
LEMMA StutterInd ==
  ASSUME IndInv, UNCHANGED vars
  PROVE  IndInv'
<1>1. UNCHANGED <<key, req, topic, producer, phase>>
  BY DEF vars
<1>2. TypeOK' /\ OneConnection' /\ LifeCycle'
  BY <1>1 DEF IndInv, TypeOK, OneConnection, LifeCycle, producer, At
<1> QED  BY <1>1, <1>2, RequestsStay DEF IndInv

-----------------------------------------------------------------------------
(* The theorems. *)

\* The invariant holds in every reachable state.
THEOREM Invariance == Spec => []IndInv
<1>1. IndInv /\ [Next]_vars => IndInv'
  BY KeyInd, BootInd, AttemptEndsInd, ShutdownInd, CrashInd, ArriveInd, GuardInd, TouchInd,
     SendInd, WriteInd, AnswerOfBrokerInd, StutterInd DEF Next, Step
<1> QED  BY <1>1, InitInd, PTL DEF Spec

\* The variables keep their shape, and no two connects are ever under way.
THEOREM TypeCorrect == Spec => []TypeOK
<1>1. IndInv => TypeOK
  BY DEF IndInv
<1> QED  BY <1>1, Invariance, PTL

\* Whatever fails, stops, dies or is written late, for any number of clients: 202
\* is told only of what is in the topic, and 400, 401, 429 and 500 only of what
\* never will be.
THEOREM AnswersStayTrue == Spec => []AnswersAreTrue
<1>1. IndInv => AnswersAreTrue
  <2> SUFFICES ASSUME IndInv, NEW r \in Requests
               PROVE  /\ req[r].status = 202 => Written(r)
                      /\ req[r].status \in {400, 401, 429, 500} => ~Written(r)
    BY DEF AnswersAreTrue
  <2>1. SentIsFinal(r, req[r])
    BY DEF IndInv, RequestsFit, Fits
  <2> QED  BY <2>1 DEF SentIsFinal
<1> QED  BY <1>1, Invariance, PTL

\* A request that came after its key was revoked or deleted has no event in the
\* topic, at any time.
THEOREM RevocationIsFinal == Spec => []RevokedIsRefused
<1>1. IndInv => RevokedIsRefused
  BY DEF IndInv, RequestsFit, Fits, SentIsFinal, StaleStopsEarly, RevokedIsRefused
<1> QED  BY <1>1, Invariance, PTL

\* The flag and the shared promise are true of the one connection.
THEOREM ConnectionIsShared == Spec => []OneConnection
<1>1. IndInv => OneConnection
  BY DEF IndInv
<1> QED  BY <1>1, Invariance, PTL
=============================================================================
