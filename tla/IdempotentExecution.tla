------------------------ MODULE IdempotentExecution ------------------------
(***************************************************************************)
(* How payment.Service.execute performs a command: identifiers are drawn   *)
(* first, then one SERIALIZABLE transaction claims the idempotency key,    *)
(* runs the operation, writes the outbox event and completes the record    *)
(* (internal/store, internal/idempotency, internal/payment execute).       *)
(*                                                                         *)
(* A handler call is in Callers; callers repeat keys, with the same or with*)
(* another request, at any time and concurrently.  A transaction whose     *)
(* commit reply is lost may be applied later or never.                     *)
(***************************************************************************)
EXTENDS Naturals, FiniteSets

CONSTANTS
  Callers,      \* concurrent handler calls
  Keys,         \* (scope, idempotency key) pairs
  Requests,     \* request hashes
  Ids,          \* bundles of identifiers the durable generator hands out
  MaxAttempts   \* store.Runner's attempt budget

ASSUME MaxAttemptsAssumption == MaxAttempts \in Nat \ {0}
ASSUME NoneIsNoValue == "none" \notin Ids \cup Keys \cup Requests

VARIABLES
  idem,      \* idempotency_records by key
  effects,   \* committed economic effects
  outbox,    \* committed outbox events
  used,      \* identifiers handed out so far
  call,      \* the state of each handler call
  inflight,  \* transactions whose commit reply was lost, still undecided
  answers    \* successes reported to callers

vars == <<idem, effects, outbox, used, call, inflight, answers>>

NoRecord == [hash |-> "none", state |-> "NONE", owner |-> "none", response |-> "none"]

Idle == [pc |-> "idle", key |-> "none", req |-> "none", id |-> "none", attempts |-> 0]

Done(k, q, id) == [key |-> k, req |-> q, id |-> id]

-----------------------------------------------------------------------------
(* idempotency.Service, as run inside the transaction.                     *)

\* Fault: the claim is an upsert.
UpsertedClaim(rec, q, id) ==
  [hash |-> q, state |-> "PROCESSING", owner |-> id, response |-> "none"]

\* INSERT ... ON CONFLICT DO NOTHING.
Claimed(rec, q, id) ==
  IF rec = NoRecord
  THEN [hash |-> q, state |-> "PROCESSING", owner |-> id, response |-> "none"]
  ELSE rec

\* Fault: the request hash is not compared.
OutcomeIgnoringHash(rec, q, id, expired) ==
  IF rec.state \in {"SUCCEEDED", "FAILED"} THEN "CACHED"
  ELSE IF rec.owner = id \/ expired THEN "ACQUIRED"
  ELSE "IN_PROGRESS"

\* The order of the tests is the order of Claim: a different request is a
\* conflict whatever the state, a terminal record is replayed, one's own record
\* is acquired, and a foreign PROCESSING record only after its lease.
ClaimOutcome(rec, q, id, expired) ==
  IF rec.hash # q THEN "CONFLICT"
  ELSE IF rec.state \in {"SUCCEEDED", "FAILED"} THEN "CACHED"
  ELSE IF rec.owner = id \/ expired THEN "ACQUIRED"
  ELSE "IN_PROGRESS"

\* The takeover of an expired claim.
TakenOver(rec, id) == IF rec.state = "PROCESSING" THEN [rec EXCEPT !.owner = id] ELSE rec

\* Complete refuses a record that is not the owner's PROCESSING one.
CompleteAllowed(rec, id) == rec.owner = id /\ rec.state = "PROCESSING"

Completed(rec, id) ==
  [hash |-> rec.hash, state |-> "SUCCEEDED", owner |-> rec.owner, response |-> id]

\* The record as the transaction of a call holds it after Claim.
Held(k, q, id) == TakenOver(Claimed(idem[k], q, id), id)

Outcome(c, expired) ==
  ClaimOutcome(Claimed(idem[call[c].key], call[c].req, call[c].id),
               call[c].req, call[c].id, expired)

Acquires(c) ==
  /\ \E expired \in BOOLEAN : Outcome(c, expired) = "ACQUIRED"
  /\ CompleteAllowed(Held(call[c].key, call[c].req, call[c].id), call[c].id)

\* The writes of one transaction that acquired its key.
Apply(k, q, id) ==
  /\ idem' = [idem EXCEPT ![k] = Completed(Held(k, q, id), id)]
  /\ effects' = effects \cup {Done(k, q, id)}
  /\ outbox' = outbox \cup {[event |-> id, key |-> k]}

-----------------------------------------------------------------------------
Init ==
  /\ idem = [k \in Keys |-> NoRecord]
  /\ effects = {}
  /\ outbox = {}
  /\ used = {}
  /\ call = [c \in Callers |-> Idle]
  /\ inflight = {}
  /\ answers = {}

Fresh(id) == id \notin used

\* A handler call starts: executionIDs draws every identifier it may need.
Begin(c, k, q, id) ==
  /\ call[c] = Idle
  /\ Fresh(id)
  /\ used' = used \cup {id}
  /\ call' = [call EXCEPT ![c] = [pc |-> "running", key |-> k, req |-> q,
                                  id |-> id, attempts |-> 0]]
  /\ UNCHANGED <<idem, effects, outbox, inflight, answers>>

Finish(c) == call' = [call EXCEPT ![c] = Idle]

\* The transaction commits and the caller is told.
Commit(c) ==
  /\ call[c].pc = "running"
  /\ Acquires(c)
  /\ Apply(call[c].key, call[c].req, call[c].id)
  /\ answers' = answers \cup {Done(call[c].key, call[c].req, call[c].id)}
  /\ Finish(c)
  /\ UNCHANGED <<used, inflight>>

\* The key is already terminal: the stored response is replayed.
Replay(c) ==
  /\ call[c].pc = "running"
  /\ Outcome(c, FALSE) = "CACHED"
  /\ idem[call[c].key].state = "SUCCEEDED"
  /\ answers' = answers \cup {Done(call[c].key, call[c].req, idem[call[c].key].response)}
  /\ Finish(c)
  /\ UNCHANGED <<idem, effects, outbox, used, inflight>>

\* An error that is known to have written nothing: a key conflict, a claim in
\* progress, a refused operation, no connection, a cancelled context, a crash.
Refuse(c) ==
  /\ call[c].pc = "running"
  /\ Finish(c)
  /\ UNCHANGED <<idem, effects, outbox, used, inflight, answers>>

\* ErrAmbiguousCommit: the commit was sent and its reply lost.  The runner never
\* executes the transaction again; the database may still apply it.
LoseReply(c) ==
  /\ call[c].pc = "running"
  /\ Acquires(c)
  /\ inflight' = inflight \cup {Done(call[c].key, call[c].req, call[c].id)}
  /\ Finish(c)
  /\ UNCHANGED <<idem, effects, outbox, used, answers>>

\* Fault: a budget that starts over.
AttemptsStartOver(t) == [t EXCEPT !.attempts = (t.attempts + 1) % MaxAttempts]

NextAttempt(t) ==
  IF t.attempts + 1 < MaxAttempts THEN [t EXCEPT !.attempts = t.attempts + 1] ELSE Idle

\* SQLSTATE 40001: run the transaction again, with the same identifiers, until
\* the attempts are used up.
SerializationFailure(c) ==
  /\ call[c].pc = "running"
  /\ call' = [call EXCEPT ![c] = NextAttempt(call[c])]
  /\ UNCHANGED <<idem, effects, outbox, used, inflight, answers>>

\* An undecided transaction is applied.  Serializability: only while the key row
\* is as the transaction read it.
Land(t) ==
  /\ t \in inflight
  /\ idem[t.key] = NoRecord
  /\ Apply(t.key, t.req, t.id)
  /\ inflight' = inflight \ {t}
  /\ UNCHANGED <<used, call, answers>>

\* ... or aborted.
Vanish(t) ==
  /\ t \in inflight
  /\ inflight' = inflight \ {t}
  /\ UNCHANGED <<idem, effects, outbox, used, call, answers>>

Handle(c) == Commit(c) \/ Replay(c) \/ Refuse(c) \/ LoseReply(c) \/ SerializationFailure(c)

Next ==
  \/ \E c \in Callers, k \in Keys, q \in Requests, id \in Ids : Begin(c, k, q, id)
  \/ \E c \in Callers : Handle(c)
  \/ \E t \in inflight : Land(t) \/ Vanish(t)

Spec == Init /\ [][Next]_vars

\* A handler call that runs takes its next step: the runner's loop neither blocks
\* nor waits on another call.
FairSpec == Spec /\ \A c \in Callers : WF_vars(Handle(c))

-----------------------------------------------------------------------------
Record ==
  [hash : Requests \cup {"none"}, state : {"NONE", "PROCESSING", "SUCCEEDED", "FAILED"},
   owner : Ids \cup {"none"}, response : Ids \cup {"none"}]

CallRecord ==
  [pc : {"running"}, key : Keys, req : Requests, id : Ids, attempts : 0 .. (MaxAttempts - 1)]

DoneRecord == [key : Keys, req : Requests, id : Ids]

\* Tables and calls have the shapes the code gives them, and a running call is
\* always within its attempt budget.
TypeOK ==
  /\ idem \in [Keys -> Record]
  /\ effects \subseteq DoneRecord
  /\ outbox \subseteq [event : Ids, key : Keys]
  /\ used \subseteq Ids
  /\ call \in [Callers -> CallRecord \cup {Idle}]
  /\ inflight \subseteq DoneRecord
  /\ answers \subseteq DoneRecord

\* Committed effects, committed idempotency records and committed outbox events
\* are in exact correspondence: one of each per performed key and none besides,
\* whatever replies were lost and whatever was retried meanwhile.
RecordedExactlyOnce ==
  /\ \A e \in effects : idem[e.key].state = "SUCCEEDED"
                        /\ e = Done(e.key, idem[e.key].hash, idem[e.key].response)
  /\ \A k \in Keys : idem[k] # NoRecord =>
                       Done(k, idem[k].hash, idem[k].response) \in effects
  /\ outbox = {[event |-> e.id, key |-> e.key] : e \in effects}

\* Every success a caller was told about, first answer or replay, names an effect
\* that is committed under the caller's own key and request.
AnswersAreTrue == answers \subseteq effects

\* The identifiers of an effect belong to it alone.
IdsAreUnique == \A d \in effects, e \in effects : d.id = e.id => d = e

\* A handler call always comes to an end.
CallsTerminate == \A c \in Callers : call[c].pc = "running" ~> call[c].pc = "idle"

\* The abstract promise, read off the idempotency records.
Promise == INSTANCE ExactlyOnce WITH
             done <- [k \in Keys |-> [req |-> idem[k].hash, id |-> idem[k].response]],
             answered <- answers

\* The service keeps the promise of ExactlyOnce.
KeepsPromise == Promise!Spec

=============================================================================
