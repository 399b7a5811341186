-------------------------------- MODULE Calls --------------------------------
(***************************************************************************)
(* What the services that post money share: the ledger, the outbox, the    *)
(* identifier generator and the shape of a call.  A call takes its         *)
(* identifiers first and is one SERIALIZABLE transaction then, so those of *)
(* a call that is a duplicate, or fails, are burned.  A request stands for *)
(* its own hash.                                                           *)
(***************************************************************************)
EXTENDS Ledger, Identifiers

CONSTANTS
  MaxCalls,
  MaxFaults

ASSUME CallsAssumption == BlockSize \in Nat /\ BlockSize >= 5

VARIABLES
  ledger,
  outbox,     \* events
  answers,    \* history: what callers were told
  calls,
  faults

callVars == <<ledger, outbox, answers, calls, faults, issuer, cache>>

NoRecord == [none |-> TRUE]

InitCalls ==
  /\ InitIds
  /\ ledger = EmptyLedger
  /\ outbox = {}
  /\ answers = {}
  /\ calls = 0
  /\ faults = 0

\* A server takes k identifiers for a call.
Call(s, k) ==
  /\ calls < MaxCalls
  /\ calls' = calls + 1
  /\ Draw(s, k)
  /\ UNCHANGED faults

\* The caller is told the result; a request carries the key it is idempotent on.
Answer(op, q, result) == answers' = answers \cup {[op |-> op, request |-> q, result |-> result]}

\* Fault: the hash of the stored request is not compared.
AnyRequest(record, q) == record # NoRecord

\* The stored record answers this request; another request under its key is refused.
SameRequest(record, q) == record # NoRecord /\ record.request = q

\* A replay is answered from the record.
Replay(s, k, op, record, q, result) ==
  /\ Call(s, k)
  /\ SameRequest(record, q)
  /\ Answer(op, q, result)
  /\ UNCHANGED <<ledger, outbox>>

\* The key is taken by another request.
Conflict(s, k, record, q) ==
  /\ Call(s, k)
  /\ record # NoRecord
  /\ ~SameRequest(record, q)
  /\ UNCHANGED <<ledger, outbox, answers>>

\* The transaction rolls back.
Refuse(s, k, record, allowed) ==
  /\ Call(s, k)
  /\ record = NoRecord
  /\ ~allowed
  /\ UNCHANGED <<ledger, outbox, answers>>

\* A reservation whose answer is lost, or the end of a process.
GeneratorFault(s) ==
  /\ faults < MaxFaults
  /\ faults' = faults + 1
  /\ ReservationLost(s) \/ Restart(s)
  /\ UNCHANGED <<ledger, outbox, answers, calls>>
=============================================================================
