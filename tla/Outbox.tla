------------------------------- MODULE Outbox -------------------------------
(***************************************************************************)
(* The transactional outbox and its publishers (internal/messaging         *)
(* outbox.go and publisher.go, cmd/outbox-publisher).  Publishers claim    *)
(* rows under a lease, send them to the broker one by one and mark them.   *)
(*                                                                         *)
(* Time is not modelled: a lease may run out whenever its holder has not   *)
(* finished, a backoff may be over at once.  What the publishers do not    *)
(* control (leases that run out, crashes, lost replies) happens at most    *)
(* MaxFaults times.                                                        *)
(***************************************************************************)
EXTENDS Messaging

VARIABLES
  row,      \* outbox_messages
  worker,   \* worker[p]: what RunOnce of publisher p still has to do
  log,      \* the broker's partition
  faults    \* faults so far

vars == <<row, worker, log, faults>>

NoRow == [status |-> "NONE", attempts |-> 0, owner |-> "nobody"]

Idle == [todo |-> {}, item |-> "nothing", result |-> "none"]

Init ==
  /\ row = [e \in Events |-> NoRow]
  /\ worker = [p \in Publishers |-> Idle]
  /\ log = <<>>
  /\ faults = 0

\* Faults that n rows or processes meet in one step.
Faulty(n) == faults + n <= MaxFaults /\ faults' = faults + n

-----------------------------------------------------------------------------
\* In the transaction of the business change; an identical retry changes nothing.
Enqueue(e) ==
  /\ row[e].status = "NONE"
  /\ row' = [row EXCEPT ![e] = [status |-> "PENDING", attempts |-> 0, owner |-> "nobody"]]
  /\ UNCHANGED <<worker, log, faults>>

\* Fault: a row whose lease ran out is not claimed again.
ClaimableOnce(e) == row[e].status = "PENDING"

Claimable(e) == row[e].status \in {"PENDING", "PUBLISHING"}

\* Only whether attempts has reached OutboxAttempts is ever asked.
Again(n) == IF n < OutboxAttempts THEN n + 1 ELSE n

\* The holder no longer works on the row: it crashed or could not mark it.
Orphaned(e) ==
  LET w == worker[row[e].owner]
  IN  row[e].status = "PUBLISHING" /\ e \notin w.todo /\ e # w.item

\* A PUBLISHING row can be claimed when its lease ran out, which is a fault while
\* its holder still works on it.
Claim(p, S) ==
  /\ worker[p] = Idle
  /\ S # {} /\ Cardinality(S) <= BatchSize
  /\ \A e \in S : Claimable(e)
  /\ Faulty(Cardinality({e \in S : row[e].status = "PUBLISHING" /\ ~Orphaned(e)}))
  /\ row' = [e \in Events |->
               IF e \in S
               THEN [status |-> "PUBLISHING", attempts |-> Again(row[e].attempts), owner |-> p]
               ELSE row[e]]
  /\ worker' = [worker EXCEPT ![p] = [todo |-> S, item |-> "nothing", result |-> "none"]]
  /\ UNCHANGED log

\* The reply to Publish, to be marked in the row next.
Answered(p, e, result) ==
  /\ e \in worker[p].todo /\ worker[p].item = "nothing"
  /\ worker' = [worker EXCEPT ![p] = [todo |-> worker[p].todo \ {e}, item |-> e,
                                      result |-> result]]
  /\ UNCHANGED row

\* Fault: a failed send is taken for a success.
FailureResultIgnored == "ok"

FailureResult == "failed"

PublishOk(p, e) ==
  /\ Answered(p, e, "ok")
  /\ e \notin Invalid
  /\ log' = Append(log, Record(e))
  /\ UNCHANGED faults

PublishRefused(p, e) ==
  /\ Answered(p, e, "invalid")
  /\ e \in Invalid
  /\ UNCHANGED <<log, faults>>

PublishFails(p, e) ==
  /\ Answered(p, e, FailureResult)
  /\ e \notin Invalid
  /\ UNCHANGED <<log, faults>>

\* The broker has the record, the publisher an error.
PublishAmbiguous(p, e) ==
  /\ Answered(p, e, FailureResult)
  /\ e \notin Invalid
  /\ log' = Append(log, Record(e))
  /\ Faulty(1)

\* Fault: the row's state and owner are not part of the UPDATE's condition.
HoldsAnyway(p, e) == TRUE

Holds(p, e) == row[e].status = "PUBLISHING" /\ row[e].owner = p

\* Fault: any error counts against OutboxAttempts.
ExhaustedByAny(e, result) == row[e].attempts >= OutboxAttempts

\* Only an invalid message has a finite retry budget.
Exhausted(e, result) == result = "invalid" /\ row[e].attempts >= OutboxAttempts

Outcome(e, result) ==
  IF result = "ok" THEN "PUBLISHED"
  ELSE IF Exhausted(e, result) THEN "POISON" ELSE "PENDING"

Marked(e, result) ==
  [status |-> Outcome(e, result), attempts |-> row[e].attempts, owner |-> "nobody"]

ItemDone(p) ==
  /\ worker[p].item # "nothing"
  /\ worker' = [worker EXCEPT ![p] = [todo |-> worker[p].todo, item |-> "nothing",
                                      result |-> "none"]]

\* MarkPublished or MarkFailed; with the lease lost the row is left alone.
Mark(p) ==
  LET e == worker[p].item
  IN  /\ ItemDone(p)
      /\ row' = IF Holds(p, e)
                THEN [row EXCEPT ![e] = Marked(e, worker[p].result)]
                ELSE row
      /\ UNCHANGED <<log, faults>>

\* The database did not take the mark; RunOnce goes on with the next row.
MarkFails(p) == ItemDone(p) /\ Faulty(1) /\ UNCHANGED <<row, log>>

Crash(p) ==
  /\ worker[p] # Idle
  /\ worker' = [worker EXCEPT ![p] = Idle]
  /\ Faulty(1)
  /\ UNCHANGED <<row, log>>

-----------------------------------------------------------------------------
Send(p, e) == PublishOk(p, e) \/ PublishRefused(p, e) \/ PublishFails(p, e)

Next ==
  \/ \E e \in Events : Enqueue(e)
  \/ \E p \in Publishers, S \in SUBSET Events : Claim(p, S)
  \/ \E p \in Publishers, e \in Events : Send(p, e) \/ PublishAmbiguous(p, e)
  \/ \E p \in Publishers : Mark(p) \/ MarkFails(p) \/ Crash(p)

Spec == Init /\ [][Next]_vars

-----------------------------------------------------------------------------
\* A valid event is never retired as poison, however many sends failed and
\* however many leases ran out.
ValidNeverPoison == \A e \in Events : row[e].status = "POISON" => e \in Invalid

\* A PUBLISHED or POISON row never changes again: a publisher that lost its lease
\* cannot put back what another one finished.
TerminalStays ==
  [][\A e \in Events : row[e].status \in {"PUBLISHED", "POISON"} => row'[e] = row[e]]_vars
=============================================================================
