-------------------------------- MODULE Saga --------------------------------
(***************************************************************************)
(* The saga orchestrator (internal/saga): one saga instance with N steps,  *)
(* driven by coordinators that call Tick, and by the inbox handler that    *)
(* calls CompleteWaitingInTx when a remote answer arrives.                 *)
(*                                                                         *)
(* A Tick is one SERIALIZABLE transaction when its action succeeds.  When  *)
(* the action fails the transaction is rolled back, the row lock is gone,  *)
(* and recordActionFailure writes the failure in a second transaction: the *)
(* time in between is the state late[co].                                  *)
(***************************************************************************)
EXTENDS Naturals

CONSTANTS
  Coordinators,   \* concurrent callers of Tick
  N,              \* len(Definition.Steps)
  Remote,         \* ordinals whose action answers Await
  Compensable     \* ordinals with a Compensate action

ASSUME NAssumption == N \in Nat \ {0}

Ordinals == 0 .. (N - 1)

ASSUME StepsAssumption == Remote \subseteq Ordinals /\ Compensable \subseteq Ordinals

VARIABLES
  status,    \* saga_instances.status, "ABSENT" before Start
  current,   \* saga_instances.current_step
  step,      \* saga_steps.status by ordinal
  committed, \* ordinals whose local effect is committed
  undone,    \* ordinals whose inverse effect is committed
  commands,  \* ordinals whose remote command is in the outbox
  late,      \* the failure a coordinator has yet to record
  outdated   \* history: a failure was recorded that no longer applied

vars == <<status, current, step, committed, undone, commands, late, outdated>>

NoFailure == [kind |-> "none", ordinal |-> 0]

Failure(kind, i) == [kind |-> kind, ordinal |-> i]

Init ==
  /\ status = "ABSENT"
  /\ current = 0
  /\ step = [i \in Ordinals |-> "PENDING"]
  /\ committed = {}
  /\ undone = {}
  /\ commands = {}
  /\ late = [co \in Coordinators |-> NoFailure]
  /\ outdated = FALSE

\* A second Start finds the instance and changes nothing.
Start ==
  /\ status = "ABSENT"
  /\ status' = "RUNNING"
  /\ UNCHANGED <<current, step, committed, undone, commands, late, outdated>>

-----------------------------------------------------------------------------
(* executeOne.                                                             *)

Ticks(co, s) == late[co] = NoFailure /\ status = s

\* Fault: a failed step is not tried again.
ExecutableOnce(co) ==
  /\ Ticks(co, "RUNNING")
  /\ current < N
  /\ step[current] = "PENDING"

Executable(co) ==
  /\ Ticks(co, "RUNNING")
  /\ current < N
  /\ step[current] \in {"PENDING", "FAILED"}

\* advanceInstance.
Advance ==
  /\ current' = current + 1
  /\ status' = IF current + 1 = N THEN "COMPLETED" ELSE "RUNNING"

\* The local action succeeds: its effect, the step and the instance move together.
ExecuteDone(co) ==
  /\ Executable(co)
  /\ current \notin Remote
  /\ step' = [step EXCEPT ![current] = "COMPLETED"]
  /\ committed' = committed \cup {current}
  /\ Advance
  /\ UNCHANGED <<undone, commands, late, outdated>>

\* A remote action enqueues its command and waits.
ExecuteWait(co) ==
  /\ Executable(co)
  /\ current \in Remote
  /\ step' = [step EXCEPT ![current] = "WAITING"]
  /\ commands' = commands \cup {current}
  /\ UNCHANGED <<status, current, committed, undone, late, outdated>>

\* The action fails and its transaction is rolled back.
ExecuteFails(co, kind) ==
  /\ Executable(co)
  /\ late' = [late EXCEPT ![co] = Failure(kind, current)]
  /\ UNCHANGED <<status, current, step, committed, undone, commands, outdated>>

\* All steps are done but the instance still runs: its last step was remote.
CompleteSaga(co) ==
  /\ Ticks(co, "RUNNING")
  /\ current >= N
  /\ status' = "COMPLETED"
  /\ UNCHANGED <<current, step, committed, undone, commands, late, outdated>>

-----------------------------------------------------------------------------
(* compensateOne.                                                          *)

\* Fault: only completed steps are looked for.
CompensatableCompleted == {i \in Ordinals : step[i] = "COMPLETED"}

Compensatable == {i \in Ordinals : step[i] \in {"COMPLETED", "COMPENSATION_FAILED"}}

\* ORDER BY ordinal DESC LIMIT 1.
LastCompensatable(i) == i \in Compensatable /\ \A j \in Compensatable : j <= i

CompensateDone(co, i) ==
  /\ Ticks(co, "COMPENSATING")
  /\ LastCompensatable(i)
  /\ step' = [step EXCEPT ![i] = "COMPENSATED"]
  /\ undone' = IF i \in Compensable THEN undone \cup {i} ELSE undone
  /\ UNCHANGED <<status, current, committed, commands, late, outdated>>

CompensateFails(co, i) ==
  /\ Ticks(co, "COMPENSATING")
  /\ LastCompensatable(i)
  /\ i \in Compensable
  /\ late' = [late EXCEPT ![co] = Failure("compensation", i)]
  /\ UNCHANGED <<status, current, step, committed, undone, commands, outdated>>

\* Nothing is left to compensate.
FinishCompensation(co) ==
  /\ Ticks(co, "COMPENSATING")
  /\ Compensatable = {}
  /\ status' = "COMPENSATED"
  /\ UNCHANGED <<current, step, committed, undone, commands, late, outdated>>

-----------------------------------------------------------------------------
\* The saga is no longer where the failed action found it.
Outdated(f) ==
  IF f.kind = "compensation"
  THEN ~(status = "COMPENSATING" /\ LastCompensatable(f.ordinal))
  ELSE ~(status = "RUNNING" /\ current = f.ordinal /\ step[current] \in {"PENDING", "FAILED"})

\* recordActionFailure: the second transaction of a failed Tick.  It locks the
\* instance row but compares neither the step nor the instance with what the
\* failed action saw.
RecordFailure(co) ==
  LET f == late[co]
  IN  /\ f.kind # "none"
      /\ step' = [step EXCEPT ![f.ordinal] =
                    IF f.kind = "compensation" THEN "COMPENSATION_FAILED" ELSE "FAILED"]
      /\ status' = IF f.kind = "permanent" THEN "COMPENSATING" ELSE status
      /\ late' = [late EXCEPT ![co] = NoFailure]
      /\ outdated' = (outdated \/ Outdated(f))
      /\ UNCHANGED <<current, committed, undone, commands>>

\* The coordinator dies, or its second transaction fails, before that.
Crash(co) ==
  /\ late[co].kind # "none"
  /\ late' = [late EXCEPT ![co] = NoFailure]
  /\ UNCHANGED <<status, current, step, committed, undone, commands, outdated>>

\* Fault: a redelivered answer is taken as long as its step was ever reached.
AnswerAnyTime(i) == step[i] # "PENDING" /\ status = "RUNNING"

\* CompleteWaitingInTx refuses an answer nobody waits for.
AnswerAwaited(i) == step[i] = "WAITING" /\ current = i /\ status = "RUNNING"

\* An answer to a command arrives, once or again; unless it is awaited nothing
\* changes (a duplicate, or ErrNotWaiting).
CompleteWaiting(i) ==
  /\ i \in commands
  /\ AnswerAwaited(i)
  /\ step' = [step EXCEPT ![i] = "COMPLETED"]
  /\ committed' = committed \cup {i}
  /\ current' = current + 1
  /\ UNCHANGED <<status, undone, commands, late, outdated>>

CompensateOne(co) ==
  \/ \E i \in Ordinals : CompensateDone(co, i) \/ CompensateFails(co, i)
  \/ FinishCompensation(co)

ExecuteOne(co) ==
  \/ ExecuteDone(co) \/ ExecuteWait(co) \/ CompleteSaga(co)
  \/ \E kind \in {"transient", "permanent"} : ExecuteFails(co, kind)

Next ==
  \/ Start
  \/ \E co \in Coordinators : ExecuteOne(co) \/ CompensateOne(co) \/ RecordFailure(co) \/ Crash(co)
  \/ \E i \in Ordinals : CompleteWaiting(i)

Spec == Init /\ [][Next]_vars

\* Coordinators keep ticking, the inbox keeps delivering, a Tick that failed gets
\* to its second transaction or dies, and no action fails for ever.
Fairness ==
  /\ WF_vars(Start)
  /\ \A i \in Ordinals : WF_vars(CompleteWaiting(i))
  /\ \A co \in Coordinators :
       /\ WF_vars(RecordFailure(co))
       /\ WF_vars(CompleteSaga(co))
       /\ WF_vars(FinishCompensation(co))
       /\ SF_vars(ExecuteDone(co))
       /\ SF_vars(ExecuteWait(co))
       /\ SF_vars(\E i \in Ordinals : CompensateDone(co, i))

FairSpec == Spec /\ Fairness

-----------------------------------------------------------------------------
StepStatus == {"PENDING", "WAITING", "COMPLETED", "FAILED", "COMPENSATED",
               "COMPENSATION_FAILED"}

\* Status columns hold the values their CHECKs allow; a coordinator has at most
\* one failure to record.
TypeOK ==
  /\ status \in {"ABSENT", "RUNNING", "COMPENSATING", "COMPLETED", "COMPENSATED"}
  /\ current \in 0 .. N
  /\ step \in [Ordinals -> StepStatus]
  /\ committed \subseteq Ordinals
  /\ undone \subseteq Ordinals
  /\ commands \subseteq Remote
  /\ late \in [Coordinators -> [kind : {"none", "transient", "permanent", "compensation"},
                                ordinal : Ordinals]]
  /\ outdated \in BOOLEAN

\* The committed effects are exactly those of the steps before the current one,
\* in whatever order failures were recorded: no step runs twice, none is skipped,
\* and a saga that reports COMPLETED has run them all.
EffectsArePrefix ==
  /\ committed = {i \in Ordinals : i < current}
  /\ status = "COMPLETED" => current = N
  /\ \A i \in Ordinals : i > current => step[i] = "PENDING"

\* An inverse effect is only ever appended to an effect, and only once no later
\* step with a committed effect is left completed.
UndoneInReverse ==
  \A i \in undone : /\ i \in committed
                    /\ \A j \in Ordinals : j > i => step[j] # "COMPLETED"

\* All or nothing: a saga that ends COMPENSATED has undone every effect that can
\* be undone, and one that ends COMPLETED has undone none, unless a coordinator
\* recorded a failure that no longer applied.
AllOrNothing ==
  \/ outdated
  \/ /\ status = "COMPENSATED" => committed \cap Compensable \subseteq undone
     /\ status = "COMPLETED" => undone = {}

\* Every started saga comes to an end, with the same exception.
Ends == status = "RUNNING" ~> outdated \/ status \in {"COMPLETED", "COMPENSATED"}

\* What orchestrator.go says of concurrent coordinators: what a coordinator found
\* before another one advanced the saga is never committed after it, so a
\* completed step is never turned into a failed one.
NoStaleFailure ==
  [][\A i \in Ordinals : step[i] = "COMPLETED" => step'[i] # "FAILED"]_vars

=============================================================================
