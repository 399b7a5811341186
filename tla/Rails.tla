-------------------------------- MODULE Rails --------------------------------
(***************************************************************************)
(* Payments over an external rail (internal/rails): the intent is durable  *)
(* before the provider is called, the call is outside every transaction,   *)
(* and what it brought is recorded under the token of the attempt, or      *)
(* found out later by lookup, or tried again under the same reference.     *)
(*                                                                         *)
(* The provider is the scripted simulator, which may behave in any of its  *)
(* modes at every call; its webhooks, which nothing here reads, are left   *)
(* out.  A random token is the next number.                                *)
(***************************************************************************)
EXTENDS Integers, FiniteSets

CONSTANTS
  Operations,
  Payloads,
  Workers,        \* concurrent calls of the processor
  MaxTokens

VARIABLES
  attempt,        \* external_attempts
  record,         \* the provider's record by reference
  job,            \* what each worker is doing
  told            \* history: outcomes that callers were given

railsVars == <<attempt, record, job, told>>

NoAttempt == [status |-> "NONE", payload |-> "none", token |-> 0]

NoRecordYet == [outcome |-> "NONE", payload |-> "none", ready |-> FALSE]

NoCall == [step |-> "idle"]

Final == {"SUCCEEDED", "FAILED"}

InitRails ==
  /\ attempt = [o \in Operations |-> NoAttempt]
  /\ record = [o \in Operations |-> NoRecordYet]
  /\ job = [w \in Workers |-> NoCall]
  /\ told = {}

\* A worker ends and gives its caller what the row says, if that is final and the
\* answer of the database is not lost.
Return(w, o, row) ==
  /\ job' = [job EXCEPT ![w] = NoCall]
  /\ told' \in {told, told \cup {<<o, row.payload, status>> : status \in Final \cap {row.status}}}

Step(w, o, step, token, answer) ==
  job' = [job EXCEPT ![w] = [step |-> step, op |-> o, token |-> token, answer |-> answer]]

-----------------------------------------------------------------------------
(* The provider.                                                           *)

Settled(o, outcome) == [outcome |-> outcome, payload |-> attempt[o].payload, ready |-> TRUE]

\* ScriptedSimulator.Submit: what it stores and what it answers.  A reference that
\* is settled is answered as a duplicate; no answer is a timeout.
SubmitOutcomes(o) ==
  IF record[o].ready THEN {[record |-> record[o], answer |-> record[o].outcome]}
  ELSE {[record |-> Settled(o, "SUCCEEDED"), answer |-> "SUCCEEDED"],
        [record |-> Settled(o, "SUCCEEDED"), answer |-> "UNKNOWN"],
        [record |-> Settled(o, "FAILED"), answer |-> "FAILED"],
        [record |-> record[o], answer |-> "UNKNOWN"],
        [record |-> [Settled(o, "SUCCEEDED") EXCEPT !.ready = FALSE], answer |-> "UNKNOWN"]}

\* Lookup: a record that was delayed may be ready by now.
LookupOutcomes(o) ==
  LET due == IF record[o] = NoRecordYet THEN {record[o]} ELSE {record[o], [record[o] EXCEPT !.ready = TRUE]}
  IN  {[record |-> r, answer |-> IF r.ready THEN r.outcome ELSE "UNKNOWN"] : r \in due}

\* A worker that has a call to make makes it.
CallProvider(w) ==
  /\ job[w].step \in {"submit", "lookup"}
  /\ \E x \in IF job[w].step = "submit" THEN SubmitOutcomes(job[w].op) ELSE LookupOutcomes(job[w].op) :
       /\ record' = [record EXCEPT ![job[w].op] = x.record]
       /\ Step(w, job[w].op, "persist", job[w].token, x.answer)
  /\ UNCHANGED <<attempt, told>>

-----------------------------------------------------------------------------
(* The processor.                                                          *)

\* Start inserts the intent; only who inserted it submits.
Start(w, o, payload) ==
  /\ job[w] = NoCall
  /\ \/ /\ attempt[o] = NoAttempt
        /\ attempt' = [attempt EXCEPT ![o] = [status |-> "IN_FLIGHT", payload |-> payload, token |-> 1]]
        /\ Step(w, o, "submit", 1, "none")
        /\ UNCHANGED told
     \/ /\ attempt[o] # NoAttempt /\ attempt[o].payload = payload
        /\ Return(w, o, attempt[o])
        /\ UNCHANGED attempt
  /\ UNCHANGED record

\* Resolve reads the row, and looks up what is not final.
Resolve(w, o) ==
  /\ job[w] = NoCall
  /\ attempt[o] # NoAttempt
  /\ IF attempt[o].status \in Final THEN Return(w, o, attempt[o])
     ELSE Step(w, o, "lookup", attempt[o].token, "none") /\ UNCHANGED told
  /\ UNCHANGED <<attempt, record>>

\* RetrySameReference reads the row; its claim is a later transaction.
ReadForRetry(w, o) ==
  /\ job[w] = NoCall
  /\ attempt[o] # NoAttempt
  /\ IF attempt[o].status # "UNKNOWN" THEN Return(w, o, attempt[o])
     ELSE Step(w, o, "claim", attempt[o].token, "none") /\ UNCHANGED told
  /\ UNCHANGED <<attempt, record>>

ClaimRetry(w) ==
  /\ job[w].step = "claim"
  /\ LET o == job[w].op
         token == attempt[o].token + 1
     IN  IF attempt[o].status = "UNKNOWN" /\ attempt[o].token = job[w].token
         THEN /\ token <= MaxTokens
              /\ attempt' = [attempt EXCEPT ![o].status = "IN_FLIGHT", ![o].token = token]
              /\ Step(w, o, "submit", token, "none")
         ELSE job' = [job EXCEPT ![w] = NoCall] /\ UNCHANGED attempt
  /\ UNCHANGED <<record, told>>

\* Fault: a final row is rewritten by whoever has its token.
HasToken(row, token) == row.token = token

\* The condition of the update: the attempt's own token, and no final outcome.
MayPersist(row, token) == row.token = token /\ row.status \in {"IN_FLIGHT", "UNKNOWN"}

\* persistOutcome: the first final outcome stays, and a token that was replaced
\* records nothing.
Persist(w) ==
  /\ job[w].step = "persist"
  /\ LET o   == job[w].op
         row == [attempt[o] EXCEPT !.status = job[w].answer]
     IN  IF MayPersist(attempt[o], job[w].token)
         THEN attempt' = [attempt EXCEPT ![o] = row] /\ Return(w, o, row)
         ELSE /\ UNCHANGED attempt
              /\ IF attempt[o].token = job[w].token THEN Return(w, o, attempt[o])
                 ELSE job' = [job EXCEPT ![w] = NoCall] /\ UNCHANGED told
  /\ UNCHANGED record

\* The process ends, or the outcome cannot be stored: the row stays as it is.
Crash(w) ==
  /\ job[w] # NoCall
  /\ job' = [job EXCEPT ![w] = NoCall]
  /\ UNCHANGED <<attempt, record, told>>

RailsNext ==
  \E w \in Workers :
    \/ \E o \in Operations :
         (\E x \in Payloads : Start(w, o, x)) \/ Resolve(w, o) \/ ReadForRetry(w, o)
    \/ CallProvider(w) \/ ClaimRetry(w) \/ Persist(w) \/ Crash(w)

-----------------------------------------------------------------------------
(* Properties.                                                             *)

\* What callers are told is true and stays true: whoever submitted, looked up and
\* retried at the same time, crashed or was late, a final outcome that was given
\* for an operation is the row's and the provider's, a final row is what the
\* provider has settled, and the provider never has a payment without its intent.
OutcomeTrue ==
  /\ \A t \in told : attempt[t[1]].payload = t[2] /\ attempt[t[1]].status = t[3]
  /\ \A o \in Operations :
       /\ attempt[o].status \in Final => record[o].ready /\ record[o].outcome = attempt[o].status
       /\ record[o] # NoRecordYet => attempt[o] # NoAttempt /\ record[o].payload = attempt[o].payload
=============================================================================
