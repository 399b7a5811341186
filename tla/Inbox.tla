------------------------------- MODULE Inbox --------------------------------
(***************************************************************************)
(* A Kafka consumer group with a deduplicating inbox (internal/messaging   *)
(* inbox.go and kafka.go).  The group reads one partition; a member that   *)
(* lost the partition may still be working on a record of it.  A member    *)
(* that stops on an error is replaced and reads again from the committed   *)
(* offset.  Stops that no error of the handler explains (crashes, lost     *)
(* connections, failed commits) happen at most MaxStops times.             *)
(***************************************************************************)
EXTENDS Messaging

VARIABLES
  log,        \* the records of the partition
  committed,  \* the committed offset of the group
  member,     \* member[c]: the record consumer c works on, and how far it is
  inbox,      \* transport_inbox_messages
  effects,    \* effects[e]: committed effects of the handler for event e
  dlq,        \* offsets and events in the dead letter topic
  stops       \* unexplained stops so far

vars == <<log, committed, member, inbox, effects, dlq, stops>>

NoRow == [hash |-> "none", status |-> "NONE", attempts |-> 0]

\* No record in hand.
Away == [at |-> 0, pc |-> "away"]

Init ==
  /\ log = <<>>
  /\ committed = 0
  /\ member = [c \in Consumers |-> Away]
  /\ inbox = [e \in Events |-> NoRow]
  /\ effects = [e \in Events |-> 0]
  /\ dlq = {}
  /\ stops = 0

-----------------------------------------------------------------------------
\* The broker takes a record from some producer; decodeRecord refuses a corrupt one.
Arrive(r) ==
  /\ log' = Append(log, r)
  /\ UNCHANGED <<committed, member, inbox, effects, dlq, stops>>

RecordOf(c) == log[member[c].at]

Goes(c, pc) == member' = [member EXCEPT ![c] = [at |-> member[c].at, pc |-> pc]]

Stops(c) == member' = [member EXCEPT ![c] = Away]

\* PollRecords after the group assigned the partition.
Poll(c) ==
  /\ member[c] = Away
  /\ committed < Len(log)
  /\ member' = [member EXCEPT ![c] = [at |-> committed + 1, pc |-> "record"]]
  /\ UNCHANGED <<log, committed, inbox, effects, dlq, stops>>

\* Consumer c is about to process a record of event e that is not corrupt.
Processes(c, e) == member[c].pc = "record" /\ RecordOf(c).id = e

\* ErrPayloadConflict, POISON and APPLIED are found out before the handler runs.
Conflicts(c, e) == inbox[e] # NoRow /\ inbox[e].hash # RecordOf(c).body

\* Fault: an applied message is handled again.
EligibleAlways(e) == inbox[e].status # "POISON"

Eligible(e) == inbox[e].status \in {"NONE", "PROCESSING", "FAILED"}

\* Only whether attempts has reached InboxAttempts is ever asked.
OneMore(n) == IF n <= InboxAttempts THEN n + 1 ELSE n

\* The handler's effect and the APPLIED marker commit together.
Apply(c, e) ==
  /\ Processes(c, e) /\ ~Conflicts(c, e) /\ Eligible(e)
  /\ inbox' = [inbox EXCEPT ![e] = [hash |-> RecordOf(c).body, status |-> "APPLIED",
                                    attempts |-> OneMore(inbox[e].attempts)]]
  /\ effects' = [effects EXCEPT ![e] = effects[e] + 1]
  /\ Goes(c, "commit")
  /\ UNCHANGED <<log, committed, dlq, stops>>

Duplicate(c, e) ==
  /\ Processes(c, e) /\ ~Conflicts(c, e) /\ inbox[e].status = "APPLIED"
  /\ Goes(c, "commit")
  /\ UNCHANGED <<log, committed, inbox, effects, dlq, stops>>

\* Fault: a poison message needs no dead letter.
PoisonSkipped == "commit"

AfterPoison == "dead letter"

Poisoned(c, e) ==
  /\ Processes(c, e) /\ ~Conflicts(c, e) /\ inbox[e].status = "POISON"
  /\ Goes(c, AfterPoison)
  /\ UNCHANGED <<log, committed, inbox, effects, dlq, stops>>

\* The consumer stops with an error; the next one meets the same record.
Conflict(c, e) ==
  /\ Processes(c, e) /\ Conflicts(c, e)
  /\ Stops(c)
  /\ UNCHANGED <<log, committed, inbox, effects, dlq, stops>>

\* The handler's transaction is rolled back; the failure is not recorded yet.
HandlerFails(c, e) ==
  /\ Processes(c, e) /\ ~Conflicts(c, e) /\ Eligible(e)
  /\ Goes(c, "record failure")
  /\ UNCHANGED <<log, committed, inbox, effects, dlq, stops>>

Recordable(e) == inbox[e].status # "APPLIED"

\* Fault: the budget is never used up.
NeverPoison(n) == "FAILED"

FailureStatus(n) == IF n >= InboxAttempts THEN "POISON" ELSE "FAILED"

\* recordFailure: a transaction of its own, after which the consumer stops unless
\* the message is poison now.
RecordFailure(c, e) ==
  LET n == OneMore(inbox[e].attempts)
  IN  /\ member[c].pc = "record failure" /\ RecordOf(c).id = e
      /\ IF Recordable(e)
         THEN /\ inbox' = [inbox EXCEPT
                            ![e] = [hash |-> IF inbox[e] = NoRow THEN RecordOf(c).body
                                             ELSE inbox[e].hash,
                                    status |-> FailureStatus(n), attempts |-> n]]
              /\ IF FailureStatus(n) = "POISON" THEN Goes(c, AfterPoison) ELSE Stops(c)
         ELSE /\ Stops(c)
              /\ UNCHANGED inbox
      /\ UNCHANGED <<log, committed, effects, dlq, stops>>

\* decodeRecord fails: the raw record goes to the dead letters.
Malformed(c) ==
  /\ member[c].pc = "record" /\ RecordOf(c).id = "corrupt"
  /\ Goes(c, "dead letter")
  /\ UNCHANGED <<log, committed, inbox, effects, dlq, stops>>

\* A dead letter carries the event, or the coordinate of a corrupt record.
Letter(i) == IF log[i].id = "corrupt" THEN <<"corrupt", i>> ELSE <<log[i].id, 0>>

PublishDeadLetter(c) ==
  /\ member[c].pc = "dead letter"
  /\ dlq' = dlq \cup {Letter(member[c].at)}
  /\ Goes(c, "commit")
  /\ UNCHANGED <<log, committed, inbox, effects, stops>>

Offset(c) == member[c].at

\* CommitRecords, and on to the next record of the fetch.
Commit(c) ==
  /\ member[c].pc = "commit"
  /\ committed' = Offset(c)
  /\ member' = [member EXCEPT ![c] = IF member[c].at < Len(log)
                                     THEN [at |-> member[c].at + 1, pc |-> "record"]
                                     ELSE Away]
  /\ UNCHANGED <<log, inbox, effects, dlq, stops>>

\* A crash, a rebalance, a broker or database error, a commit that was refused.
Stop(c) ==
  /\ member[c] # Away
  /\ stops < MaxStops
  /\ stops' = stops + 1
  /\ Stops(c)
  /\ UNCHANGED <<log, committed, inbox, effects, dlq>>

-----------------------------------------------------------------------------
Works(c) ==
  \/ Poll(c)
  \/ \E e \in Events : \/ Apply(c, e) \/ Duplicate(c, e) \/ Poisoned(c, e) \/ Conflict(c, e)
                       \/ HandlerFails(c, e) \/ RecordFailure(c, e)
  \/ Malformed(c)
  \/ PublishDeadLetter(c)
  \/ Commit(c)

Records == {Record(e) : e \in Events} \cup Foreign

Group == \E c \in Consumers : Works(c) \/ Stop(c)

Next == Group \/ \E r \in Records : Arrive(r)

Spec == Init /\ [][Next]_vars

-----------------------------------------------------------------------------
\* The handler's effect is there once for an APPLIED message and not at all for any
\* other, for all redeliveries, concurrent members and late failure records.
AppliedExactlyOnce ==
  \A e \in Events : effects[e] = IF inbox[e].status = "APPLIED" THEN 1 ELSE 0

\* The record at offset i has been dealt with for good.
Settled(i) ==
  LET e == log[i].id
  IN  IF e = "corrupt" THEN Letter(i) \in dlq
      ELSE /\ inbox[e].hash = log[i].body
           /\ \/ inbox[e].status = "APPLIED"
              \/ inbox[e].status = "POISON" /\ Letter(i) \in dlq

\* The committed offset never passes a record that is neither applied nor in the
\* dead letter topic: poison is not skipped silently.
NothingSkipped == \A i \in 1 .. committed : Settled(i)

\* A message that is APPLIED or POISON stays that: the failure of a slow delivery
\* never revives or buries it.
VerdictStays ==
  [][\A e \in Events : inbox[e].status \in {"APPLIED", "POISON"} =>
       inbox'[e].status = inbox[e].status]_vars
=============================================================================
