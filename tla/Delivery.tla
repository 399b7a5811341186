------------------------------ MODULE Delivery ------------------------------
(***************************************************************************)
(* Outbox, broker partition and Inbox together: from the transaction that  *)
(* enqueues an event to the transaction that applies it.  The partition    *)
(* is all the two sides share.                                             *)
(***************************************************************************)
EXTENDS Messaging

CONSTANT MaxForeign   \* bound on records of other producers

ASSUME MaxForeignAssumption == MaxForeign \in Nat

VARIABLES row, worker, log, faults, committed, member, inbox, effects, dlq, stops

out == INSTANCE Outbox

in == INSTANCE Inbox

outVars == <<row, worker, faults>>

inVars == <<committed, member, inbox, effects, dlq, stops>>

vars == <<row, worker, log, faults, committed, member, inbox, effects, dlq, stops>>

Init == out!Init /\ in!Init

\* The topic takes records of other producers as well.
ForeignArrives ==
  /\ Cardinality({i \in DOMAIN log : log[i] \in Foreign}) < MaxForeign
  /\ \E r \in Foreign : in!Arrive(r)
  /\ UNCHANGED outVars

Next ==
  \/ out!Next /\ UNCHANGED inVars
  \/ in!Group /\ UNCHANGED outVars
  \/ ForeignArrives

Spec == Init /\ [][Next]_vars

\* Every publisher calls RunOnce again and again and gets on with its rows.  The
\* candidates of Claim are ordered by available_at, so no row is passed over for
\* ever, and the broker is not down for ever.  A consumer that stopped is started
\* again and one that runs takes its next step.
FairSpec ==
  /\ Spec
  /\ \A p \in Publishers :
       /\ WF_vars(out!Mark(p) /\ UNCHANGED inVars)
       /\ WF_vars((\E e \in Events : out!Send(p, e)) /\ UNCHANGED inVars)
  /\ \A e \in Events :
       /\ SF_vars((\E p \in Publishers, S \in SUBSET Events : e \in S /\ out!Claim(p, S))
                  /\ UNCHANGED inVars)
       /\ SF_vars((\E p \in Publishers : out!PublishOk(p, e)) /\ UNCHANGED inVars)
  /\ \A c \in Consumers : WF_vars(in!Works(c) /\ UNCHANGED outVars)

-----------------------------------------------------------------------------
\* A valid event is never retired as poison by its publishers, however many sends
\* failed and however many leases ran out.
ValidNeverPoison == out!ValidNeverPoison

\* The handler's effect is there once for an APPLIED message and not at all for any
\* other, however often it was sent, delivered and recorded as failed; and an
\* effect of an outbox message means that its transaction committed.
AppliedExactlyOnce ==
  /\ in!AppliedExactlyOnce
  /\ \A e \in Events : inbox[e].hash = "sent" => row[e].status # "NONE"

\* The committed offset never passes a record that is neither applied nor in the
\* dead letter topic: poison is not skipped silently.
NothingSkipped == in!NothingSkipped

\* Behind a PUBLISHED row there is a record of it that the group has settled or
\* will read, although publishers mark rows long after their leases ran out.
InFlightOrSettled ==
  \A e \in Events : row[e].status = "PUBLISHED" =>
    \E i \in DOMAIN log : log[i] = Record(e) /\ (i > committed \/ in!Settled(i))

\* A publisher that lost its lease cannot put back a row that another one finished,
\* and the failure of a slow delivery never revives or buries a finished message.
VerdictsStay == out!TerminalStays /\ in!VerdictStays

\* Two records of the partition have one identifier and different contents.
Contested ==
  \E i, j \in DOMAIN log : /\ log[i].id = log[j].id /\ log[i].id # "corrupt"
                          /\ log[i].body # log[j].body

\* End to end: an enqueued event is applied, or is in the dead letter topic, or the
\* producer itself refuses it and its row is poison.  The exception is an identifier
\* that came with two contents: the consumer stops at it.
Delivered ==
  \A e \in Events : row[e].status # "NONE" ~>
    \/ IF e \in Invalid THEN row[e].status = "POISON"
                         ELSE effects[e] = 1 \/ <<e, 0>> \in dlq
    \/ Contested
=============================================================================
