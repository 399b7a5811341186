----------------------------- MODULE Messaging -----------------------------
(***************************************************************************)
(* The parameters Outbox, Inbox and Delivery share, and the records of the *)
(* partition between them.                                                 *)
(***************************************************************************)
EXTENDS Naturals, Sequences, FiniteSets

CONSTANTS
  Events,          \* event identifiers
  Invalid,         \* events whose message the producer's Validate refuses
  Publishers,      \* publisher processes, by owner name
  BatchSize,       \* rows one Claim takes at most
  OutboxAttempts,  \* after which an invalid message is poison in the outbox
  MaxFaults,       \* bound on publisher faults
  Bodies,          \* message contents of other producers, as hashMessage sees them
  Consumers,       \* members of the consumer group
  InboxAttempts,   \* handler failures before a message is poison in the inbox
  MaxStops         \* bound on unexplained stops of consumers

ASSUME InvalidAssumption == Invalid \subseteq Events
ASSUME NobodyPublishes == "nobody" \notin Publishers
ASSUME NoEventIsReserved == "nothing" \notin Events /\ "corrupt" \notin Events
ASSUME NoBodyIsReserved == "none" \notin Bodies /\ "sent" \notin Bodies
ASSUME Bounds ==
  /\ BatchSize \in Nat \ {0} /\ OutboxAttempts \in Nat \ {0} /\ InboxAttempts \in Nat \ {0}
  /\ MaxFaults \in Nat /\ MaxStops \in Nat

\* encodeRecord: an event of the outbox is always sent as the same bytes.
Record(e) == [id |-> e, body |-> "sent"]

\* What other producers write: the events with other contents, and bytes that
\* decodeRecord refuses.
Foreign == [id : Events \cup {"corrupt"}, body : Bodies]
=============================================================================
