\* Two group members, an event sent twice, and a record of another producer.
SPECIFICATION FairSpec
CONSTANTS
  e1 = e1
  e2 = e2
  p1 = p1
  p2 = p2
  c1 = c1
  c2 = c2
  Events = {e1}
  Invalid = {}
  Publishers = {p1}
  BatchSize = 2
  OutboxAttempts = 1
  MaxFaults = 1
  Bodies = {"other"}
  Consumers = {c1, c2}
  InboxAttempts = 2
  MaxStops = 1
  MaxForeign = 1
INVARIANTS
  AppliedExactlyOnce
  NothingSkipped
PROPERTIES
  Delivered
CHECK_DEADLOCK FALSE
