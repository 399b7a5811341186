\* Two publishers, a valid and an invalid event.
SPECIFICATION FairSpec
CONSTANTS
  e1 = e1
  e2 = e2
  p1 = p1
  p2 = p2
  c1 = c1
  c2 = c2
  Events = {e1, e2}
  Invalid = {e2}
  Publishers = {p1, p2}
  BatchSize = 2
  OutboxAttempts = 2
  MaxFaults = 2
  Bodies = {"other"}
  Consumers = {c1}
  InboxAttempts = 1
  MaxStops = 0
  MaxForeign = 0
INVARIANTS
  ValidNeverPoison
  InFlightOrSettled
PROPERTIES
  
  Delivered
CHECK_DEADLOCK FALSE
