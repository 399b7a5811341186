SPECIFICATION FairSpec
CONSTANTS
  a = a
  b = b
  k1 = k1
  k2 = k2
  q1 = q1
  q2 = q2
  i1 = i1
  i2 = i2
  i3 = i3
  Callers <- MCCallers
  Keys <- MCKeys
  Requests <- MCRequests
  Ids <- MCIds
  MaxAttempts = 2
INVARIANTS
  RecordedExactlyOnce
PROPERTIES
  KeepsPromise
  CallsTerminate
CHECK_DEADLOCK FALSE
