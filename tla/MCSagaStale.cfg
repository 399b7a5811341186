SPECIFICATION Spec
CONSTANTS
  a = a
  b = b
  Coordinators <- MCCoordinators
  N = 4
  Remote = {1, 3}
  Compensable = {0, 1, 2}
PROPERTIES
  NoStaleFailure
CHECK_DEADLOCK FALSE
