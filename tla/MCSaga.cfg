SPECIFICATION FairSpec
CONSTANTS
  a = a
  b = b
  Coordinators <- MCCoordinators
  N = 4
  Remote = {1, 3}
  Compensable = {0, 1, 2}
INVARIANTS
  EffectsArePrefix
  AllOrNothing
PROPERTIES
  Ends
CHECK_DEADLOCK FALSE
