SPECIFICATION Spec
CONSTANTS
  p1 = p1
  p2 = p2
  c1 = c1
  c2 = c2
  east = east
  west = west
  Payments <- MCPayments
  Captures <- MCCaptures
  Regions <- MCRegions
  Funded <- MCFunded
  Amounts = {1, 2}
  Charges = {0, 1}
SYMMETRY Symmetry
INVARIANTS
  BalancesExplained
  RegionalRightsExplained
  ReturnsStayWithinCapture
  PaymentsReconcile
  StateMatchesCounters
  
CHECK_DEADLOCK FALSE
