SPECIFICATION FairSpec
CONSTANTS
  Databases = {"A", "B"}
  Regions <- MCRegions
  DbOf <- MCDbOf
  Requests <- MCRequests
  Effects = {"e1"}
  Amounts = {1, 2}
  Grants <- MCGrants
  MaxEpoch <- MCMaxEpoch
INVARIANTS
  Conserved
  OnePlace
  WatermarksDense
PROPERTIES
  Settles
CHECK_DEADLOCK FALSE
