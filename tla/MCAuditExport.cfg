SPECIFICATION FairSpec
CONSTANTS
  w1 = w1
  w2 = w2
  Books = {"b1"}
  Accounts <- MCAccounts
  BookOf <- MCBookOf
  AssetOf <- MCAssetOf
  NormalOf <- MCNormalOf
  LimitOf <- MCLimitOf
  Requests <- MCRequests
  Workers = {w1, w2}
  Sinks <- MCSinks
  MaxRangeEntries = 2
  MaxPendingPerBook = 2
  MaxReadyBacklog = 1
  MaxFaults = 1
INVARIANTS
  CheckpointsTile
  ReceiptsArePrefix
  ReadyMeansAnchored
PROPERTIES
  EveryEntryAnchored
