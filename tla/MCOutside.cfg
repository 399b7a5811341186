SPECIFICATION Spec
CONSTANTS
  Focus = {"rails", "identity", "migrator", "offline"}
  Operations = {"o1"}
  Payloads = {"x", "y"}
  Workers = {"w1", "w2", "w3"}
  MaxTokens = 3
  Identities = {"i1", "i2"}
  RequestsOf <- SmallRequestsOf
  Clients = {"c1", "c2"}
  Runs = {"m1", "m2", "m3", "m4", "m5"}
  Image <- SmallImage
  Target <- SmallTarget
  Acknowledged = {"m1"}
  Statements <- SmallStatements
  Allowances = {"a1", "a2"}
  AmountOf <- SmallAmountOf
  Domains = {"d1", "d2"}
  FirstEpoch <- SmallFirstEpoch
  LastEpoch <- SmallLastEpoch
  MaxEpoch = 2
  Fences = {1, 2}
  MaxClosures = 2
  InitialRights = 3
INVARIANTS
  OutcomeTrue
  
  RunOnce
  AuthorityConserved
  AcceptedIsNotReturned
CHECK_DEADLOCK FALSE
