SPECIFICATION Spec
CONSTANTS
  Focus = {"funds", "exchange", "repair", "migration"}
  Books = {1, 2}
  Accounts = {"alice", "bob", "carol", "shop", "settlement1", "settlement2", "funding1", "funding2",
              "erin", "store", "reserve2", "dollar", "euro", "dollarposition", "europosition"}
  BookOf <- SmallBookOf
  AssetOf <- SmallAssetOf
  NormalOf <- SmallNormalOf
  LimitOf <- SmallLimitOf
  Servers = {s1, s2}
  BlockSize = 5
  MaxCalls = 5
  MaxFaults = 1
  Customers = {"alice", "bob", "carol"}
  Merchants = {"shop"}
  SettlementOf <- SmallSettlementOf
  FundingOf <- SmallFundingOf
  Opened = {"alice", "bob"}
  Provisions <- SmallProvisions
  Deposits <- SmallDeposits
  Transfers <- SmallTransfers
  QuoteRequests <- SmallQuoteRequests
  ExchangeRequests <- SmallExchangeRequests
  Captures = {"p1", "p2"}
  Expected <- SmallExpected
  RuleOf <- SmallRuleOf
  Rule = 2
  Excesses = {1, 2}
  Incidents <- SmallIncidents
  RunIds = {"r1"}
  Wallet = "erin"
  Expense = "funding1"
  Merchant = "store"
  MaxGrants = 1
  MaxSpends = 1
  Postings <- SmallPostings
  Sides <- SmallSides
  FirstBooks = {1}
  Readers = {"reader", "batch"}
  BatchSize = 1
SYMMETRY Symmetry
INVARIANTS
  SettlementNets
  RightsMatchBalances
  AnsweredOnce
  NoIdTwice
  ExchangedAsQuoted
  RepairIsExact
  ReadsAgree
  LedgerReconciles
CHECK_DEADLOCK FALSE
