------------------------------- MODULE MCMoney -------------------------------
(***************************************************************************)
(* The services that share the ledger and the generator, on small          *)
(* instances.  One of them moves in a behaviour: focus says which.         *)
(***************************************************************************)
EXTENDS Funds, Exchange, CashbackRepair, ReferenceMigration, TLC

CONSTANT Focus     \* the services to look at

VARIABLE focus

vars == <<callVars, fundsVars, exchangeVars, repairVars, migrationVars, focus>>

SmallBookOf ==
  [a \in Accounts |-> IF a \in {"carol", "settlement2", "funding2", "reserve2"} THEN 2 ELSE 1]

SmallAssetOf == [a \in Accounts |-> IF a \in {"euro", "europosition"} THEN "EUR" ELSE "USD"]

SmallNormalOf ==
  [a \in Accounts |-> IF a \in {"funding1", "funding2"} THEN "DEBIT" ELSE "CREDIT"]

SmallLimitOf ==
  [a \in Accounts |-> IF a \in {"alice", "bob", "carol", "erin"} THEN 0 ELSE NoLimit]

SmallSettlementOf == <<"settlement1", "settlement2">>

SmallFundingOf == <<"funding1", "funding2">>

SmallProvisions == [key : {"carol"}, principal : {"mover", "none"}]

\* A deposit, another request under its key, and one to an account without rights.
SmallDeposits ==
  {[key |-> "d1", account |-> "alice", amount |-> 2], [key |-> "d1", account |-> "bob", amount |-> 1],
   [key |-> "d2", account |-> "shop", amount |-> 1]}

Payment(id, key, payer, payee, amount) ==
  [id |-> id, key |-> key, payer |-> payer, payee |-> payee, amount |-> amount, principal |-> "mover"]

\* Within a book, across books in both directions, and another request under a key.
SmallTransfers ==
  {Payment("t1", "k1", "alice", "bob", 1), Payment("t2", "k1", "alice", "carol", 1),
   Payment("t3", "k2", "alice", "carol", 1), Payment("t4", "k3", "carol", "bob", 1)}

\* A tie, a remainder and an amount that rounds to nothing.
SmallQuoteRequests ==
  [tie |-> [base |-> 5, numerator |-> 1, denominator |-> 2, rule |-> "HALF_EVEN"],
   up |-> [base |-> 4, numerator |-> 1, denominator |-> 3, rule |-> "CEILING"],
   none |-> [base |-> 1, numerator |-> 1, denominator |-> 3, rule |-> "FLOOR"]]

SmallExchangeRequests ==
  {[key |-> k, quote |-> n, debit |-> "dollar", basePosition |-> "dollarposition",
    quotePosition |-> "europosition", credit |-> "euro"] : k \in {"x1", "x2"}, n \in {"tie", "up"}}

SmallExpected == [p1 |-> 1, p2 |-> 1]

SmallRuleOf == [p1 |-> "good", p2 |-> "buggy"]

\* The windows of the two incidents overlap.
SmallIncidents ==
  {[id |-> "i1", first |-> 1, last |-> 4, rule |-> "buggy"],
   [id |-> "i2", first |-> 2, last |-> 9, rule |-> "buggy"]}

SmallPostings ==
  {[tx |-> "r1", book |-> 1, reference |-> "x"], [tx |-> "r2", book |-> 1, reference |-> "none"],
   [tx |-> "r3", book |-> 2, reference |-> "y"]}

SmallSides == <<<<"funding1", "store">>, <<"funding2", "reserve2">>>>

Symmetry == Permutations(Servers)

Init ==
  /\ focus \in Focus
  /\ InitCalls /\ InitFunds /\ InitExchange /\ InitRepair /\ InitMigration

Next ==
  /\ UNCHANGED focus
  /\ \/ focus = "funds" /\ FundsNext /\ UNCHANGED <<exchangeVars, repairVars, migrationVars>>
     \/ focus = "exchange" /\ ExchangeNext /\ UNCHANGED <<fundsVars, repairVars, migrationVars>>
     \/ focus = "repair" /\ RepairNext /\ UNCHANGED <<fundsVars, exchangeVars, migrationVars>>
     \/ focus = "migration" /\ MigrationNext /\ UNCHANGED <<fundsVars, exchangeVars, repairVars>>

Spec == Init /\ [][Next]_vars

-----------------------------------------------------------------------------
(* Properties.                                                             *)

\* What the daily reconciliation reads is always in order: whatever was posted by
\* which service, no transaction is out of balance, the balances are what the
\* journal gives again and within their limits, the sequences have no gap, every
\* book is a hash chain, and no record of success or event is without the
\* transaction it names.
LedgerReconciles ==
  /\ ledgerFindings = {}
  /\ \A b \in Books : IsChain(ledger, b)
  /\ \A a \in UNION {Touched(r) : r \in ledger.journal} : IsFold(ledger, a) /\ WithinLimit(a, ledger.balances[a])
  /\ checkDurableProofs({exchanged[k] : k \in ExchangeKeys} \ {NoRecord}) = {}
  /\ \A e \in outbox : \E r \in ledger.journal : r.tx = e.parent
=============================================================================
