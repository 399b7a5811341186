-------------------------------- MODULE Funds --------------------------------
(***************************************************************************)
(* Wallets and the money in them: provisioning and deposits                *)
(* (internal/provisioning), transfers between customers (internal/transfer *)
(* and apply_transfer_escrow_effect of migration 027), the capabilities    *)
(* they need (internal/authz), over the ledger and the generator.          *)
(*                                                                         *)
(* The account that a wallet receives has the name of the wallet's         *)
(* reference, and the held account beside it, which nothing here moves, is *)
(* left out.                                                               *)
(***************************************************************************)
EXTENDS Calls

CONSTANTS
  Customers,       \* references of wallets, and their available accounts
  Merchants,       \* merchant accounts
  SettlementOf,    \* SettlementOf[b]: the settlement account of book b
  FundingOf,       \* FundingOf[b]: the funding source of book b
  Opened,          \* wallets that are there from the start
  Provisions,      \* requests
  Deposits,
  Transfers

ASSUME FundsAssumption ==
  /\ Customers \cup Merchants \subseteq Accounts /\ Opened \subseteq Customers
  /\ \A b \in Books : BookOf[SettlementOf[b]] = b /\ BookOf[FundingOf[b]] = b

VARIABLES
  accounts,   \* rows of accounts
  settles,    \* rows of interbook_settlement_accounts, by book
  grants,     \* payment_account_capabilities
  wallets,    \* account_provisioning_records, by reference
  rights,     \* escrow rows: total authority, the region's rights and their version
  funded,     \* funding_records, by reference
  sent        \* transfer_operations and their legs, by idempotency key

fundsVars == <<accounts, settles, grants, wallets, rights, funded, sent>>

NoRights == [total |-> -1, available |-> -1, version |-> 0]

DepositRefs == {q.key : q \in Deposits}

TransferKeys == {q.key : q \in Transfers}

\* The rows one wallet leaves behind, for the wallets opened at the start.
InitFunds ==
  /\ settles = {BookOf[c] : c \in Opened}
  /\ accounts = {FundingOf[b] : b \in Books} \cup Opened \cup {SettlementOf[BookOf[c]] : c \in Opened}
  /\ grants = {<<"mover", c, permission>> : c \in Opened, permission \in {"DEBIT", "CREDIT"}}
               \cup {<<"payments", c, "PAYER">> : c \in Opened}
  /\ wallets = [c \in Customers |->
                  IF c \in Opened THEN [request |-> [key |-> c, principal |-> "mover"]] ELSE NoRecord]
  /\ rights = [c \in Customers \cup Merchants |->
                 IF c \in Opened THEN [total |-> 0, available |-> 0, version |-> 0] ELSE NoRights]
  /\ funded = [r \in DepositRefs |-> NoRecord]
  /\ sent = [k \in TransferKeys |-> NoRecord]

-----------------------------------------------------------------------------
(* Provisioning.                                                           *)

\* grantCapability: sending and receiving are granted apart, to a named principal only.
TransferGrants(q) ==
  IF q.principal = "none" THEN {}
  ELSE {<<q.principal, q.key, permission>> : permission \in {"DEBIT", "CREDIT"}}

\* The payment principal may always pay from the account.
PaymentGrants(q) == {<<"payments", q.key, "PAYER">>}

\* insertZeroEscrow.
ZeroEscrow(row) == IF row = NoRights THEN [total |-> 0, available |-> 0, version |-> 0] ELSE row

\* CreateAccountInTx inserts, and leaves a row that is there alone.
CreateAccounts(new) == accounts' = accounts \cup new

\* ensureSettlementAccount: the book has one settlement account of the asset.
EnsureSettlement(b) == settles' = settles \cup {b}

\* ProvisionCustomerAccount: book, settlement account, account, zero rights, grants
\* and record in one commit.
ProvisionCustomerAccount(s, q) ==
  \/ Replay(s, 2, "provision", wallets[q.key], q, q.key) /\ UNCHANGED fundsVars
  \/ Conflict(s, 2, wallets[q.key], q) /\ UNCHANGED fundsVars
  \/ /\ Call(s, 2)
     /\ wallets[q.key] = NoRecord
     /\ CreateAccounts({SettlementOf[BookOf[q.key]], q.key})
     /\ EnsureSettlement(BookOf[q.key])
     /\ rights' = [rights EXCEPT ![q.key] = ZeroEscrow(@)]
     /\ grants' = grants \cup PaymentGrants(q) \cup TransferGrants(q)
     /\ wallets' = [wallets EXCEPT ![q.key] = [request |-> q]]
     /\ Answer("provision", q, q.key)
     /\ UNCHANGED <<ledger, funded, sent, outbox>>

\* ProvisionMerchantAccount: the account and its grant, both no-ops when they exist.  The
\* refund principal, which nothing here reads, is left out.
ProvisionMerchantAccount(s, m) ==
  /\ Call(s, 0)
  /\ CreateAccounts({m})
  /\ grants' = grants \cup {<<"payments", m, "MERCHANT">>}
  /\ UNCHANGED <<ledger, settles, wallets, rights, funded, sent, outbox, answers>>

-----------------------------------------------------------------------------
(* Deposits.                                                               *)

\* Fault: the authority of the account is forgotten.
RaiseRegion(row, n) == [row EXCEPT !.available = @ + n, !.version = @ + 1]

\* raiseEscrow: the total and the region's rights go up together.
RaiseEscrow(row, n) ==
  [total |-> row.total + n, available |-> row.available + n, version |-> row.version + 1]

DepositPost(q, ids) ==
  [tx |-> ids[1], effect |-> <<"effect", ids[3]>>, book |-> BookOf[q.account], hash |-> q,
   lines |-> <<Line(FundingOf[BookOf[q.account]], "DEBIT", q.amount),
               Line(q.account, "CREDIT", q.amount)>>]

FundingEvent(q, ids, version) ==
  [id |-> <<"event", ids[4]>>, topic |-> "ledger-funding-events", aggregate |-> q.account,
   version |-> version, parent |-> ids[1]]

\* Accepted when the account exists, the ledger takes the posting and both escrow
\* rows are there; the event carries the new version of the rights.
DepositAllowed(q, post) ==
  /\ q.account \in accounts
  /\ CanPost(ledger, post)
  /\ rights[q.account] # NoRights

Deposit(s, q) ==
  LET ids    == Ids(s, 4)
      post   == DepositPost(q, ids)
      raised == RaiseEscrow(rights[q.account], q.amount)
  IN  \/ Replay(s, 4, "deposit", funded[q.key], q, funded[q.key].tx) /\ UNCHANGED fundsVars
      \/ Conflict(s, 4, funded[q.key], q) /\ UNCHANGED fundsVars
      \/ Refuse(s, 4, funded[q.key], DepositAllowed(q, post)) /\ UNCHANGED fundsVars
      \/ /\ Call(s, 4)
         /\ funded[q.key] = NoRecord
         /\ DepositAllowed(q, post)
         /\ ledger' = PostTo(ledger, post)
         /\ rights' = [rights EXCEPT ![q.account] = raised]
         /\ outbox' = outbox \cup {FundingEvent(q, ids, raised.version)}
         /\ funded' = [funded EXCEPT ![q.key] = [request |-> q, tx |-> post.tx]]
         /\ Answer("deposit", q, post.tx)
         /\ UNCHANGED <<accounts, settles, grants, wallets, sent>>

-----------------------------------------------------------------------------
(* Transfers.                                                              *)

\* Authorize: a capability for the account and the permission.  Revocations, which no
\* service writes, are left out.
Authorized(principal, a, permission) == <<principal, a, permission>> \in grants

\* checkParties and the two authorizations, each in the book of its party.
PartiesAllowed(q) ==
  /\ q.payer # q.payee /\ {q.payer, q.payee} \subseteq accounts
  /\ AssetOf[q.payer] = AssetOf[q.payee]
  /\ Authorized(q.principal, q.payer, "DEBIT")
  /\ Authorized(q.principal, q.payee, "CREDIT")

Leg(q, part, tx, book, debited, credited) ==
  [tx |-> tx, effect |-> <<q.id, part>>, book |-> book, hash |-> q,
   lines |-> <<Line(debited, "DEBIT", q.amount), Line(credited, "CREDIT", q.amount)>>]

\* Fault: the payee is credited as by a deposit.
PayeeLegFunded(q, ids) ==
  LET from == BookOf[q.payer]
      to   == BookOf[q.payee]
  IN  IF from = to THEN <<Leg(q, "single", ids[1], from, q.payer, q.payee)>>
      ELSE <<Leg(q, "payer", ids[1], from, q.payer, SettlementOf[from]),
             Leg(q, "payee", ids[2], to, FundingOf[to], q.payee)>>

\* planLegs: one transaction within a book; across books one in each, balanced by
\* the settlement accounts.
PlanLegs(q, ids) ==
  LET from == BookOf[q.payer]
      to   == BookOf[q.payee]
  IN  IF from = to THEN <<Leg(q, "single", ids[1], from, q.payer, q.payee)>>
      ELSE <<Leg(q, "payer", ids[1], from, q.payer, SettlementOf[from]),
             Leg(q, "payee", ids[2], to, SettlementOf[to], q.payee)>>

\* The legs are posted in the order of their books.
InBookOrder(legs) ==
  IF Len(legs) = 2 /\ legs[2].book < legs[1].book THEN <<legs[2], legs[1]>> ELSE legs

CanPostAll(L, legs) ==
  /\ CanPost(L, legs[1])
  /\ Len(legs) = 2 => CanPost(PostTo(L, legs[1]), legs[2])

PostAll(L, legs) ==
  IF Len(legs) = 2 THEN PostTo(PostTo(L, legs[1]), legs[2]) ELSE PostTo(L, legs[1])

\* apply_transfer_escrow_effect: SPEND.
SpendRights(row, n) ==
  [total |-> row.total - n, available |-> row.available - n, version |-> row.version + 1]

TransferAllowed(q, legs) ==
  /\ PartiesAllowed(q)
  /\ BookOf[q.payer] # BookOf[q.payee] => {BookOf[q.payer], BookOf[q.payee]} \subseteq settles
  /\ CanPostAll(ledger, legs)
  /\ rights[q.payer].available >= q.amount /\ rights[q.payer].total >= q.amount
  /\ rights[q.payee] # NoRights

SettledEvent(q, legs) ==
  [id |-> <<q.id, "settled">>, topic |-> "ledger-transfer-events", aggregate |-> q.id,
   version |-> 1, parent |-> legs[CHOOSE i \in DOMAIN legs : legs[i].effect[2] \in {"payer", "single"}].tx]

Execute(s, q) ==
  LET planned == PlanLegs(q, Ids(s, 2))
      legs    == InBookOrder(planned)
      result  == [payer |-> planned[1].tx, payee |-> planned[Len(planned)].tx]
  IN  \/ Replay(s, 2, "transfer", sent[q.key], q, sent[q.key].result) /\ UNCHANGED fundsVars
      \/ Conflict(s, 2, sent[q.key], q) /\ UNCHANGED fundsVars
      \/ Refuse(s, 2, sent[q.key], TransferAllowed(q, legs)) /\ UNCHANGED fundsVars
      \/ /\ Call(s, 2)
         /\ sent[q.key] = NoRecord
         /\ TransferAllowed(q, legs)
         /\ ledger' = PostAll(ledger, legs)
         /\ sent' = [sent EXCEPT ![q.key] = [request |-> q, result |-> result]]
         /\ rights' = [rights EXCEPT ![q.payer] = SpendRights(@, q.amount),
                                     ![q.payee] = RaiseEscrow(@, q.amount)]
         /\ outbox' = outbox \cup {SettledEvent(q, legs)}
         /\ Answer("transfer", q, result)
         /\ UNCHANGED <<accounts, settles, grants, wallets, funded>>

-----------------------------------------------------------------------------
FundsNext ==
  \E s \in Servers :
    \/ \E q \in Provisions : ProvisionCustomerAccount(s, q)
    \/ \E m \in Merchants : ProvisionMerchantAccount(s, m)
    \/ \E q \in Deposits : Deposit(s, q)
    \/ \E q \in Transfers : Execute(s, q)
    \/ GeneratorFault(s) /\ UNCHANGED fundsVars

-----------------------------------------------------------------------------
(* Properties.                                                             *)

\* The requests the transaction was posted for.
PostedFor(tx) == {r.hash : r \in {t \in ledger.journal : t.tx = tx}}

\* The identifiers in an answer.
Told(x) ==
  CASE x.op = "provision" -> {}
    [] x.op = "transfer" -> {x.result.payer, x.result.payee}
    [] OTHER -> {x.result}

\* Money that leaves a book arrives in another: the settlement accounts of all
\* books, which cross-book transfers go through, add up to nothing, by asset
\* (interbook_settlement_residual).
SettlementNets ==
  \A b \in settles :
    LET peers == {c \in settles : AssetOf[SettlementOf[c]] = AssetOf[SettlementOf[b]]}
    IN  MapThenSumSet(LAMBDA c : ledger.balances[SettlementOf[c]].current, peers) = 0

\* The right to spend and the money are one: in every order of deposits and
\* transfers the authority of a wallet, the rights of its region and its balance
\* are the same number, and no account without a wallet has rights.
RightsMatchBalances ==
  \A a \in DOMAIN rights :
    IF a \in Customers /\ wallets[a] # NoRecord
    THEN /\ rights[a].total = ledger.balances[a].current
         /\ rights[a].available = ledger.balances[a].current
    ELSE rights[a] = NoRights /\ ledger.balances[a].current = 0

\* A key means one request and one movement of money, however often and by
\* whichever server it is called: callers under one key are told the same, what
\* they are told is posted for their request, and nothing else is.
AnsweredOnce ==
  /\ \A x, y \in answers : x.op = y.op /\ x.request.key = y.request.key => x = y
  /\ \A x \in answers : \A tx \in Told(x) : PostedFor(tx) = {x.request}
  /\ \A r \in ledger.journal :
       r.hash \in Deposits \cup Transfers => \E x \in answers : x.request = r.hash

\* No identifier is handed out twice: the blocks the servers hold are apart,
\* below the issuer's counter and free of everything that is in use, and only
\* reserved counters are in use, across restarts and lost reservations.
NoIdTwice ==
  LET Held(s) == (cache[s].next .. cache[s].end) \ {0}
      used    == UNION {Told(x) : x \in answers}
  IN  /\ used \subseteq 1 .. (issuer - 1)
      /\ \A s \in Servers :
           /\ Held(s) \subseteq (1 .. (issuer - 1)) \ used
           /\ \A t \in Servers \ {s} : Held(s) \cap Held(t) = {}
=============================================================================
