---------------------------- MODULE CashbackRepair ----------------------------
(***************************************************************************)
(* The incident of the duplicated cashback: captures grant cashback, a bad *)
(* deployment grants it again, reconciliation reports it, and the repair   *)
(* job plans and posts exact inverses (internal/repair).  Two incidents    *)
(* may claim the same grant, and the customer may spend it first.          *)
(*                                                                         *)
(* The captures are of one payment.  A transaction is named for what it    *)
(* does, and a manifest by the facts its identifier is the digest of.      *)
(***************************************************************************)
EXTENDS Reconciliation

CONSTANTS
  Captures,
  Expected,        \* Expected[c]: the cashback of capture c
  RuleOf,          \* RuleOf[c]: the rule version that capture c is posted under
  Rule,            \* the ceiling of the payment's cashback
  Excesses,        \* amounts the bad deployment grants
  Incidents,       \* window of sequence numbers and rule version
  RunIds,
  Wallet,          \* accounts
  Expense,
  Merchant,
  MaxGrants,
  MaxSpends

VARIABLES
  captures,    \* payment_capture_financials: expected and reversed cashback
  payment,     \* payment_operations: cashback and reversed cashback
  effects,     \* payment_effects CASHBACK and REVERSAL
  escrow,      \* total authority and regional rights of the wallet
  manifests,   \* cashback_repair_manifests
  reports,     \* reconciliation_runs
  spent        \* history

repairVars == <<captures, payment, effects, escrow, manifests, reports, spent>>

NotCaptured == [expected |-> -1, reversed |-> 0]

CaptureRows == {c \in Captures : captures[c] # NotCaptured}

InitRepair ==
  /\ captures = [c \in Captures |-> NotCaptured]
  /\ payment = [cashback |-> 0, reversed |-> 0]
  /\ effects = {}
  /\ escrow = [total |-> 0, available |-> 0]
  /\ manifests = {}
  /\ reports = [r \in RunIds |-> NoRecord]
  /\ spent = <<>>

-----------------------------------------------------------------------------
(* The payment path and the bad deployment.                                *)

Grant(tx, rule, n) ==
  [tx |-> tx, effect |-> tx, book |-> BookOf[Wallet], hash |-> [rule |-> rule],
   lines |-> <<Line(Expense, "DEBIT", n), Line(Wallet, "CREDIT", n)>>]

Effect(kind, tx, original, n) == [kind |-> kind, tx |-> tx, original |-> original, amount |-> n]

RaiseAuthority(n) == escrow' = [total |-> escrow.total + n, available |-> escrow.available + n]

\* A grant for capture c, the first with the capture itself.
PostGrant(tx, rule, c, n) ==
  /\ CanPost(ledger, Grant(tx, rule, n))
  /\ ledger' = PostTo(ledger, Grant(tx, rule, n))
  /\ effects' = effects \cup {Effect("CASHBACK", tx, c, n)}
  /\ RaiseAuthority(n)
  /\ UNCHANGED <<outbox, answers, calls, faults, issuer, cache, manifests, reports, spent>>

CaptureCashback(c) ==
  /\ captures[c] = NotCaptured
  /\ payment.cashback + Expected[c] <= Rule
  /\ PostGrant(<<c, 0>>, RuleOf[c], c, Expected[c])
  /\ captures' = [captures EXCEPT ![c] = [expected |-> Expected[c], reversed |-> 0]]
  /\ payment' = [payment EXCEPT !.cashback = @ + Expected[c]]

\* The bad deployment appends a grant and advances no counter.
DuplicateGrant(c, n) ==
  LET k == Cardinality({e \in effects : e.kind = "CASHBACK"})
  IN  /\ captures[c] # NotCaptured
      /\ k < Cardinality(CaptureRows) + MaxGrants
      /\ PostGrant(<<c, k>>, "buggy", c, n)
      /\ UNCHANGED <<captures, payment>>

Purchase(n) ==
  [tx |-> <<"spend", Len(spent)>>, effect |-> <<"spend", Len(spent)>>, book |-> BookOf[Wallet],
   hash |-> [rule |-> "payment"],
   lines |-> <<Line(Wallet, "DEBIT", n), Line(Merchant, "CREDIT", n)>>]

\* The customer spends from the wallet.
Spend(n) ==
  /\ Len(spent) < MaxSpends
  /\ escrow.available >= n
  /\ CanPost(ledger, Purchase(n))
  /\ ledger' = PostTo(ledger, Purchase(n))
  /\ escrow' = [total |-> escrow.total - n, available |-> escrow.available - n]
  /\ spent' = Append(spent, n)
  /\ UNCHANGED <<outbox, answers, calls, faults, issuer, cache>>
  /\ UNCHANGED <<captures, payment, effects, manifests, reports>>

-----------------------------------------------------------------------------
(* Plan.                                                                   *)

Amount(S) == MapThenSumSet(LAMBDA e : e.amount, S)

Grants(c) == {e \in effects : e.kind = "CASHBACK" /\ e.original = c}

Reversals(tx) == {e \in effects : e.kind = "REVERSAL" /\ e.original = tx}

ReversalsOf(c) == UNION {Reversals(g.tx) : g \in Grants(c)}

netCashbackForCapture(c) == Amount(Grants(c)) - Amount(ReversalsOf(c))

RowOf(tx) == CHOOSE r \in ledger.journal : r.tx = tx

\* Grants of the incident: in its window, posted under its rule.
Affected(i, c) ==
  {g \in Grants(c) : /\ RowOf(g.tx).seq \in i.first .. i.last
                     /\ RowOf(g.tx).hash.rule = i.rule}

Candidates(i) == {c \in Captures : Affected(i, c) # {}}

Exceeds(c) == netCashbackForCapture(c) > captures[c].expected

Unreversed(i, c) == {g \in Affected(i, c) : Reversals(g.tx) = {}}

Last(S) == CHOOSE g \in S : \A h \in S : RowOf(h.tx).seq <= RowOf(g.tx).seq

\* One grant of exactly the excess, or the whole plan is refused.
Repairable(i, c) ==
  /\ Unreversed(i, c) # {}
  /\ Last(Unreversed(i, c)).amount = netCashbackForCapture(c) - captures[c].expected

\* planCapture: the manifest, with the facts that make up its identifier.
planCapture(i, c) ==
  [incident |-> i, capture |-> c, original |-> Last(Unreversed(i, c)).tx,
   expected |-> captures[c].expected, actual |-> netCashbackForCapture(c)]

\* Manifests are inserted once; one that is there keeps its status.
Plan(i) ==
  LET excessive == {c \in Candidates(i) : Exceeds(c)}
      planned   == {planCapture(i, c) : c \in excessive}
      known     == {m.facts : m \in manifests}
  IN  /\ \A c \in excessive : Repairable(i, c)
      /\ planned \ known # {}
      /\ manifests' = manifests \cup {[facts |-> f, status |-> "PLANNED"] : f \in planned \ known}
      /\ UNCHANGED <<callVars, captures, payment, effects, escrow, reports, spent>>

-----------------------------------------------------------------------------
(* Execute.                                                                *)

inverseTransactionLines(tx) ==
  [k \in DOMAIN RowOf(tx).lines |->
     [RowOf(tx).lines[k] EXCEPT !.side = IF @ = "DEBIT" THEN "CREDIT" ELSE "DEBIT"]]

Correction(f) ==
  [tx |-> <<"correction", f>>, effect |-> <<"correction-effect", f>>, book |-> BookOf[Wallet],
   hash |-> [rule |-> "cashback-repair-v1"], lines |-> inverseTransactionLines(f.original)]

\* Fault: the planned net amount is not compared again.
PlanTrusted(f) == captures[f.capture].expected = f.expected

\* The payment row is locked and the net amount must still be the planned one.
PlanStillTrue(f) ==
  /\ netCashbackForCapture(f.capture) = f.actual
  /\ captures[f.capture].expected = f.expected

\* Inverse posting, REVERSAL effect, spent rights and both counters in one commit;
\* a manifest that is POSTED is answered with its receipt.
ExecuteRepair(m) ==
  LET f      == m.facts
      excess == f.actual - f.expected
  IN  /\ m.status = "PLANNED"
      /\ PlanStillTrue(f)
      /\ CanPost(ledger, Correction(f))
      /\ escrow.available >= excess /\ escrow.total >= excess
      /\ ledger' = PostTo(ledger, Correction(f))
      /\ effects' = effects \cup {Effect("REVERSAL", Correction(f).tx, f.original, excess)}
      /\ escrow' = [total |-> escrow.total - excess, available |-> escrow.available - excess]
      /\ captures' = [captures EXCEPT ![f.capture].reversed = @ + excess]
      /\ payment' = [payment EXCEPT !.reversed = @ + excess]
      /\ manifests' = (manifests \ {m}) \cup {[m EXCEPT !.status = "POSTED"]}
      /\ UNCHANGED <<outbox, answers, calls, faults, issuer, cache, reports, spent>>

-----------------------------------------------------------------------------
(* Reconciliation of the payment.                                          *)

SumOf(field) == MapThenSumSet(LAMBDA c : captures[c][field], CaptureRows)

Gross == Amount({e \in effects : e.kind = "CASHBACK"})

Reversed == Amount(UNION {ReversalsOf(c) : c \in CaptureRows})

cashbackAggregateMismatch ==
  \/ payment.cashback # SumOf("expected")
  \/ payment.reversed # SumOf("reversed")
  \/ payment.reversed # Reversed
  \/ Gross - Reversed # SumOf("expected")

\* checkPaymentCaptureFinancials, for cashback: capture by capture, so that one
\* capture's excess cannot hide behind another's.
captureMismatch(c) ==
  \/ captures[c].reversed # Amount(ReversalsOf(c))
  \/ netCashbackForCapture(c) # captures[c].expected

unlinkedReversal(e) ==
  e.kind = "REVERSAL" /\ Cardinality({g \in effects : g.kind = "CASHBACK" /\ g.tx = e.original}) # 1

withoutProof(e) == \A r \in ledger.journal : r.tx # e.tx

cashbackRuleExceeded == Gross - Reversed > Rule

paymentFindings ==
  {Finding("PAYMENT_AGGREGATE_MISMATCH", x) : x \in {y \in {"payment"} : cashbackAggregateMismatch}}
    \cup {Finding("PAYMENT_CAPTURE_MISMATCH", c) : c \in {d \in CaptureRows : captureMismatch(d)}}
    \cup {Finding("PAYMENT_CAPTURE_MISMATCH", e.tx) : e \in {d \in effects : unlinkedReversal(d)}}
    \cup {Finding("PAYMENT_EFFECT_WITHOUT_PROOF", e.tx) : e \in {d \in effects : withoutProof(d)}}
    \cup {Finding("CASHBACK_RULE_EXCEEDED", x) : x \in {y \in {"payment"} : cashbackRuleExceeded}}

Findings ==
  ledgerFindings \cup checkEscrow([a \in {Wallet} |-> escrow]) \cup paymentFindings

\* Run: one snapshot, stored under its identifier; a retry finds the report.
Reconcile(r) ==
  /\ reports[r] = NoRecord
  /\ reports' = [reports EXCEPT ![r] = [status |-> Status(Findings), watermarks |-> Watermarks]]
  /\ UNCHANGED <<callVars, captures, payment, effects, escrow, manifests, spent>>

RepairNext ==
  \/ \E c \in Captures : CaptureCashback(c)
  \/ \E c \in Captures, n \in Excesses : DuplicateGrant(c, n)
  \/ \E n \in Excesses : Spend(n)
  \/ \E i \in Incidents : Plan(i)
  \/ \E m \in manifests : ExecuteRepair(m)
  \/ \E r \in RunIds : Reconcile(r)

-----------------------------------------------------------------------------
(* Properties.                                                             *)

\* Repair takes back the excess and no more: whatever incidents were planned when
\* and executed in which order, and whatever was spent, no capture ends below its
\* cashback, the customer's rights stay equal to the money in the wallet, and
\* reconciliation finds nothing in the payment exactly when every capture stands at
\* its cashback.  A report that passed holds as long as its watermarks are current.
RepairIsExact ==
  /\ \A c \in CaptureRows : netCashbackForCapture(c) >= captures[c].expected
  /\ ledger.balances[Wallet].current = escrow.total
  /\ ledger.balances[Wallet].current + MapThenSumSet(LAMBDA k : spent[k], DOMAIN spent)
       = Gross - Reversed
  /\ paymentFindings = {} <=> \A c \in CaptureRows : netCashbackForCapture(c) = captures[c].expected
  /\ \A r \in RunIds : reports[r] = [status |-> "PASSED", watermarks |-> Watermarks] => Safe(Findings)
=============================================================================
