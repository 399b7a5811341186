------------------------------ MODULE Payment ------------------------------
(***************************************************************************)
(* The payment lifecycle: internal/payment (Hold, Capture, Release,        *)
(* Reversal, Refund, Chargeback) together with the database functions its  *)
(* transactions call: finalize_payment_ledger_transaction,                 *)
(* record_payment_effect, the row triggers and apply_payment_escrow_effect.*)
(*                                                                         *)
(* Every operation is one SERIALIZABLE transaction (store.RunSerializable),*)
(* so every operation is one action.  Retries, replies that are lost and   *)
(* idempotency keys are the subject of module IdempotentExecution.         *)
(*                                                                         *)
(* One customer (available and held account), one merchant, one asset, one *)
(* book.  A posting is its net effect per account: credits minus debits.   *)
(***************************************************************************)
EXTENDS Integers, Sequences, FiniteSetsExt

CONSTANTS
  Payments,       \* payment identifiers the durable generator may hand out
  Captures,       \* identifiers of capture transactions
  Regions,        \* regions that hold spending rights of the customer
  Amounts,        \* amounts a request may name
  Charges,        \* fee, tax and cashback amounts a request may name
  Funded          \* Funded[r]: rights of region r when the run starts

ASSUME AmountsAssumption  == Amounts \subseteq Nat \ {0}
ASSUME ChargesAssumption  == Charges \subseteq Nat
ASSUME FundedAssumption   == Funded \in [Regions -> Nat]

\* Tables are finite, and the words that stand for no reference are no identifiers.
ASSUME FiniteAssumption   == IsFiniteSet(Payments) /\ IsFiniteSet(Captures) /\ IsFiniteSet(Regions)
ASSUME NamesAssumption    == /\ "none" \notin Payments
                             /\ {"none", "authorization"} \cap Captures = {}

\* What the customer's account was funded with, spread over the regions.
Funds == SumFunctionOnSet(Funded, Regions)

ASSUME FundsAssumption == Funds \in Nat

VARIABLES
  pay,      \* payment_operations joined with holds, one row per payment
  cap,      \* payment_capture_financials, one row per capture transaction
  facts,    \* payment_effects: the immutable facts of each payment
  bal,      \* account_balances.current_balance_atoms, credit minus debit
  rights,   \* escrow_regional_rights.available of the customer
  total     \* escrow_authorities.total_authority of the customer

vars == <<pay, cap, facts, bal, rights, total>>

Accounts == {"available", "held", "merchant", "reserve", "fee", "tax",
             "cashback", "funding"}

\* Accounts provisioned with enforce_spend_limit and no credit line.
SpendLimited == {"available", "held"}

\* Accounts a refund or chargeback may debit: the merchant's own, or one the
\* caller holds a capability for.
ReturnAccounts == {"merchant", "reserve"}

States == {"CREATED", "AUTHORIZED", "HELD", "PARTIALLY_CAPTURED", "CAPTURED",
           "SETTLED", "PARTIALLY_REFUNDED", "REFUNDED", "REVERSED", "DISPUTED",
           "CHARGED_BACK", "FAILED", "UNKNOWN"}

HoldStates == {"ACTIVE", "PARTIALLY_CAPTURED", "CAPTURED", "RELEASED"}

Kinds == {"HOLD", "CAPTURE", "FEE", "TAX", "CASHBACK", "RELEASE", "REVERSAL",
          "REFUND", "CHARGEBACK"}

NoRow == [state |-> "ABSENT", region |-> "none", authorized |-> 0,
          captured |-> 0, released |-> 0, refunded |-> 0, chargedBack |-> 0,
          fee |-> 0, tax |-> 0, cashback |-> 0, rule |-> 0, version |-> 0,
          holdState |-> "ABSENT", holdCaptured |-> 0, holdReleased |-> 0]

NoCapture == [payment |-> "none", captured |-> 0, cashback |-> 0,
              refunded |-> 0, chargedBack |-> 0]

-----------------------------------------------------------------------------
(* The ledger side of a transaction.                                       *)

\* The two-line posting that debits one account and credits another.
Move(from, to, n) ==
  [a \in Accounts |-> IF a = from THEN -n ELSE IF a = to THEN n ELSE 0]

\* A journal whose debits and credits differ is refused, and so is one that
\* leaves a spend-limited account it touches below zero.
Balanced(net) == SumFunctionOnSet(net, Accounts) = 0

\* Fault: the debit of an account without a limit is not applied.
PostCreditsOnly(b, net) ==
  [a \in Accounts |-> IF a \in SpendLimited \/ net[a] > 0 THEN b[a] + net[a] ELSE b[a]]

PostLines(b, net) == [a \in Accounts |-> b[a] + net[a]]

WithinLimits(b, net) ==
  \A a \in SpendLimited : net[a] # 0 => PostLines(b, net)[a] >= 0

Postable(b, net) == Balanced(net) /\ WithinLimits(b, net)

-----------------------------------------------------------------------------
(* The lifecycle rules of payment/state.go and of the update triggers.     *)

Transitions(s) ==
  CASE s = "CREATED" -> {"AUTHORIZED", "HELD", "FAILED", "UNKNOWN"}
    [] s = "AUTHORIZED" -> {"HELD", "CAPTURED", "REVERSED", "FAILED", "UNKNOWN"}
    [] s = "HELD" -> {"PARTIALLY_CAPTURED", "CAPTURED", "REVERSED", "UNKNOWN"}
    [] s = "PARTIALLY_CAPTURED" -> {"CAPTURED", "REVERSED", "UNKNOWN"}
    [] s = "CAPTURED" -> {"SETTLED", "PARTIALLY_REFUNDED", "REFUNDED",
                          "DISPUTED", "CHARGED_BACK", "UNKNOWN"}
    [] s = "SETTLED" -> {"PARTIALLY_REFUNDED", "REFUNDED", "DISPUTED",
                         "CHARGED_BACK"}
    [] s = "PARTIALLY_REFUNDED" -> {"REFUNDED", "DISPUTED", "CHARGED_BACK"}
    [] s = "DISPUTED" -> {"CHARGED_BACK", "SETTLED", "PARTIALLY_REFUNDED",
                          "REFUNDED"}
    [] s = "UNKNOWN" -> {"AUTHORIZED", "HELD", "CAPTURED", "SETTLED", "FAILED",
                         "REVERSED"}
    [] OTHER -> {}

CanTransition(from, to) == from = to \/ to \in Transitions(from)

\* Fault: what was released is not counted as used.
captureStateIgnoringReleased(authorized, captured, released) ==
  IF captured = authorized /\ captured > 0 THEN "CAPTURED" ELSE "PARTIALLY_CAPTURED"

captureState(authorized, captured, released) ==
  IF captured + released = authorized /\ captured > 0
  THEN "CAPTURED" ELSE "PARTIALLY_CAPTURED"

refundState(captured, refunded, chargedBack) ==
  IF refunded + chargedBack # captured THEN "PARTIALLY_REFUNDED"
  ELSE IF chargedBack > 0 /\ refunded = 0 THEN "CHARGED_BACK" ELSE "REFUNDED"

\* Fault: what was captured is not counted as used.
releaseStateForgettingCapture(authorized, captured, released) ==
  IF released = authorized THEN "REVERSED" ELSE "HELD"

\* release: a hold that still has funds stays open, one without any closes.
releaseState(authorized, captured, released) ==
  IF captured + released = authorized
  THEN IF captured = 0 THEN "REVERSED" ELSE "CAPTURED"
  ELSE IF captured > 0 THEN "PARTIALLY_CAPTURED" ELSE "HELD"

\* The holds row follows the payment row while the hold is open.
holdState(s) ==
  CASE s = "HELD" -> "ACTIVE"
    [] s = "REVERSED" -> "RELEASED"
    [] OTHER -> s

\* validate_payment_update, validate_hold_update and the CHECKs of the table.
RowUpdateAccepted(old, new) ==
  /\ CanTransition(old.state, new.state)
  /\ new.authorized = old.authorized /\ new.rule = old.rule
  /\ new.region = old.region
  /\ new.captured >= old.captured /\ new.released >= old.released
  /\ new.refunded >= old.refunded /\ new.chargedBack >= old.chargedBack
  /\ new.fee >= old.fee /\ new.tax >= old.tax /\ new.cashback >= old.cashback
  /\ new.version = old.version + 1
  /\ new.captured + new.released <= new.authorized
  /\ new.refunded + new.chargedBack <= new.captured
  /\ new.fee + new.tax <= new.captured
  /\ new.cashback <= new.rule

HoldUpdateAccepted(old, new) ==
  /\ old.holdState \notin {"CAPTURED", "RELEASED"}
  /\ new.holdCaptured >= old.holdCaptured
  /\ new.holdReleased >= old.holdReleased

-----------------------------------------------------------------------------
(* record_payment_effect: the database recomputes the lifecycle projection *)
(* from the immutable facts before it records one more.                    *)

Fact(kind, ref, n) == [kind |-> kind, ref |-> ref, amount |-> n]

\* Fault: the TAX fact of a capture is not written.
FactExceptTax(kind, ref, n) == IF n > 0 /\ kind # "TAX" THEN <<Fact(kind, ref, n)>> ELSE <<>>

\* The facts a request adds; a charge of zero adds none.
FactIf(kind, ref, n) == IF n > 0 THEN <<Fact(kind, ref, n)>> ELSE <<>>

Matching(fs, kinds, refs) == {i \in DOMAIN fs : fs[i].kind \in kinds /\ fs[i].ref \in refs}

FactSum(p, kinds, refs) ==
  SumFunctionOnSet([i \in DOMAIN facts[p] |-> facts[p][i].amount],
                   Matching(facts[p], kinds, refs))

CapturesOf(table, p) == {c \in Captures : table[c].payment = p}

CapSum(table, p, field) ==
  SumFunctionOnSet([c \in Captures |-> table[c][field]], CapturesOf(table, p))

HoldRecordable(row, n) ==
  row.authorized = n /\ row.captured = 0 /\ row.released = 0

CaptureRecordable(p, row, n, k, net) ==
  LET newFee == row.fee - FactSum(p, {"FEE"}, Captures)
      newTax == row.tax - FactSum(p, {"TAX"}, Captures)
  IN  /\ row.captured = FactSum(p, {"CAPTURE"}, {"authorization"}) + n
      /\ row.holdCaptured = row.captured
      /\ row.cashback = CapSum(cap, p, "cashback") + k
      /\ net["held"] = -n
      /\ net["merchant"] = n - newFee - newTax
      /\ net["fee"] = newFee
      /\ net["tax"] = newTax

ReleaseRecordable(p, row, n) ==
  /\ row.released = FactSum(p, {"RELEASE", "REVERSAL"}, {"authorization"}) + n
  /\ row.holdReleased = row.released

ReturnRecordable(p, row, table, c, kind, n) ==
  /\ (IF kind = "REFUND" THEN table[c].refunded ELSE table[c].chargedBack)
       = FactSum(p, {kind}, {c}) + n
  /\ row.refunded = CapSum(table, p, "refunded")
  /\ row.chargedBack = CapSum(table, p, "chargedBack")

-----------------------------------------------------------------------------
Init ==
  /\ pay = [p \in Payments |-> NoRow]
  /\ cap = [c \in Captures |-> NoCapture]
  /\ facts = [p \in Payments |-> <<>>]
  /\ bal = Move("funding", "available", Funds)
  /\ rights = Funded
  /\ total = Funds

\* apply_payment_escrow_effect, SPEND and RETURN.
SpendRights(r, n) ==
  /\ rights[r] >= n
  /\ total >= n
  /\ rights' = [rights EXCEPT ![r] = @ - n]
  /\ total' = total - n

\* Fault: another region is credited.
ReturnRightsElsewhere(r, n) ==
  /\ rights' = [rights EXCEPT ![CHOOSE s \in Regions : s # r] = @ + n]
  /\ total' = total + n

ReturnRights(r, n) ==
  /\ rights' = [rights EXCEPT ![r] = @ + n]
  /\ total' = total + n

-----------------------------------------------------------------------------
HoldRow(r, n, m) ==
  [NoRow EXCEPT !.state = "HELD", !.holdState = "ACTIVE", !.region = r,
                !.authorized = n, !.rule = m]

Hold(p, r, n, m) ==
  LET net == Move("available", "held", n)
      row == HoldRow(r, n, m)
  IN  /\ pay[p] = NoRow
      /\ Postable(bal, net)
      /\ HoldRecordable(row, n)
      /\ pay' = [pay EXCEPT ![p] = row]
      /\ facts' = [facts EXCEPT ![p] = <<Fact("HOLD", "none", n)>>]
      /\ bal' = PostLines(bal, net)
      /\ SpendRights(r, n)
      /\ UNCHANGED cap

\* What Capture itself checks before it touches the database.
CaptureAllowed(p, n, f, t, k) ==
  /\ f + t <= n
  /\ pay[p].state \in {"HELD", "PARTIALLY_CAPTURED"}
  /\ pay[p].captured + n + pay[p].released <= pay[p].authorized
  /\ pay[p].cashback + k <= pay[p].rule

CaptureRow(p, n, f, t, k) ==
  LET s == captureState(pay[p].authorized, pay[p].captured + n, pay[p].released)
  IN  [pay[p] EXCEPT !.state = s, !.captured = @ + n, !.fee = @ + f,
                     !.tax = @ + t, !.cashback = @ + k, !.version = @ + 1,
                     !.holdState = holdState(s), !.holdCaptured = pay[p].captured + n]

CaptureLines(n, f, t) ==
  [a \in Accounts |-> CASE a = "held" -> -n
                        [] a = "merchant" -> n - f - t
                        [] a = "fee" -> f
                        [] a = "tax" -> t
                        [] OTHER -> 0]

CaptureAccepted(p, n, f, t, k) ==
  LET row == CaptureRow(p, n, f, t, k)
      net == CaptureLines(n, f, t)
  IN  /\ HoldUpdateAccepted(pay[p], row)
      /\ RowUpdateAccepted(pay[p], row)
      /\ Postable(bal, net)
      /\ CaptureRecordable(p, row, n, k, net)
      /\ Postable(PostLines(bal, net), Move("cashback", "available", k))

Capture(p, c, n, f, t, k) ==
  /\ cap[c] = NoCapture
  /\ CaptureAllowed(p, n, f, t, k)
  /\ CaptureAccepted(p, n, f, t, k)
  /\ pay' = [pay EXCEPT ![p] = CaptureRow(p, n, f, t, k)]
  /\ cap' = [cap EXCEPT ![c] = [NoCapture EXCEPT !.payment = p, !.captured = n,
                                                 !.cashback = k]]
  /\ facts' = [facts EXCEPT ![p] = @ \o <<Fact("CAPTURE", "authorization", n)>>
                                     \o FactIf("FEE", c, f) \o FactIf("TAX", c, t)
                                     \o FactIf("CASHBACK", c, k)]
  /\ bal' = PostLines(PostLines(bal, CaptureLines(n, f, t)),
                      Move("cashback", "available", k))
  /\ ReturnRights(pay[p].region, k)

-----------------------------------------------------------------------------
ReleaseAllowed(p, kind, n) ==
  LET used == pay[p].captured + pay[p].released + n
  IN  /\ pay[p].state \in {"HELD", "PARTIALLY_CAPTURED"}
      /\ kind = "REVERSAL" => pay[p].captured = 0 /\ used = pay[p].authorized
      /\ used <= pay[p].authorized

ReleaseRow(p, n) ==
  LET s == releaseState(pay[p].authorized, pay[p].captured, pay[p].released + n)
  IN  [pay[p] EXCEPT !.state = s, !.released = @ + n, !.version = @ + 1,
                     !.holdState = holdState(s), !.holdReleased = pay[p].released + n]

ReleaseAccepted(p, n) ==
  /\ Postable(bal, Move("held", "available", n))
  /\ HoldUpdateAccepted(pay[p], ReleaseRow(p, n))
  /\ RowUpdateAccepted(pay[p], ReleaseRow(p, n))
  /\ ReleaseRecordable(p, ReleaseRow(p, n), n)

\* Release and Reversal share one body; kind tells them apart.
Release(p, kind, n) ==
  /\ ReleaseAllowed(p, kind, n)
  /\ ReleaseAccepted(p, n)
  /\ pay' = [pay EXCEPT ![p] = ReleaseRow(p, n)]
  /\ facts' = [facts EXCEPT ![p] = Append(@, Fact(kind, "authorization", n))]
  /\ bal' = PostLines(bal, Move("held", "available", n))
  /\ ReturnRights(pay[p].region, n)
  /\ UNCHANGED cap

-----------------------------------------------------------------------------
\* Fault: the update of the capture row is not conditional.
ReturnOfPayment(p, c, n) == cap[c].payment = p

\* advanceCaptureReturn: the conditional update of one capture row.
ReturnWithinCapture(p, c, n) ==
  /\ cap[c].payment = p
  /\ cap[c].refunded + cap[c].chargedBack + n <= cap[c].captured

AdvancedCaptures(c, kind, n) ==
  IF kind = "REFUND" THEN [cap EXCEPT ![c].refunded = @ + n]
                     ELSE [cap EXCEPT ![c].chargedBack = @ + n]

\* The payment row takes the fold over all its captures.
ReturnRow(p, c, kind, n) ==
  LET table == AdvancedCaptures(c, kind, n)
      refunded == CapSum(table, p, "refunded")
      chargedBack == CapSum(table, p, "chargedBack")
  IN  [pay[p] EXCEPT !.refunded = refunded, !.chargedBack = chargedBack,
                     !.state = refundState(pay[p].captured, refunded, chargedBack),
                     !.version = @ + 1]

ReturnAllowed(p, c, kind, n) ==
  /\ pay[p].state \in {"CAPTURED", "SETTLED", "PARTIALLY_REFUNDED", "DISPUTED"}
  /\ ReturnWithinCapture(p, c, n)
  /\ LET row == ReturnRow(p, c, kind, n)
     IN  /\ row.refunded \in Int /\ row.chargedBack \in Int
         /\ row.refunded + row.chargedBack <= pay[p].captured

ReturnAccepted(p, c, kind, n, debit) ==
  /\ RowUpdateAccepted(pay[p], ReturnRow(p, c, kind, n))
  /\ Postable(bal, Move(debit, "available", n))
  /\ ReturnRecordable(p, ReturnRow(p, c, kind, n), AdvancedCaptures(c, kind, n),
                      c, kind, n)

\* Refund and Chargeback differ in the counter, the fact and the account debited.
Return(p, c, kind, n, debit) ==
  /\ ReturnAllowed(p, c, kind, n)
  /\ ReturnAccepted(p, c, kind, n, debit)
  /\ cap' = AdvancedCaptures(c, kind, n)
  /\ pay' = [pay EXCEPT ![p] = ReturnRow(p, c, kind, n)]
  /\ facts' = [facts EXCEPT ![p] = Append(@, Fact(kind, c, n))]
  /\ bal' = PostLines(bal, Move(debit, "available", n))
  /\ ReturnRights(pay[p].region, n)

-----------------------------------------------------------------------------
HoldAny == \E p \in Payments, r \in Regions, n \in Amounts, m \in Charges :
             Hold(p, r, n, m)

CaptureAny == \E p \in Payments, c \in Captures, n \in Amounts :
                \E f \in Charges, t \in Charges, k \in Charges :
                  Capture(p, c, n, f, t, k)

ReleaseAny == \E p \in Payments, n \in Amounts : Release(p, "RELEASE", n)

ReversalAny == \E p \in Payments, n \in Amounts : Release(p, "REVERSAL", n)

RefundAny == \E p \in Payments, c \in Captures, n \in Amounts, d \in ReturnAccounts :
               Return(p, c, "REFUND", n, d)

ChargebackAny == \E p \in Payments, c \in Captures, n \in Amounts, d \in ReturnAccounts :
                   Return(p, c, "CHARGEBACK", n, d)

Next == HoldAny \/ CaptureAny \/ ReleaseAny \/ ReversalAny \/ RefundAny \/ ChargebackAny

Spec == Init /\ [][Next]_vars

-----------------------------------------------------------------------------
PaymentRow ==
  [state : States \cup {"ABSENT"}, region : Regions \cup {"none"},
   authorized : Nat, captured : Nat, released : Nat, refunded : Nat,
   chargedBack : Nat, fee : Nat, tax : Nat, cashback : Nat, rule : Nat,
   version : Nat, holdState : HoldStates \cup {"ABSENT"}, holdCaptured : Nat,
   holdReleased : Nat]

CaptureRecord ==
  [payment : Payments \cup {"none"}, captured : Nat, cashback : Nat,
   refunded : Nat, chargedBack : Nat]

FactRecord ==
  [kind : Kinds, ref : Captures \cup {"none", "authorization"}, amount : Nat]

\* Every row has its columns' types, and no balance column leaves the integers.
TypeOK ==
  /\ pay \in [Payments -> PaymentRow]
  /\ \A p \in Payments : pay[p].state # "ABSENT" => pay[p].region \in Regions
  /\ cap \in [Captures -> CaptureRecord]
  /\ facts \in [Payments -> Seq(FactRecord)]
  /\ bal \in [Accounts -> Int]
  /\ rights \in [Regions -> Nat]
  /\ total \in Nat

\* The counters of one payment stay within each other's bounds: what is used of
\* a hold within what was authorized, what is returned within what was captured,
\* fee and tax within the captured principal and cashback within its rule; and
\* the holds row carries the same counters as the payment row.
CountersBounded ==
  \A p \in Payments :
    /\ pay[p].captured + pay[p].released <= pay[p].authorized
    /\ pay[p].refunded + pay[p].chargedBack <= pay[p].captured
    /\ pay[p].fee + pay[p].tax <= pay[p].captured
    /\ pay[p].cashback <= pay[p].rule
    /\ pay[p].holdCaptured = pay[p].captured
    /\ pay[p].holdReleased = pay[p].released

\* The states the payment service ever stores.
StoredStates == {"ABSENT", "HELD", "PARTIALLY_CAPTURED", "CAPTURED", "REVERSED",
                 "PARTIALLY_REFUNDED", "REFUNDED", "CHARGED_BACK"}

\* The state column always says what the counters say, although Capture, release
\* and Refund each derive it separately (captureState, the branches of release,
\* refundState) and none of them reads what the others stored.
StateMatchesCounters ==
  \A p \in Payments :
    LET row == pay[p]
        open == row.captured + row.released < row.authorized
        returned == row.refunded + row.chargedBack
    IN  /\ row.state \in StoredStates
        /\ row.state = "HELD" => open /\ row.captured = 0
        /\ row.state = "PARTIALLY_CAPTURED" => open /\ row.captured > 0 /\ returned = 0
        /\ row.state = "REVERSED" => ~open /\ row.captured = 0
        /\ row.state = "CAPTURED" => ~open /\ row.captured > 0 /\ returned = 0
        /\ row.state = "PARTIALLY_REFUNDED" => ~open /\ returned < row.captured
        /\ row.state = "REFUNDED" => ~open /\ returned = row.captured /\ row.refunded > 0
        /\ row.state = "CHARGED_BACK" => ~open /\ row.chargedBack = row.captured /\ row.captured > 0
        /\ row.holdState = holdState(
             IF row.state \in {"PARTIALLY_REFUNDED", "REFUNDED", "CHARGED_BACK"}
             THEN "CAPTURED" ELSE row.state)

PaySum(f) == SumFunctionOnSet(f, Payments)

\* Every account balance is explained by the payment counters alone: held money
\* is exactly what open holds have left, fee, tax and cashback accounts hold what
\* captures charged, the merchant side holds net principal minus returns.
BalancesExplained ==
  /\ bal["held"] = PaySum([p \in Payments |->
                             pay[p].authorized - pay[p].captured - pay[p].released])
  /\ bal["fee"] = PaySum([p \in Payments |-> pay[p].fee])
  /\ bal["tax"] = PaySum([p \in Payments |-> pay[p].tax])
  /\ bal["cashback"] = PaySum([p \in Payments |-> -pay[p].cashback])
  /\ bal["merchant"] + bal["reserve"] =
       PaySum([p \in Payments |-> pay[p].captured - pay[p].fee - pay[p].tax
                                    - pay[p].refunded - pay[p].chargedBack])

\* The escrow authority of the customer never drifts from the ledger: every
\* operation moves escrow_authorities.total_authority by exactly what its journal
\* moves on the available account, so the two stay equal.
AuthorityMatchesLedger == total = bal["available"]

\* A region's rights are moved by its own payments only, and by each of them for
\* exactly the net amount the payment has taken from the available account.
RegionalRightsExplained ==
  \A r \in Regions :
    rights[r] = Funded[r] + SumFunctionOnSet(
      [p \in Payments |-> pay[p].released + pay[p].refunded + pay[p].chargedBack
                            + pay[p].cashback - pay[p].authorized],
      {p \in Payments : pay[p].region = r})

\* No capture is returned beyond its own amount, whatever its siblings have left,
\* and the payment row is the fold of its capture rows.
ReturnsStayWithinCapture ==
  /\ \A c \in Captures : cap[c].refunded + cap[c].chargedBack <= cap[c].captured
  /\ \A p \in Payments :
       /\ pay[p].captured = CapSum(cap, p, "captured")
       /\ pay[p].refunded = CapSum(cap, p, "refunded")
       /\ pay[p].chargedBack = CapSum(cap, p, "chargedBack")

\* The database's own checks (row triggers, table CHECKs, journal template, the
\* recomputed projection) never refuse what the service's checks let through: the
\* two implementations of the lifecycle rules agree in every reachable state.
DatabaseAgrees ==
  \A p \in Payments, n \in Amounts :
    /\ \A f \in Charges, t \in Charges, k \in Charges :
         CaptureAllowed(p, n, f, t, k) => CaptureAccepted(p, n, f, t, k)
    /\ \A kind \in {"RELEASE", "REVERSAL"} :
         ReleaseAllowed(p, kind, n) => ReleaseAccepted(p, n)
    /\ \A c \in Captures, kind \in {"REFUND", "CHARGEBACK"}, d \in ReturnAccounts :
         ReturnAllowed(p, c, kind, n) => ReturnAccepted(p, c, kind, n, d)

=============================================================================
