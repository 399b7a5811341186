--------------------------- MODULE PaymentProofs ---------------------------
(***************************************************************************)
(* Proofs about module Payment, for any set of payments, captures, regions *)
(* and amounts.                                                            *)
(***************************************************************************)
EXTENDS Payment, TLAPS

\* The inductive invariant.  The counters' bounds carry the state's meaning from
\* one operation to the next: a release can close a hold only because the payment
\* row knew exactly what was left of it.
IInv ==
  /\ TypeOK
  /\ CountersBounded
  /\ StateMatchesCounters
  /\ AuthorityMatchesLedger

\* The customer's available account is one of the accounts.
LEMMA AvailableIsAccount == "available" \in Accounts
BY DEF Accounts

\* A posting between two accounts is an integer per account.
LEMMA MoveType ==
  ASSUME NEW from \in Accounts, NEW to \in Accounts, NEW n \in Int
  PROVE  Move(from, to, n) \in [Accounts -> Int]
BY DEF Move

\* Posting integer lines on integer balances leaves integer balances.
LEMMA PostLinesType ==
  ASSUME NEW b \in [Accounts -> Int], NEW net \in [Accounts -> Int]
  PROVE  /\ PostLines(b, net) \in [Accounts -> Int]
         /\ \A a \in Accounts : PostLines(b, net)[a] = b[a] + net[a]
BY DEF PostLines

\* A capture's journal is an integer per account and leaves the customer's
\* available account alone.
LEMMA CaptureLinesType ==
  ASSUME NEW n \in Nat, NEW f \in Nat, NEW t \in Nat
  PROVE  /\ CaptureLines(n, f, t) \in [Accounts -> Int]
         /\ CaptureLines(n, f, t)["available"] = 0
BY DEF CaptureLines, Accounts

\* The initial state of a funded customer without payments satisfies IInv.
LEMMA InitIInv == Init => IInv
<1> SUFFICES ASSUME Init PROVE IInv
  OBVIOUS
<1> USE DEF Init
<1>1. Funds \in Int
  BY FundsAssumption
<1>2. TypeOK
  <2>1. NoRow \in PaymentRow
    BY DEF NoRow, PaymentRow, States
  <2>2. NoCapture \in CaptureRecord
    BY DEF NoCapture, CaptureRecord
  <2>3. bal \in [Accounts -> Int]
    BY <1>1, MoveType DEF Accounts
  <2>4. NoRow.state = "ABSENT"
    BY DEF NoRow
  <2> QED
    BY <2>1, <2>2, <2>3, <2>4, FundedAssumption, FundsAssumption DEF TypeOK
<1>3. CountersBounded
  BY DEF CountersBounded, NoRow
<1>4. StateMatchesCounters
  BY DEF StateMatchesCounters, NoRow, StoredStates, holdState
<1>5. AuthorityMatchesLedger
  BY <1>1 DEF AuthorityMatchesLedger, Move, Accounts
<1> QED
  BY <1>2, <1>3, <1>4, <1>5 DEF IInv

-----------------------------------------------------------------------------
\* Hold opens a payment that satisfies IInv and takes from the rights what it
\* takes from the available account.
LEMMA HoldIInv ==
  ASSUME IInv, NEW p \in Payments, NEW r \in Regions, NEW n \in Amounts,
         NEW m \in Charges, Hold(p, r, n, m)
  PROVE  IInv'
<1> DEFINE row == HoldRow(r, n, m)
           net == Move("available", "held", n)
<1>0. n \in Nat /\ n > 0 /\ m \in Nat
  BY AmountsAssumption, ChargesAssumption
<1>1. /\ pay' = [pay EXCEPT ![p] = row]
      /\ facts' = [facts EXCEPT ![p] = <<Fact("HOLD", "none", n)>>]
      /\ bal' = PostLines(bal, net)
      /\ rights[r] >= n /\ total >= n
      /\ rights' = [rights EXCEPT ![r] = @ - n]
      /\ total' = total - n
      /\ cap' = cap
  BY DEF Hold, SpendRights
<1>2. row \in PaymentRow
  BY <1>0 DEF HoldRow, NoRow, PaymentRow, States, HoldStates
<1>3. net \in [Accounts -> Int] /\ net["available"] = -n
  BY <1>0, MoveType DEF Move, Accounts
<1>4. TypeOK'
  <2>1. Fact("HOLD", "none", n) \in FactRecord
    BY <1>0 DEF Fact, FactRecord, Kinds
  <2>2. facts' \in [Payments -> Seq(FactRecord)]
    BY <1>1, <2>1 DEF IInv, TypeOK
  <2>3. bal' \in [Accounts -> Int]
    BY <1>1, <1>3, PostLinesType DEF IInv, TypeOK
  <2>4. rights' \in [Regions -> Nat] /\ total' \in Nat
    BY <1>0, <1>1 DEF IInv, TypeOK
  <2>5. row.state = "HELD" /\ row.region = r
    BY DEF HoldRow, NoRow
  <2> QED
    BY <1>1, <1>2, <2>2, <2>3, <2>4, <2>5 DEF IInv, TypeOK
<1>5. CountersBounded'
  BY <1>0, <1>1 DEF IInv, TypeOK, CountersBounded, HoldRow, NoRow
<1>6. StateMatchesCounters'
  BY <1>0, <1>1 DEF IInv, TypeOK, StateMatchesCounters, StoredStates, HoldRow, NoRow, holdState
<1>7. AuthorityMatchesLedger'
  <2> HIDE DEF net
  <2>0. bal \in [Accounts -> Int]
    BY DEF IInv, TypeOK
  <2>1. bal'["available"] = bal["available"] + net["available"]
    BY <1>1, <1>3, <2>0, AvailableIsAccount, PostLinesType
  <2> QED
    BY <1>0, <1>1, <1>3, <2>0, <2>1, AvailableIsAccount DEF IInv, TypeOK, AuthorityMatchesLedger
<1> QED
  BY <1>4, <1>5, <1>6, <1>7 DEF IInv

\* What ReturnRights does to the types and to the total.
LEMMA ReturnRightsType ==
  ASSUME TypeOK, NEW r \in Regions, NEW n \in Nat, ReturnRights(r, n)
  PROVE  rights' \in [Regions -> Nat] /\ total' \in Nat /\ total' = total + n
<1>1. rights' = [rights EXCEPT ![r] = @ + n] /\ total' = total + n
  BY DEF ReturnRights
<1>2. rights \in [Regions -> Nat]
  BY DEF TypeOK
<1> QED
  BY <1>1, <1>2 DEF TypeOK

\* Capture keeps IInv: the state it derives is the one the new counters call for,
\* and cashback reaches the rights and the available account alike.
LEMMA CaptureIInv ==
  ASSUME IInv, NEW p \in Payments, NEW c \in Captures, NEW n \in Amounts,
         NEW f \in Charges, NEW t \in Charges, NEW k \in Charges,
         Capture(p, c, n, f, t, k)
  PROVE  IInv'
<1> DEFINE row == CaptureRow(p, n, f, t, k)
           net == CaptureLines(n, f, t)
           back == Move("cashback", "available", k)
<1>0. n \in Nat /\ n > 0 /\ f \in Nat /\ t \in Nat /\ k \in Nat
  BY AmountsAssumption, ChargesAssumption
<1>1. /\ pay' = [pay EXCEPT ![p] = row]
      /\ cap' = [cap EXCEPT ![c] = [NoCapture EXCEPT !.payment = p, !.captured = n,
                                                     !.cashback = k]]
      /\ bal' = PostLines(PostLines(bal, net), back)
      /\ ReturnRights(pay[p].region, k)
  BY DEF Capture
<1>2. facts' = [facts EXCEPT ![p] = @ \o <<Fact("CAPTURE", "authorization", n)>>
                                      \o FactIf("FEE", c, f) \o FactIf("TAX", c, t)
                                      \o FactIf("CASHBACK", c, k)]
  BY DEF Capture
<1>3. /\ pay[p].state \in {"HELD", "PARTIALLY_CAPTURED"}
      /\ pay[p].captured + n + pay[p].released <= pay[p].authorized
      /\ RowUpdateAccepted(pay[p], row)
  BY DEF Capture, CaptureAllowed, CaptureAccepted
<1>4. pay[p] \in PaymentRow
  BY DEF IInv, TypeOK
<1>5. /\ row.state = captureState(pay[p].authorized, pay[p].captured + n, pay[p].released)
      /\ row.holdState = holdState(row.state)
      /\ row.captured = pay[p].captured + n /\ row.holdCaptured = pay[p].captured + n
      /\ row.released = pay[p].released /\ row.holdReleased = pay[p].holdReleased
      /\ row.authorized = pay[p].authorized
      /\ row.refunded = pay[p].refunded /\ row.chargedBack = pay[p].chargedBack
      /\ row.fee = pay[p].fee + f /\ row.tax = pay[p].tax + t
      /\ row.cashback = pay[p].cashback + k /\ row.rule = pay[p].rule
  BY <1>4 DEF CaptureRow, PaymentRow
<1>6. row.state \in {"CAPTURED", "PARTIALLY_CAPTURED"} /\ row.holdState = row.state
  BY <1>5 DEF captureState, holdState
<1>7. row \in PaymentRow
  <2> DEFINE s == captureState(pay[p].authorized, pay[p].captured + n, pay[p].released)
  <2>1. s \in States /\ holdState(s) \in HoldStates
    BY DEF captureState, holdState, States, HoldStates
  <2> HIDE DEF s
  <2>2. row = [pay[p] EXCEPT !.state = s, !.captured = @ + n, !.fee = @ + f,
                             !.tax = @ + t, !.cashback = @ + k, !.version = @ + 1,
                             !.holdState = holdState(s),
                             !.holdCaptured = pay[p].captured + n]
    BY DEF CaptureRow, s
  <2>3. /\ pay[p].captured + n \in Nat /\ pay[p].fee + f \in Nat
        /\ pay[p].tax + t \in Nat /\ pay[p].cashback + k \in Nat
        /\ pay[p].version + 1 \in Nat
    BY <1>0, <1>4 DEF PaymentRow
  <2> HIDE DEF row
  <2> QED
    BY <1>4, <2>1, <2>2, <2>3 DEF PaymentRow
<1>8. net \in [Accounts -> Int] /\ net["available"] = 0
  BY <1>0, CaptureLinesType
<1>9. back \in [Accounts -> Int] /\ back["available"] = k
  BY <1>0, MoveType DEF Move, Accounts
<1>10. /\ rights' \in [Regions -> Nat] /\ total' \in Nat
       /\ total' = total + k
  <2>1. pay[p].region \in Regions
    BY <1>3 DEF IInv, TypeOK
  <2> QED
    BY <1>0, <1>1, <2>1, ReturnRightsType DEF IInv
<1>11. TypeOK'
  <2>1. cap' \in [Captures -> CaptureRecord]
    BY <1>0, <1>1 DEF IInv, TypeOK, NoCapture, CaptureRecord
  <2>2. facts' \in [Payments -> Seq(FactRecord)]
    <3>1. <<Fact("CAPTURE", "authorization", n)>> \in Seq(FactRecord)
      BY <1>0 DEF Fact, FactRecord, Kinds
    <3>2. ASSUME NEW kind \in Kinds, NEW v \in Nat
          PROVE  FactIf(kind, c, v) \in Seq(FactRecord)
      <4>1. Fact(kind, c, v) \in FactRecord
        BY DEF Fact, FactRecord
      <4> QED
        BY <4>1 DEF FactIf
    <3>3. /\ FactIf("FEE", c, f) \in Seq(FactRecord)
          /\ FactIf("TAX", c, t) \in Seq(FactRecord)
          /\ FactIf("CASHBACK", c, k) \in Seq(FactRecord)
      BY <1>0, <3>2 DEF Kinds
    <3>4. facts[p] \in Seq(FactRecord)
      BY DEF IInv, TypeOK
    <3>5. facts[p] \o <<Fact("CAPTURE", "authorization", n)>>
            \o FactIf("FEE", c, f) \o FactIf("TAX", c, t)
            \o FactIf("CASHBACK", c, k) \in Seq(FactRecord)
      BY <3>1, <3>3, <3>4
    <3> QED
      BY <1>2, <3>5 DEF IInv, TypeOK
  <2>3. bal' \in [Accounts -> Int]
    BY <1>1, <1>8, <1>9, PostLinesType DEF IInv, TypeOK
  <2>4. pay' \in [Payments -> PaymentRow]
    BY <1>1, <1>7 DEF IInv, TypeOK
  <2>5. \A q \in Payments : pay'[q].state # "ABSENT" => pay'[q].region \in Regions
    <3>1. row.region = pay[p].region
      BY <1>4 DEF CaptureRow, PaymentRow
    <3> QED
      BY <1>1, <1>3, <3>1 DEF IInv, TypeOK
  <2> QED
    BY <1>10, <2>1, <2>2, <2>3, <2>4, <2>5 DEF TypeOK
<1>12. CountersBounded'
  BY <1>0, <1>1, <1>3, <1>4, <1>5 DEF IInv, TypeOK, CountersBounded, RowUpdateAccepted
<1>13. StateMatchesCounters'
  <2>1. pay'[p] = row /\ \A q \in Payments : q # p => pay'[q] = pay[q]
    BY <1>1 DEF IInv, TypeOK
  <2>2. row.refunded + row.chargedBack = 0
    BY <1>3, <1>4, <1>5 DEF IInv, StateMatchesCounters, CountersBounded, PaymentRow
  <2> QED
    BY <1>0, <1>3, <1>4, <1>5, <1>6, <2>1, <2>2
    DEF IInv, StateMatchesCounters, StoredStates, captureState, holdState, PaymentRow
<1>14. AuthorityMatchesLedger'
  <2>1. bal \in [Accounts -> Int]
    BY DEF IInv, TypeOK
  <2>2. /\ PostLines(bal, net) \in [Accounts -> Int]
        /\ PostLines(bal, net)["available"] = bal["available"] + 0
    BY <1>8, <2>1, AvailableIsAccount, PostLinesType
  <2>3. bal'["available"] = PostLines(bal, net)["available"] + k
    BY <1>1, <1>9, <2>2, AvailableIsAccount, PostLinesType
  <2> QED
    BY <1>0, <1>10, <2>1, <2>2, <2>3, AvailableIsAccount
    DEF IInv, TypeOK, AuthorityMatchesLedger
<1> QED
  BY <1>11, <1>12, <1>13, <1>14 DEF IInv

\* Release and Reversal keep IInv: the branch that closes the hold is taken
\* exactly when nothing of it is left.
LEMMA ReleaseIInv ==
  ASSUME IInv, NEW p \in Payments, NEW kind \in {"RELEASE", "REVERSAL"},
         NEW n \in Amounts, Release(p, kind, n)
  PROVE  IInv'
<1> DEFINE row == ReleaseRow(p, n)
           net == Move("held", "available", n)
           s == releaseState(pay[p].authorized, pay[p].captured, pay[p].released + n)
<1>0. n \in Nat /\ n > 0
  BY AmountsAssumption
<1>1. /\ pay' = [pay EXCEPT ![p] = row]
      /\ facts' = [facts EXCEPT ![p] = Append(@, Fact(kind, "authorization", n))]
      /\ bal' = PostLines(bal, net)
      /\ ReturnRights(pay[p].region, n)
      /\ cap' = cap
  BY DEF Release
<1>2. /\ pay[p].state \in {"HELD", "PARTIALLY_CAPTURED"}
      /\ RowUpdateAccepted(pay[p], row)
  BY DEF Release, ReleaseAllowed, ReleaseAccepted
<1>3. pay[p] \in PaymentRow /\ pay[p].region \in Regions
  BY <1>2 DEF IInv, TypeOK
<1>4. row = [pay[p] EXCEPT !.state = s, !.released = @ + n, !.version = @ + 1,
                           !.holdState = holdState(s),
                           !.holdReleased = pay[p].released + n]
  BY DEF ReleaseRow
<1>5. s \in {"HELD", "PARTIALLY_CAPTURED", "CAPTURED", "REVERSED"}
  BY DEF releaseState
<1>6. holdState(s) \in HoldStates
  BY <1>5 DEF holdState, HoldStates
<1>7. pay[p].released + n \in Nat /\ pay[p].version + 1 \in Nat
  BY <1>0, <1>3 DEF PaymentRow
<1>8. row \in PaymentRow
  <2> HIDE DEF s, row
  <2> QED
    BY <1>3, <1>4, <1>5, <1>6, <1>7 DEF PaymentRow, States
<1>9. /\ row.state = s /\ row.holdState = holdState(s)
      /\ row.released = pay[p].released + n /\ row.holdReleased = pay[p].released + n
      /\ row.captured = pay[p].captured /\ row.holdCaptured = pay[p].holdCaptured
      /\ row.authorized = pay[p].authorized /\ row.region = pay[p].region
      /\ row.refunded = pay[p].refunded /\ row.chargedBack = pay[p].chargedBack
  <2> HIDE DEF s, row
  <2> QED
    BY <1>3, <1>4 DEF PaymentRow
<1>10. net \in [Accounts -> Int] /\ net["available"] = n
  BY <1>0, MoveType DEF Move, Accounts
<1>11. rights' \in [Regions -> Nat] /\ total' \in Nat /\ total' = total + n
  BY <1>0, <1>1, <1>3, ReturnRightsType DEF IInv
<1>12. bal \in [Accounts -> Int]
  BY DEF IInv, TypeOK
<1> HIDE DEF s, row, net
<1>13. TypeOK'
  <2>1. Fact(kind, "authorization", n) \in FactRecord
    BY <1>0 DEF Fact, FactRecord, Kinds
  <2>2. facts' \in [Payments -> Seq(FactRecord)]
    BY <1>1, <2>1 DEF IInv, TypeOK
  <2>3. bal' \in [Accounts -> Int]
    BY <1>1, <1>10, <1>12, PostLinesType
  <2>4. pay' \in [Payments -> PaymentRow]
    BY <1>1, <1>8 DEF IInv, TypeOK
  <2>5. \A q \in Payments : pay'[q].state # "ABSENT" => pay'[q].region \in Regions
    BY <1>1, <1>3, <1>9 DEF IInv, TypeOK
  <2> QED
    BY <1>1, <1>11, <2>2, <2>3, <2>4, <2>5 DEF IInv, TypeOK
<1>14. CountersBounded'
  <2>1. pay'[p] = row /\ \A q \in Payments : q # p => pay'[q] = pay[q]
    BY <1>1 DEF IInv, TypeOK
  <2> QED
    BY <1>2, <1>3, <1>9, <2>1 DEF IInv, CountersBounded, RowUpdateAccepted
<1>15. StateMatchesCounters'
  <2>1. pay'[p] = row /\ \A q \in Payments : q # p => pay'[q] = pay[q]
    BY <1>1 DEF IInv, TypeOK
  <2>2. row.captured + row.released <= row.authorized
    BY <1>2 DEF RowUpdateAccepted
  <2>3. row.refunded + row.chargedBack = 0
    BY <1>2, <1>3, <1>9 DEF IInv, StateMatchesCounters, CountersBounded, PaymentRow
  <2> QED
    BY <1>0, <1>2, <1>3, <1>5, <1>9, <2>1, <2>2, <2>3
    DEF IInv, StateMatchesCounters, StoredStates, releaseState, holdState, PaymentRow, s
<1>16. AuthorityMatchesLedger'
  <2>1. bal'["available"] = bal["available"] + net["available"]
    BY <1>1, <1>10, <1>12, AvailableIsAccount, PostLinesType
  <2> QED
    BY <1>0, <1>10, <1>11, <1>12, <2>1, AvailableIsAccount DEF IInv, AuthorityMatchesLedger
<1> QED
  BY <1>13, <1>14, <1>15, <1>16 DEF IInv

\* Refund and Chargeback keep IInv, whatever the fold over the captures returns:
\* the service refuses a fold above the captured principal, the triggers one that
\* shrinks a counter.
LEMMA ReturnIInv ==
  ASSUME IInv, NEW p \in Payments, NEW c \in Captures,
         NEW kind \in {"REFUND", "CHARGEBACK"}, NEW n \in Amounts,
         NEW debit \in ReturnAccounts, Return(p, c, kind, n, debit)
  PROVE  IInv'
<1> DEFINE row == ReturnRow(p, c, kind, n)
           net == Move(debit, "available", n)
           refunded == CapSum(AdvancedCaptures(c, kind, n), p, "refunded")
           chargedBack == CapSum(AdvancedCaptures(c, kind, n), p, "chargedBack")
           s == refundState(pay[p].captured, refunded, chargedBack)
<1>0. n \in Nat /\ n > 0
  BY AmountsAssumption
<1>1. /\ pay' = [pay EXCEPT ![p] = row]
      /\ cap' = AdvancedCaptures(c, kind, n)
      /\ facts' = [facts EXCEPT ![p] = Append(@, Fact(kind, c, n))]
      /\ bal' = PostLines(bal, net)
      /\ ReturnRights(pay[p].region, n)
  BY DEF Return
<1>2. /\ pay[p].state \in {"CAPTURED", "SETTLED", "PARTIALLY_REFUNDED", "DISPUTED"}
      /\ row.refunded \in Int /\ row.chargedBack \in Int
      /\ row.refunded + row.chargedBack <= pay[p].captured
      /\ RowUpdateAccepted(pay[p], row)
  BY DEF Return, ReturnAllowed, ReturnAccepted
<1>3. pay[p] \in PaymentRow /\ pay[p].region \in Regions
  BY <1>2 DEF IInv, TypeOK
<1>4. row = [pay[p] EXCEPT !.refunded = refunded, !.chargedBack = chargedBack,
                           !.state = s, !.version = @ + 1]
  BY DEF ReturnRow
<1>5. s \in {"PARTIALLY_REFUNDED", "REFUNDED", "CHARGED_BACK"}
  BY DEF refundState
<1>6. /\ row.state = s /\ row.refunded = refunded /\ row.chargedBack = chargedBack
      /\ row.holdState = pay[p].holdState /\ row.region = pay[p].region
      /\ row.released = pay[p].released /\ row.holdReleased = pay[p].holdReleased
      /\ row.captured = pay[p].captured /\ row.holdCaptured = pay[p].holdCaptured
      /\ row.authorized = pay[p].authorized
  <2> HIDE DEF s, row, refunded, chargedBack
  <2> QED
    BY <1>3, <1>4 DEF PaymentRow
<1> HIDE DEF row, refunded, chargedBack
<1>7. refunded \in Nat /\ chargedBack \in Nat /\ pay[p].version + 1 \in Nat
  BY <1>2, <1>3, <1>6 DEF RowUpdateAccepted, PaymentRow
<1>8. row \in PaymentRow
  <2> HIDE DEF s
  <2> QED
    BY <1>3, <1>4, <1>5, <1>7 DEF PaymentRow, States
<1>9. debit \in Accounts /\ debit # "available"
  BY DEF ReturnAccounts, Accounts
<1>10. net \in [Accounts -> Int] /\ net["available"] = n
  BY <1>0, <1>9, MoveType, AvailableIsAccount DEF Move
<1>11. rights' \in [Regions -> Nat] /\ total' \in Nat /\ total' = total + n
  BY <1>0, <1>1, <1>3, ReturnRightsType DEF IInv
<1>12. bal \in [Accounts -> Int]
  BY DEF IInv, TypeOK
<1> HIDE DEF net
<1>13. TypeOK'
  <2>1. cap' \in [Captures -> CaptureRecord]
    <3>1. cap[c] \in CaptureRecord
      BY DEF IInv, TypeOK
    <3>2. cap[c].refunded + n \in Nat /\ cap[c].chargedBack + n \in Nat
      BY <1>0, <3>1 DEF CaptureRecord
    <3>3. /\ [cap[c] EXCEPT !.refunded = @ + n] \in CaptureRecord
          /\ [cap[c] EXCEPT !.chargedBack = @ + n] \in CaptureRecord
      BY <3>1, <3>2 DEF CaptureRecord
    <3> QED
      BY <1>1, <3>3 DEF IInv, TypeOK, AdvancedCaptures
  <2>2. facts' \in [Payments -> Seq(FactRecord)]
    <3>1. Fact(kind, c, n) \in FactRecord
      BY <1>0 DEF Fact, FactRecord, Kinds
    <3> QED
      BY <1>1, <3>1 DEF IInv, TypeOK
  <2>3. bal' \in [Accounts -> Int]
    BY <1>1, <1>10, <1>12, PostLinesType
  <2>4. pay' \in [Payments -> PaymentRow]
    BY <1>1, <1>8 DEF IInv, TypeOK
  <2>5. \A q \in Payments : pay'[q].state # "ABSENT" => pay'[q].region \in Regions
    BY <1>1, <1>3, <1>6 DEF IInv, TypeOK
  <2> QED
    BY <1>11, <2>1, <2>2, <2>3, <2>4, <2>5 DEF TypeOK
<1>14. pay'[p] = row /\ \A q \in Payments : q # p => pay'[q] = pay[q]
  BY <1>1 DEF IInv, TypeOK
<1>15. CountersBounded'
  BY <1>2, <1>6, <1>14 DEF IInv, CountersBounded, RowUpdateAccepted
<1>16. StateMatchesCounters'
  <2>1. /\ pay[p].captured + pay[p].released >= pay[p].authorized
        /\ pay[p].captured > 0 /\ pay[p].holdState = "CAPTURED"
    BY <1>2, <1>3 DEF IInv, StateMatchesCounters, CountersBounded, StoredStates, holdState, PaymentRow
  <2> QED
    BY <1>2, <1>3, <1>5, <1>6, <1>7, <1>14, <2>1
    DEF IInv, StateMatchesCounters, StoredStates, refundState, holdState, PaymentRow, s
<1>17. AuthorityMatchesLedger'
  <2>1. bal'["available"] = bal["available"] + net["available"]
    BY <1>1, <1>10, <1>12, AvailableIsAccount, PostLinesType
  <2> QED
    BY <1>0, <1>10, <1>11, <1>12, <2>1, AvailableIsAccount DEF IInv, AuthorityMatchesLedger
<1> QED
  BY <1>13, <1>15, <1>16, <1>17 DEF IInv

-----------------------------------------------------------------------------
\* Every step of the payment service, and stuttering, keeps IInv.
LEMMA NextIInv == IInv /\ [Next]_vars => IInv'
<1> SUFFICES ASSUME IInv, [Next]_vars PROVE IInv'
  OBVIOUS
<1>1. CASE HoldAny
  BY <1>1, HoldIInv DEF HoldAny
<1>2. CASE CaptureAny
  BY <1>2, CaptureIInv DEF CaptureAny
<1>3. CASE ReleaseAny
  BY <1>3, ReleaseIInv DEF ReleaseAny
<1>4. CASE ReversalAny
  BY <1>4, ReleaseIInv DEF ReversalAny
<1>5. CASE RefundAny
  BY <1>5, ReturnIInv DEF RefundAny
<1>6. CASE ChargebackAny
  BY <1>6, ReturnIInv DEF ChargebackAny
<1>7. CASE UNCHANGED vars
  BY <1>7 DEF vars, IInv, TypeOK, CountersBounded, StateMatchesCounters, AuthorityMatchesLedger
<1> QED
  BY <1>1, <1>2, <1>3, <1>4, <1>5, <1>6, <1>7 DEF Next

\* IInv holds in every reachable state of the payment service.
LEMMA IInvHolds == Spec => []IInv
BY InitIInv, NextIInv, PTL DEF Spec

\* Rows, facts, balances and rights keep their column types through any sequence
\* of holds, captures, releases, refunds and chargebacks.
THEOREM PaymentTypeOK == Spec => []TypeOK
<1>1. IInv => TypeOK
  BY DEF IInv
<1> QED
  BY <1>1, IInvHolds, PTL

\* The counters of a payment and of its hold always agree and stay within what
\* was authorized, captured and ruled.
THEOREM PaymentCountersBounded == Spec => []CountersBounded
<1>1. IInv => CountersBounded
  BY DEF IInv
<1> QED
  BY <1>1, IInvHolds, PTL

\* The state column, derived by three different functions, always says exactly
\* what the counters say.
THEOREM PaymentStateMatchesCounters == Spec => []StateMatchesCounters
<1>1. IInv => StateMatchesCounters
  BY DEF IInv
<1> QED
  BY <1>1, IInvHolds, PTL

\* The customer's escrow authority equals the available balance of the ledger in
\* every reachable state: no operation moves one without the other.
THEOREM PaymentAuthorityMatchesLedger == Spec => []AuthorityMatchesLedger
<1>1. IInv => AuthorityMatchesLedger
  BY DEF IInv
<1> QED
  BY <1>1, IInvHolds, PTL

=============================================================================
