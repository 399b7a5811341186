-------------------- MODULE PaymentReconciliationProofs --------------------
(***************************************************************************)
(* Refunds, chargebacks and captures keep SInv of PaymentFactsProofs too:  *)
(* balances, rights, capture rows and the immutable facts all follow from  *)
(* the payment rows, and reconciliation has nothing to report on payments. *)
(***************************************************************************)
EXTENDS PaymentFactsProofs

\* The capture row that a return writes, and what it does to the folds.
CaptureReturned(p, c, kind, n) ==
  /\ cap'[c].payment = p /\ cap'[c].captured = cap[c].captured
  /\ cap'[c].cashback = cap[c].cashback
  /\ cap'[c].refunded = IF kind = "REFUND" THEN cap[c].refunded + n ELSE cap[c].refunded
  /\ cap'[c].chargedBack = IF kind = "CHARGEBACK" THEN cap[c].chargedBack + n ELSE cap[c].chargedBack
  /\ \A d \in Captures : d # c => cap'[d] = cap[d]
  /\ \A d \in Captures : cap'[d].refunded + cap'[d].chargedBack <= cap'[d].captured
  /\ CapSum(cap', p, "captured") = CapSum(cap, p, "captured")
  /\ CapSum(cap', p, "cashback") = CapSum(cap, p, "cashback")
  /\ CapSum(cap', p, "refunded") = IF kind = "REFUND" THEN pay[p].refunded + n ELSE pay[p].refunded
  /\ CapSum(cap', p, "chargedBack")
       = IF kind = "CHARGEBACK" THEN pay[p].chargedBack + n ELSE pay[p].chargedBack
  /\ CapturesOf(cap', p) = CapturesOf(cap, p)

\* The conditional update of a capture row moves the folds of its payment by as much.
LEMMA ReturnFolds ==
  ASSUME TypeOK, TypeOK', ReturnsStayWithinCapture, NEW p \in Payments, NEW c \in Captures,
         NEW kind \in {"REFUND", "CHARGEBACK"}, NEW n \in Nat,
         cap' = AdvancedCaptures(c, kind, n), ReturnWithinCapture(p, c, n)
  PROVE  CaptureReturned(p, c, kind, n)
<1>1. /\ cap \in [Captures -> CaptureRecord] /\ cap' \in [Captures -> CaptureRecord]
      /\ cap[c] \in CaptureRecord /\ cap[c].payment = p
      /\ cap[c].refunded + cap[c].chargedBack + n <= cap[c].captured
  BY Zenon DEF TypeOK, ReturnWithinCapture
<1>2. /\ cap'[c].payment = p /\ cap'[c].captured = cap[c].captured
      /\ cap'[c].cashback = cap[c].cashback
      /\ cap'[c].refunded = IF kind = "REFUND" THEN cap[c].refunded + n ELSE cap[c].refunded
      /\ cap'[c].chargedBack = IF kind = "CHARGEBACK" THEN cap[c].chargedBack + n ELSE cap[c].chargedBack
      /\ \A d \in Captures : d # c => cap'[d] = cap[d]
  <2>1. CASE kind = "REFUND"
    BY <1>1, <2>1, Zenon DEF AdvancedCaptures, CaptureRecord
  <2>2. CASE kind = "CHARGEBACK"
    BY <1>1, <2>2, Zenon DEF AdvancedCaptures, CaptureRecord
  <2> QED
    BY <2>1, <2>2, Zenon
<1>3. /\ cap[c].captured \in Nat /\ cap[c].cashback \in Nat
      /\ cap[c].refunded \in Nat /\ cap[c].chargedBack \in Nat
  BY <1>1, Zenon DEF CaptureRecord
<1>4. \A d \in Captures : cap'[d].refunded + cap'[d].chargedBack <= cap'[d].captured
  BY <1>1, <1>2, <1>3 DEF ReturnsStayWithinCapture
<1>5. CapturesOf(cap', p) = CapturesOf(cap, p)
  BY <1>1, <1>2, Zenon DEF CapturesOf
<1>6. ASSUME NEW field \in Fields
      PROVE  /\ CapSum(cap', p, field) = CapSum(cap, p, field) + cap'[c][field] - cap[c][field]
             /\ CapSum(cap, p, field) \in Nat
  <2>1. /\ CapSum(cap', p, field) = CapSum(cap, p, field)
             + (IF cap'[c].payment = p THEN cap'[c][field] ELSE 0)
             - (IF cap[c].payment = p THEN cap[c][field] ELSE 0)
        /\ CapSum(cap, p, field) \in Nat
    BY <1>1, <1>2, CapSumMoves DEF Fields
  <2> QED
    BY <1>1, <1>2, <2>1, Zenon
<1>7. /\ CapSum(cap', p, "captured") = CapSum(cap, p, "captured")
      /\ CapSum(cap', p, "cashback") = CapSum(cap, p, "cashback")
      /\ CapSum(cap', p, "refunded") = IF kind = "REFUND" THEN pay[p].refunded + n ELSE pay[p].refunded
      /\ CapSum(cap', p, "chargedBack")
           = IF kind = "CHARGEBACK" THEN pay[p].chargedBack + n ELSE pay[p].chargedBack
  <2>1. \A field \in Fields :
          /\ CapSum(cap', p, field) = CapSum(cap, p, field) + cap'[c][field] - cap[c][field]
          /\ CapSum(cap, p, field) \in Nat
    BY <1>6, Zenon
  <2>2. pay[p].refunded = CapSum(cap, p, "refunded") /\ pay[p].chargedBack = CapSum(cap, p, "chargedBack")
    BY Zenon DEF ReturnsStayWithinCapture
  <2>3. /\ CapSum(cap', p, "captured") = CapSum(cap, p, "captured")
        /\ CapSum(cap', p, "cashback") = CapSum(cap, p, "cashback")
    BY <1>2, <1>3, <2>1 DEF Fields
  <2>4. CapSum(cap', p, "refunded") = IF kind = "REFUND" THEN pay[p].refunded + n ELSE pay[p].refunded
    BY <1>2, <1>3, <2>1, <2>2 DEF Fields
  <2>5. CapSum(cap', p, "chargedBack")
          = IF kind = "CHARGEBACK" THEN pay[p].chargedBack + n ELSE pay[p].chargedBack
    BY <1>2, <1>3, <2>1, <2>2 DEF Fields
  <2> QED
    BY <2>3, <2>4, <2>5, ZenonT(30)
<1> QED
  BY <1>2, <1>4, <1>5, <1>7, ZenonT(30) DEF CaptureReturned

\* The fact of a return says of each capture what its row says.
LEMMA ReturnedFacts ==
  ASSUME TypeOK, NEW p \in Payments, Explained(p), NEW e \in FactRecord,
         e.ref \in Captures, e.kind \in {"REFUND", "CHARGEBACK"}, cap[e.ref].payment = p,
         CaptureReturned(p, e.ref, e.kind, e.amount), facts'[p] = Append(facts[p], e)
  PROVE  \A d \in Captures : CaptureFacts(p, d, cap'[d], facts'[p])
<1> DEFINE c == e.ref
<1>1. facts[p] \in Seq(FactRecord) /\ \A d \in Captures : CaptureFacts(p, d, cap[d], facts[p])
  BY Zenon DEF TypeOK, Explained
<1>2. ASSUME NEW d \in Captures, d # c
      PROVE  CaptureFacts(p, d, cap'[d], facts'[p])
  <2>1. e.ref # d /\ CaptureFacts(p, d, cap[d], facts[p]) /\ cap'[d] = cap[d]
    BY <1>1, <1>2, Zenon DEF CaptureReturned
  <2> QED
    BY <1>1, <2>1, OtherFact, Zenon
<1>3. CaptureFacts(p, c, cap'[c], facts'[p])
  <2>1. /\ FactsSum(facts[p], {"REFUND"}, {c}) = cap[c].refunded
        /\ FactsSum(facts[p], {"CHARGEBACK"}, {c}) = cap[c].chargedBack
        /\ FactsSum(facts[p], {"CASHBACK"}, {c}) = cap[c].cashback
    BY <1>1, Zenon DEF CaptureFacts
  <2>2. ASSUME NEW K
        PROVE  /\ FactsSum(facts'[p], {K}, {c})
                    = FactsSum(facts[p], {K}, {c}) + (IF e.kind = K THEN e.amount ELSE 0)
               /\ FactsSum(facts[p], {K}, {c}) \in Nat
    <3>1. /\ FactsSum(Append(facts[p], e), {K}, {c})
               = FactsSum(facts[p], {K}, {c}) + (IF e.kind = K /\ e.ref = c THEN e.amount ELSE 0)
          /\ FactsSum(facts[p], {K}, {c}) \in Nat
      BY <1>1, NamedSum, Zenon
    <3> QED
      BY <3>1, Zenon
  <2>3. /\ FactsSum(facts'[p], {"REFUND"}, {c})
             = cap[c].refunded + (IF e.kind = "REFUND" THEN e.amount ELSE 0)
        /\ FactsSum(facts'[p], {"CHARGEBACK"}, {c})
             = cap[c].chargedBack + (IF e.kind = "CHARGEBACK" THEN e.amount ELSE 0)
        /\ FactsSum(facts'[p], {"CASHBACK"}, {c})
             = cap[c].cashback + (IF e.kind = "CASHBACK" THEN e.amount ELSE 0)
        /\ cap[c].refunded \in Nat /\ cap[c].chargedBack \in Nat /\ cap[c].cashback \in Nat
    BY <2>1, <2>2, Zenon
  <2>4. /\ FactsSum(facts'[p], {"REFUND"}, {c}) = cap'[c].refunded
        /\ FactsSum(facts'[p], {"CHARGEBACK"}, {c}) = cap'[c].chargedBack
        /\ FactsSum(facts'[p], {"CASHBACK"}, {c}) = cap'[c].cashback
    BY <2>3 DEF CaptureReturned
  <2>5. cap'[c].payment = p
    BY Zenon DEF CaptureReturned
  <2> QED
    BY <2>4, <2>5, Zenon DEF CaptureFacts
<1> QED
  BY <1>2, <1>3, Zenon

\* A refund or chargeback is explained by the fact that names its capture: the
\* capture's row, the fold that the payment row takes and the merchant side all
\* move by its amount.
LEMMA ReturnSInv ==
  ASSUME IInv, IInv', SInv, NEW p \in Payments, NEW c \in Captures,
         NEW kind \in {"REFUND", "CHARGEBACK"}, NEW n \in Amounts,
         NEW debit \in ReturnAccounts, Return(p, c, kind, n, debit)
  PROVE  SInv'
<1> DEFINE e == Fact(kind, c, n)
           r == pay[p].region
<1>1. TypeOK /\ TypeOK' /\ n \in Nat /\ ReturnsStayWithinCapture
  BY AmountsAssumption DEF IInv, SInv
<1>2. pay[p] \in PaymentRow /\ pay[p].state # "ABSENT" /\ r \in Regions
  BY <1>1, Zenon DEF Return, ReturnAllowed, TypeOK
<1>3. /\ pay'[p] = ReturnRow(p, c, kind, n) /\ facts'[p] = Append(facts[p], e)
      /\ rights'[r] = rights[r] + n /\ \A q \in Regions \ {r} : rights'[q] = rights[q]
  BY <1>1, <1>2, Zenon DEF Return, ReturnRights, TypeOK
<1>4. OthersSame(p)
  BY <1>1, Zenon DEF Return, TypeOK, OthersSame
<1>5. /\ ReturnWithinCapture(p, c, n) /\ cap' = AdvancedCaptures(c, kind, n)
      /\ bal' = PostLines(bal, Move(debit, "available", n))
  BY Zenon DEF Return, ReturnAllowed
<1>6. CaptureReturned(p, c, kind, n)
  BY <1>1, <1>5, ReturnFolds
<1>7. /\ pay'[p].state # "ABSENT" /\ pay'[p].region = r
      /\ Grown(pay[p], pay'[p], kind, n) /\ FoldsCaptures(p)'
  <2> DEFINE refunded == CapSum(cap', p, "refunded")
             chargedBack == CapSum(cap', p, "chargedBack")
             s == refundState(pay[p].captured, refunded, chargedBack)
  <2>1. s # "ABSENT"
    BY DEF refundState
  <2>2. pay'[p] = [pay[p] EXCEPT !.refunded = refunded, !.chargedBack = chargedBack,
                                 !.state = s, !.version = @ + 1]
    BY <1>3, <1>5, Zenon DEF ReturnRow
  <2> HIDE DEF s, refunded, chargedBack
  <2>3. /\ pay'[p].state # "ABSENT" /\ pay'[p].region = r
        /\ pay'[p].authorized = pay[p].authorized /\ pay'[p].captured = pay[p].captured
        /\ pay'[p].released = pay[p].released /\ pay'[p].refunded = refunded
        /\ pay'[p].chargedBack = chargedBack /\ pay'[p].fee = pay[p].fee
        /\ pay'[p].tax = pay[p].tax /\ pay'[p].cashback = pay[p].cashback
    BY <1>2, <2>1, <2>2, Zenon DEF PaymentRow
  <2>4. /\ refunded = IF kind = "REFUND" THEN pay[p].refunded + n ELSE pay[p].refunded
        /\ chargedBack = IF kind = "CHARGEBACK" THEN pay[p].chargedBack + n ELSE pay[p].chargedBack
    BY <1>6, Zenon DEF CaptureReturned, refunded, chargedBack
  <2>5. FoldsCaptures(p)'
    BY <1>6, <2>3, AtPayment, Zenon DEF CaptureReturned, FoldsCaptures, refunded, chargedBack
  <2> QED
    BY <2>3, <2>4, <2>5, Zenon DEF Grown
<1>8. BalancesExplained'
  <2>1. Transfers(kind, debit, "available") /\ BalancesExplained
    BY DEF Transfers, SInv
  <2>2. PostsItsRow(p)
    BY <1>1, <1>5, <1>7, <2>1, TransferPosts, Zenon
  <2> QED
    BY <1>1, <1>4, <2>1, <2>2, BalancesStep
<1>9. RegionalRightsExplained'
  <2>1. MovesItsRights(p, r)
    BY <1>1, <1>2, <1>3, <1>7, TransferMovesRights, Zenon
  <2>2. RegionalRightsExplained
    BY DEF SInv
  <2> QED
    BY <1>1, <1>2, <1>4, <2>1, <2>2, RightsStep, Zenon
<1>10. e \in FactRecord /\ e.kind = kind /\ e.ref = c /\ e.amount = n
  BY <1>1 DEF Fact, FactRecord, Kinds
<1>11. Explained(p) /\ OnlyCapturesOf(p) /\ cap[c].payment = p
  BY <1>5, <1>6, AtPayment, Zenon DEF OnlyCapturesOf, ReturnWithinCapture, CaptureReturned
<1> HIDE DEF e
<1>12. \A d \in Captures : CaptureFacts(p, d, cap'[d], facts'[p])
  <2>1. CaptureReturned(p, e.ref, e.kind, e.amount) /\ cap[e.ref].payment = p
    BY <1>6, <1>10, <1>11, Zenon
  <2>2. e.ref \in Captures /\ e.kind \in {"REFUND", "CHARGEBACK"}
    BY <1>10
  <2> QED
    BY <1>1, <1>3, <1>10, <1>11, <2>1, <2>2, ReturnedFacts, ZenonT(30)
<1>13. Explained(p)'
  <2>1. /\ RefOf(e.kind, e.ref) /\ e.kind \notin {"CAPTURE", "CASHBACK"}
        /\ Grown(pay[p], pay'[p], e.kind, e.amount)
        /\ e.kind = "HOLD" <=> pay[p].state = "ABSENT"
    BY <1>2, <1>7, <1>10, Zenon DEF RefOf
  <2>2. /\ Cardinality(CapturesOf(cap', p)) = Cardinality(CapturesOf(cap, p))
        /\ CapSum(cap', p, "cashback") = CapSum(cap, p, "cashback")
    BY <1>6, Zenon DEF CaptureReturned
  <2> QED
    BY <1>1, <1>3, <1>7, <1>10, <1>11, <1>12, <2>1, <2>2, TransferExplained, ZenonT(30)
<1> QED
  BY <1>1, <1>4, <1>7, <1>8, <1>9, <1>11, <1>13, StepSInv, ZenonT(30)

\* FactIf explains a row that has grown by its amount, also when that is zero.
LEMMA RowFactsIf ==
  ASSUME NEW fs \in Seq(FactRecord), NEW kind \in Kinds, NEW ref \in AnyRef, NEW n \in Nat,
         RefOf(kind, ref), NEW old, NEW new, RowFacts(old, fs),
         Grown(old, new, kind, n)
  PROVE  RowFacts(new, fs \o FactIf(kind, ref, n))
<1> DEFINE e == Fact(kind, ref, n)
<1>1. e \in FactRecord /\ e.kind = kind /\ e.ref = ref /\ e.amount = n
  BY DEF Fact, FactRecord, AnyRef
<1>2. CASE n > 0
  <2>1. fs \o FactIf(kind, ref, n) = Append(fs, e)
    BY <1>2 DEF FactIf
  <2> HIDE DEF e
  <2>2. RowFacts(new, Append(fs, e))
    BY <1>1, RowFactsAppend
  <2> QED
    BY <2>1, <2>2, Zenon
<1>3. CASE n = 0
  <2>1. fs \o FactIf(kind, ref, n) = fs
    BY <1>3 DEF FactIf
  <2>2. /\ new.authorized = old.authorized /\ new.captured = old.captured
        /\ new.released = old.released /\ new.refunded = old.refunded
        /\ new.chargedBack = old.chargedBack /\ new.fee = old.fee /\ new.tax = old.tax
        /\ new.cashback = old.cashback
    <3>1. ASSUME NEW K, NEW R PROVE FactsSum(fs, K, R) \in Nat
      BY <1>1, FactsSumAppend, Zenon
    <3>2. /\ FactsSum(fs, {"HOLD"}, AnyRef) \in Nat /\ FactsSum(fs, {"CAPTURE"}, AnyRef) \in Nat
          /\ FactsSum(fs, {"RELEASE", "REVERSAL"}, {"authorization"}) \in Nat
          /\ FactsSum(fs, {"REFUND"}, AnyRef) \in Nat /\ FactsSum(fs, {"CHARGEBACK"}, AnyRef) \in Nat
          /\ FactsSum(fs, {"FEE"}, AnyRef) \in Nat /\ FactsSum(fs, {"TAX"}, AnyRef) \in Nat
          /\ FactsSum(fs, {"CASHBACK"}, AnyRef) \in Nat
      BY <3>1, Zenon
    <3>3. Counters(old)
      BY <3>2, Zenon DEF RowFacts, Counters
    <3> QED
      BY <1>3, <3>3 DEF Grown, Counters
  <2>3. RowFacts(new, fs)
    BY <2>2, Zenon DEF RowFacts
  <2> QED
    BY <2>1, <2>3, Zenon
<1> QED
  BY <1>2, <1>3

\* The facts of a payment after a capture.
AfterCapture(fs, c, n, f, t, k) ==
  Append(fs, Fact("CAPTURE", "authorization", n))
    \o FactIf("FEE", c, f) \o FactIf("TAX", c, t) \o FactIf("CASHBACK", c, k)

Row(authorized, captured, released, refunded, chargedBack, fee, tax, cashback) ==
  [authorized |-> authorized, captured |-> captured, released |-> released,
   refunded |-> refunded, chargedBack |-> chargedBack, fee |-> fee, tax |-> tax,
   cashback |-> cashback]

\* The counters that a capture moves.
Charged(old, new, n, f, t, k) ==
  /\ new.authorized = old.authorized /\ new.captured = old.captured + n
  /\ new.released = old.released /\ new.refunded = old.refunded
  /\ new.chargedBack = old.chargedBack /\ new.fee = old.fee + f /\ new.tax = old.tax + t
  /\ new.cashback = old.cashback + k

\* What gs says after the facts of a capture were added to fs.
CaptureRecorded(fs, gs, c, k, new) ==
  /\ RowFacts(new, gs)
  /\ \A d \in Captures, K \in {"REFUND", "CHARGEBACK", "CASHBACK"} :
       FactsSum(gs, {K}, {d}) = FactsSum(fs, {K}, {d}) + (IF K = "CASHBACK" /\ d = c THEN k ELSE 0)
  /\ Cardinality(OfKind(gs, "HOLD")) = Cardinality(OfKind(fs, "HOLD"))
  /\ Cardinality(OfKind(gs, "CAPTURE")) = Cardinality(OfKind(fs, "CAPTURE")) + 1

\* The four facts of a capture explain the four counters it moves, and say of the
\* captures only that this one gave cashback.
LEMMA CaptureFactsFold ==
  ASSUME NEW fs \in Seq(FactRecord), NEW c \in Captures, NEW n \in Nat, NEW f \in Nat,
         NEW t \in Nat, NEW k \in Nat, NEW old, NEW new, RowFacts(old, fs),
         Charged(old, new, n, f, t, k)
  PROVE  CaptureRecorded(fs, AfterCapture(fs, c, n, f, t, k), c, k, new)
<1> DEFINE e == Fact("CAPTURE", "authorization", n)
           fs1 == Append(fs, e)
           fs2 == fs1 \o FactIf("FEE", c, f)
           fs3 == fs2 \o FactIf("TAX", c, t)
           fs4 == fs3 \o FactIf("CASHBACK", c, k)
           old1 == Row(old.authorized, old.captured + n, old.released, old.refunded,
                       old.chargedBack, old.fee, old.tax, old.cashback)
           old2 == Row(old.authorized, old.captured + n, old.released, old.refunded,
                       old.chargedBack, old.fee + f, old.tax, old.cashback)
           old3 == Row(old.authorized, old.captured + n, old.released, old.refunded,
                       old.chargedBack, old.fee + f, old.tax + t, old.cashback)
<1>1. /\ e \in FactRecord /\ e.kind = "CAPTURE" /\ e.ref = "authorization" /\ e.amount = n
      /\ c \in AnyRef /\ "FEE" \in Kinds /\ "TAX" \in Kinds /\ "CASHBACK" \in Kinds
  BY DEF Fact, FactRecord, Kinds, AnyRef
<1>2. Grown(old, old1, "CAPTURE", n)
  BY Zenon DEF Grown, Row
<1>3. Grown(old1, old2, "FEE", f) /\ Grown(old2, old3, "TAX", t)
  BY Zenon DEF Grown, Row
<1>4. Grown(old3, new, "CASHBACK", k)
  BY Zenon DEF Grown, Row, Charged
<1>5. fs4 = AfterCapture(fs, c, n, f, t, k)
  BY Zenon DEF AfterCapture
<1> HIDE DEF e, old1, old2, old3
<1>6. fs1 \in Seq(FactRecord) /\ RowFacts(old1, fs1)
  <2>1. RefOf(e.kind, e.ref) /\ Grown(old, old1, e.kind, e.amount)
    BY <1>1, <1>2 DEF RefOf
  <2> QED
    BY <1>1, <2>1, RowFactsAppend
<1> HIDE DEF fs1
<1>7. fs2 \in Seq(FactRecord) /\ RowFacts(old2, fs2)
  <2>1. RefOf("FEE", c)
    BY DEF RefOf
  <2> QED
    BY <1>1, <1>3, <1>6, <2>1, FactsSumIf, RowFactsIf
<1> HIDE DEF fs2
<1>8. fs3 \in Seq(FactRecord) /\ RowFacts(old3, fs3)
  <2>1. RefOf("TAX", c)
    BY DEF RefOf
  <2> QED
    BY <1>1, <1>3, <1>7, <2>1, FactsSumIf, RowFactsIf
<1> HIDE DEF fs3
<1>9. RowFacts(new, fs4)
  <2>1. RefOf("CASHBACK", c)
    BY DEF RefOf
  <2> QED
    BY <1>1, <1>4, <1>8, <2>1, RowFactsIf, ZenonT(30)
<1>10. ASSUME NEW kinds, NEW refs
       PROVE  FactsSum(fs4, kinds, refs) = FactsSum(fs3, kinds, refs)
                + (IF "CASHBACK" \in kinds /\ c \in refs THEN k ELSE 0)
  BY <1>1, <1>8, FactsSumIf
<1> HIDE DEF fs4
<1>11. ASSUME NEW d \in Captures, NEW K \in {"REFUND", "CHARGEBACK", "CASHBACK"}
       PROVE  FactsSum(fs4, {K}, {d})
                = FactsSum(fs, {K}, {d}) + (IF K = "CASHBACK" /\ d = c THEN k ELSE 0)
  <2>1. FactsSum(fs1, {K}, {d}) = FactsSum(fs, {K}, {d}) + Adds(e, {K}, {d})
        /\ FactsSum(fs, {K}, {d}) \in Nat
    BY <1>1, FactsSumAppend, Zenon DEF fs1
  <2>2. Adds(e, {K}, {d}) = 0
    BY <1>1 DEF Adds
  <2>3. FactsSum(fs2, {K}, {d}) = FactsSum(fs1, {K}, {d}) + (IF "FEE" \in {K} /\ c \in {d} THEN f ELSE 0)
    BY <1>1, <1>6, FactsSumIf DEF fs2
  <2>4. FactsSum(fs3, {K}, {d}) = FactsSum(fs2, {K}, {d}) + (IF "TAX" \in {K} /\ c \in {d} THEN t ELSE 0)
    BY <1>1, <1>7, FactsSumIf DEF fs3
  <2>5. FactsSum(fs4, {K}, {d}) = FactsSum(fs3, {K}, {d}) + (IF "CASHBACK" \in {K} /\ c \in {d} THEN k ELSE 0)
    BY <1>10
  <2> QED
    BY <2>1, <2>2, <2>3, <2>4, <2>5
<1>12. ASSUME NEW kind \in {"HOLD", "CAPTURE"}
       PROVE  Cardinality(OfKind(fs4, kind))
                = Cardinality(OfKind(fs, kind)) + (IF kind = "CAPTURE" THEN 1 ELSE 0)
  <2>1. Cardinality(OfKind(fs1, kind)) = Cardinality(OfKind(fs, kind)) + (IF e.kind = kind THEN 1 ELSE 0)
    BY <1>1, CountAppend, Zenon DEF fs1
  <2>2. Cardinality(OfKind(fs2, kind)) = Cardinality(OfKind(fs1, kind))
    BY <1>1, <1>6, CountIf DEF fs2
  <2>3. Cardinality(OfKind(fs3, kind)) = Cardinality(OfKind(fs2, kind))
    BY <1>1, <1>7, CountIf DEF fs3
  <2>4. Cardinality(OfKind(fs4, kind)) = Cardinality(OfKind(fs3, kind))
    BY <1>1, <1>8, CountIf DEF fs4
  <2> QED
    BY <1>1, <2>1, <2>2, <2>3, <2>4, ZenonT(30)
<1>13. Cardinality(OfKind(fs, "HOLD")) \in Nat
  BY <1>1, CountAppend
<1>14. /\ Cardinality(OfKind(fs4, "HOLD")) = Cardinality(OfKind(fs, "HOLD"))
       /\ Cardinality(OfKind(fs4, "CAPTURE")) = Cardinality(OfKind(fs, "CAPTURE")) + 1
  BY <1>12, <1>13
<1>15. CaptureRecorded(fs, fs4, c, k, new)
  BY <1>9, <1>11, <1>14, Zenon DEF CaptureRecorded
<1> QED
  BY <1>5, <1>15, Zenon

\* The balances after the two journals of a capture.
CaptureJournals(b, after, n, f, t, k) ==
  after = PostLines(PostLines(b, CaptureLines(n, f, t)), Move("cashback", "available", k))

\* What the two journals of a capture do to each account.
LEMMA CapturePosted ==
  ASSUME NEW b \in [Accounts -> Int], NEW n \in Nat, NEW f \in Nat, NEW t \in Nat, NEW k \in Nat,
         NEW after, CaptureJournals(b, after, n, f, t, k)
  PROVE  /\ after["held"] = b["held"] - n /\ after["fee"] = b["fee"] + f
         /\ after["tax"] = b["tax"] + t /\ after["cashback"] = b["cashback"] - k
         /\ after["merchant"] = b["merchant"] + (n - f - t) /\ after["reserve"] = b["reserve"]
<1> DEFINE mid == PostLines(b, CaptureLines(n, f, t))
<1>1. CaptureLines(n, f, t) \in [Accounts -> Int]
  BY CaptureLinesType
<1>2. mid \in [Accounts -> Int] /\ \A a \in Accounts : mid[a] = b[a] + CaptureLines(n, f, t)[a]
  BY <1>1, PostLinesType, Zenon
<1>3. /\ mid["held"] = b["held"] - n /\ mid["fee"] = b["fee"] + f
      /\ mid["tax"] = b["tax"] + t /\ mid["cashback"] = b["cashback"]
      /\ mid["merchant"] = b["merchant"] + (n - f - t) /\ mid["reserve"] = b["reserve"]
  <2>1. /\ CaptureLines(n, f, t)["held"] = -n /\ CaptureLines(n, f, t)["fee"] = f
        /\ CaptureLines(n, f, t)["tax"] = t /\ CaptureLines(n, f, t)["cashback"] = 0
        /\ CaptureLines(n, f, t)["merchant"] = n - f - t /\ CaptureLines(n, f, t)["reserve"] = 0
    BY AccountNames DEF CaptureLines
  <2>2. /\ b["held"] \in Int /\ b["cashback"] \in Int /\ b["reserve"] \in Int
    BY AccountNames
  <2> HIDE DEF mid
  <2> QED
    BY <1>2, <2>1, <2>2, AccountNames
<1> HIDE DEF mid
<1>4. \A a \in Accounts : after[a]
        = IF a = "cashback" THEN mid[a] - k ELSE IF a = "available" THEN mid[a] + k ELSE mid[a]
  <2>1. after = PostLines(mid, Move("cashback", "available", k))
    BY DEF mid, CaptureJournals
  <2> QED
    BY <1>2, <2>1, Posted, AccountNames
<1> QED
  BY <1>3, <1>4, AccountNames, Zenon

NewCapture(p, n, k) == [NoCapture EXCEPT !.payment = p, !.captured = n, !.cashback = k]

\* The capture row that Capture writes, and what it does to the folds.
CaptureAdded(p, c, n, k) ==
  /\ cap'[c].payment = p /\ cap'[c].captured = n /\ cap'[c].cashback = k
  /\ cap'[c].refunded = 0 /\ cap'[c].chargedBack = 0
  /\ \A d \in Captures : d # c => cap'[d] = cap[d]
  /\ \A d \in Captures : cap'[d].refunded + cap'[d].chargedBack <= cap'[d].captured
  /\ CapSum(cap', p, "captured") = CapSum(cap, p, "captured") + n
  /\ CapSum(cap', p, "cashback") = CapSum(cap, p, "cashback") + k
  /\ CapSum(cap', p, "refunded") = CapSum(cap, p, "refunded")
  /\ CapSum(cap', p, "chargedBack") = CapSum(cap, p, "chargedBack")
  /\ Cardinality(CapturesOf(cap', p)) = Cardinality(CapturesOf(cap, p)) + 1

\* A new capture row adds itself to the folds of its payment.
LEMMA CaptureFolds ==
  ASSUME TypeOK, TypeOK', ReturnsStayWithinCapture, NEW p \in Payments, NEW c \in Captures,
         NEW n \in Nat, NEW k \in Nat, cap[c] = NoCapture, cap'[c] = NewCapture(p, n, k),
         \A d \in Captures : d # c => cap'[d] = cap[d]
  PROVE  CaptureAdded(p, c, n, k)
<1>1. cap \in [Captures -> CaptureRecord] /\ cap' \in [Captures -> CaptureRecord]
  BY Zenon DEF TypeOK
<1>2. /\ cap'[c].payment = p /\ cap'[c].captured = n /\ cap'[c].cashback = k
      /\ cap'[c].refunded = 0 /\ cap'[c].chargedBack = 0
  BY DEF NewCapture, NoCapture
<1>3. cap[c].payment # p
  BY NamesAssumption DEF NoCapture
<1>4. \A d \in Captures : cap'[d].refunded + cap'[d].chargedBack <= cap'[d].captured
  BY <1>2 DEF ReturnsStayWithinCapture
<1>5. ASSUME NEW field \in Fields
      PROVE  /\ CapSum(cap', p, field) = CapSum(cap, p, field) + cap'[c][field]
             /\ CapSum(cap, p, field) \in Nat
  <2>1. /\ CapSum(cap', p, field) = CapSum(cap, p, field)
             + (IF cap'[c].payment = p THEN cap'[c][field] ELSE 0)
             - (IF cap[c].payment = p THEN cap[c][field] ELSE 0)
        /\ CapSum(cap, p, field) \in Nat
    BY <1>1, <1>2, CapSumMoves DEF Fields
  <2>2. cap'[c][field] \in Int
    BY <1>1 DEF CaptureRecord, Fields
  <2> QED
    BY <1>2, <1>3, <2>1, <2>2
<1>6. /\ CapSum(cap', p, "captured") = CapSum(cap, p, "captured") + n
      /\ CapSum(cap', p, "cashback") = CapSum(cap, p, "cashback") + k
      /\ CapSum(cap', p, "refunded") = CapSum(cap, p, "refunded")
      /\ CapSum(cap', p, "chargedBack") = CapSum(cap, p, "chargedBack")
  <2>1. /\ cap'[c]["captured"] = n /\ cap'[c]["cashback"] = k
        /\ cap'[c]["refunded"] = 0 /\ cap'[c]["chargedBack"] = 0
    BY <1>2, Zenon
  <2> QED
    BY <1>5, <2>1 DEF Fields
<1>7. Cardinality(CapturesOf(cap', p)) = Cardinality(CapturesOf(cap, p)) + 1
  <2>1. CapturesOf(cap', p) = CapturesOf(cap, p) \cup {c} /\ c \notin CapturesOf(cap, p)
    BY <1>2, <1>3, Zenon DEF CapturesOf
  <2>2. CapturesOf(cap, p) \subseteq Captures
    BY DEF CapturesOf
  <2>3. IsFiniteSet(CapturesOf(cap, p))
    BY <2>2, FiniteAssumption, FS_Subset
  <2>4. Cardinality(CapturesOf(cap, p) \cup {c}) = Cardinality(CapturesOf(cap, p)) + 1
    BY <2>1, <2>3, FS_AddElement, Zenon
  <2> QED
    BY <2>1, <2>4, Zenon
<1> QED
  BY <1>2, <1>4, <1>6, <1>7, ZenonT(30) DEF CaptureAdded

\* The two journals of a capture post what its row counts.
LEMMA CapturePosts ==
  ASSUME TypeOK, NEW p \in Payments, NEW n \in Nat, NEW f \in Nat, NEW t \in Nat, NEW k \in Nat,
         Charged(pay[p], pay'[p], n, f, t, k), CaptureJournals(bal, bal', n, f, t, k)
  PROVE  PostsItsRow(p)
<1>1. bal \in [Accounts -> Int] /\ Counters(pay[p])
  BY CounterTypes DEF TypeOK
<1>2. /\ bal'["held"] = bal["held"] - n /\ bal'["fee"] = bal["fee"] + f
      /\ bal'["tax"] = bal["tax"] + t /\ bal'["cashback"] = bal["cashback"] - k
      /\ bal'["merchant"] = bal["merchant"] + (n - f - t) /\ bal'["reserve"] = bal["reserve"]
  BY <1>1, CapturePosted
<1>3. /\ bal["held"] \in Int /\ bal["fee"] \in Int /\ bal["tax"] \in Int
      /\ bal["cashback"] \in Int /\ bal["merchant"] \in Int /\ bal["reserve"] \in Int
  BY <1>1, AccountNames
<1> QED
  BY <1>1, <1>2, <1>3 DEF PostsItsRow, Charged, Counters, HeldOf, MerchantOf

\* Its cashback returns to the rights of the payment's region.
LEMMA CaptureMovesRights ==
  ASSUME TypeOK, NEW p \in Payments, NEW s \in Regions, NEW n \in Nat, NEW f \in Nat,
         NEW t \in Nat, NEW k \in Nat, Charged(pay[p], pay'[p], n, f, t, k),
         pay[p].region = s, pay'[p].region = s, rights'[s] = rights[s] + k,
         \A r \in Regions \ {s} : rights'[r] = rights[r]
  PROVE  MovesItsRights(p, s)
<1>1. Counters(pay[p]) /\ rights[s] \in Nat
  BY CounterTypes, Zenon DEF TypeOK
<1>2. rights'[s] = rights[s] + BackOf(pay'[p]) - BackOf(pay[p])
  BY <1>1 DEF Charged, Counters, BackOf
<1> QED
  BY <1>2, Zenon DEF MovesItsRights

\* Its facts explain the payment and capture rows.
LEMMA CaptureExplained ==
  ASSUME TypeOK, NEW p \in Payments, NEW c \in Captures, NEW n \in Nat, NEW k \in Nat,
         Explained(p), pay[p].state # "ABSENT", pay'[p].state # "ABSENT",
         pay'[p].cashback = pay[p].cashback + k, cap[c].payment # p, CaptureAdded(p, c, n, k),
         CaptureRecorded(facts[p], facts'[p], c, k, pay'[p])
  PROVE  Explained(p)'
<1>1. ASSUME NEW d \in Captures
      PROVE  CaptureFacts(p, d, cap'[d], facts'[p])
  <2>1. CaptureFacts(p, d, cap[d], facts[p]) /\ cap[d] \in CaptureRecord
    BY Zenon DEF Explained, TypeOK
  <2>2. /\ FactsSum(facts'[p], {"REFUND"}, {d}) = FactsSum(facts[p], {"REFUND"}, {d}) + 0
        /\ FactsSum(facts'[p], {"CHARGEBACK"}, {d}) = FactsSum(facts[p], {"CHARGEBACK"}, {d}) + 0
        /\ FactsSum(facts'[p], {"CASHBACK"}, {d})
             = FactsSum(facts[p], {"CASHBACK"}, {d}) + (IF d = c THEN k ELSE 0)
    BY Zenon DEF CaptureRecorded
  <2>3. /\ FactsSum(facts[p], {"REFUND"}, {d}) \in Nat
        /\ FactsSum(facts[p], {"CHARGEBACK"}, {d}) \in Nat
        /\ FactsSum(facts[p], {"CASHBACK"}, {d}) \in Nat
    BY <2>1 DEF CaptureFacts, CaptureRecord
  <2>4. CASE d = c
    <3>1. /\ cap'[d].payment = p /\ cap'[d].cashback = k
          /\ cap'[d].refunded = 0 /\ cap'[d].chargedBack = 0
      BY <2>4, Zenon DEF CaptureAdded
    <3>2. /\ FactsSum(facts[p], {"REFUND"}, {d}) = 0
          /\ FactsSum(facts[p], {"CHARGEBACK"}, {d}) = 0
          /\ FactsSum(facts[p], {"CASHBACK"}, {d}) = 0
      BY <2>1, <2>4, Zenon DEF CaptureFacts
    <3>3. /\ FactsSum(facts'[p], {"REFUND"}, {d}) = 0
          /\ FactsSum(facts'[p], {"CHARGEBACK"}, {d}) = 0
          /\ FactsSum(facts'[p], {"CASHBACK"}, {d}) = k
      BY <2>2, <2>4, <3>2
    <3> QED
      BY <3>1, <3>3, Zenon DEF CaptureFacts
  <2>5. CASE d # c
    <3>1. cap'[d] = cap[d]
      BY <2>5, Zenon DEF CaptureAdded
    <3>2. /\ FactsSum(facts'[p], {"REFUND"}, {d}) = FactsSum(facts[p], {"REFUND"}, {d})
          /\ FactsSum(facts'[p], {"CHARGEBACK"}, {d}) = FactsSum(facts[p], {"CHARGEBACK"}, {d})
          /\ FactsSum(facts'[p], {"CASHBACK"}, {d}) = FactsSum(facts[p], {"CASHBACK"}, {d})
      BY <2>2, <2>3, <2>5
    <3> QED
      BY <2>1, <3>1, <3>2, Zenon DEF CaptureFacts
  <2> QED
    BY <2>4, <2>5, Zenon
<1>2. OneHold(p)'
  BY Zenon DEF CaptureRecorded, Explained, OneHold
<1>3. CapturesCounted(p)'
  BY Zenon DEF CaptureRecorded, CaptureAdded, Explained, CapturesCounted
<1> QED
  BY <1>1, <1>2, <1>3, Zenon DEF CaptureRecorded, Explained

\* A capture is explained by its facts and its own row: principal leaves the held
\* account for the merchant, fee and tax accounts, and cashback returns to the
\* region's rights.
LEMMA CaptureSInv ==
  ASSUME IInv, IInv', SInv, NEW p \in Payments, NEW c \in Captures, NEW n \in Amounts,
         NEW f \in Charges, NEW t \in Charges, NEW k \in Charges, Capture(p, c, n, f, t, k)
  PROVE  SInv'
<1> DEFINE r == pay[p].region
           e == Fact("CAPTURE", "authorization", n)
<1>1. /\ TypeOK /\ TypeOK' /\ ReturnsStayWithinCapture
      /\ n \in Nat /\ f \in Nat /\ t \in Nat /\ k \in Nat
  BY AmountsAssumption, ChargesAssumption DEF IInv, SInv
<1>2. /\ pay[p] \in PaymentRow /\ pay[p].state # "ABSENT" /\ r \in Regions
      /\ facts[p] \in Seq(FactRecord)
  BY <1>1, Zenon DEF Capture, CaptureAllowed, TypeOK
<1>3. /\ pay'[p] = CaptureRow(p, n, f, t, k)
      /\ rights'[r] = rights[r] + k /\ \A q \in Regions \ {r} : rights'[q] = rights[q]
  BY <1>1, <1>2, Zenon DEF Capture, ReturnRights, TypeOK
<1>4. /\ facts'[p] = facts[p] \o <<e>> \o FactIf("FEE", c, f) \o FactIf("TAX", c, t)
                       \o FactIf("CASHBACK", c, k)
      /\ \A q \in Payments : q # p => facts'[q] = facts[q]
  BY <1>1, Zenon DEF Capture, TypeOK
<1>5. facts'[p] = AfterCapture(facts[p], c, n, f, t, k)
  <2>1. e \in FactRecord
    BY <1>1 DEF Fact, FactRecord, Kinds
  <2>2. facts[p] \o <<e>> = Append(facts[p], e)
    BY <1>2, <2>1
  <2> QED
    BY <1>4, <2>2, Zenon DEF AfterCapture
<1>6. OthersSame(p)
  BY <1>1, <1>4, Zenon DEF Capture, TypeOK, OthersSame
<1>7. /\ cap[c] = NoCapture /\ cap'[c] = NewCapture(p, n, k)
      /\ \A d \in Captures : d # c => cap'[d] = cap[d]
  BY <1>1, Zenon DEF Capture, TypeOK, NewCapture
<1>8. CaptureJournals(bal, bal', n, f, t, k)
  BY Zenon DEF Capture, CaptureJournals
<1> HIDE DEF e
<1>9. /\ pay'[p].state # "ABSENT" /\ pay'[p].region = r
      /\ Charged(pay[p], pay'[p], n, f, t, k)
  <2> DEFINE s == captureState(pay[p].authorized, pay[p].captured + n, pay[p].released)
  <2>1. s # "ABSENT"
    BY DEF captureState
  <2>2. pay'[p] = [pay[p] EXCEPT !.state = s, !.captured = @ + n, !.fee = @ + f,
                                 !.tax = @ + t, !.cashback = @ + k, !.version = @ + 1,
                                 !.holdState = holdState(s), !.holdCaptured = pay[p].captured + n]
    BY <1>3, Zenon DEF CaptureRow
  <2> HIDE DEF s
  <2> QED
    BY <1>2, <2>1, <2>2 DEF PaymentRow, Charged
<1>10. CaptureAdded(p, c, n, k)
  BY <1>1, <1>7, CaptureFolds, Zenon
<1>11. Explained(p) /\ FoldsCaptures(p) /\ OnlyCapturesOf(p) /\ cap[c].payment # p
  <2>1. cap[c].payment = "none"
    BY <1>7 DEF NoCapture
  <2> QED
    BY <1>10, <2>1, NamesAssumption, AtPayment, ZenonT(30) DEF OnlyCapturesOf, CaptureAdded
<1>12. FoldsCaptures(p)'
  BY <1>9, <1>10, <1>11, ZenonT(30) DEF FoldsCaptures, Charged, CaptureAdded
<1>13. BalancesExplained'
  <2>1. PostsItsRow(p) /\ BalancesExplained
    BY <1>1, <1>8, <1>9, CapturePosts, Zenon DEF SInv
  <2> QED
    BY <1>1, <1>6, <2>1, BalancesStep
<1>14. RegionalRightsExplained'
  <2>1. MovesItsRights(p, r) /\ RegionalRightsExplained
    BY <1>1, <1>2, <1>3, <1>9, CaptureMovesRights, Zenon DEF SInv
  <2> QED
    BY <1>1, <1>2, <1>6, <2>1, RightsStep, Zenon
<1>15. CaptureRecorded(facts[p], facts'[p], c, k, pay'[p])
  <2>1. RowFacts(pay[p], facts[p])
    BY <1>11 DEF Explained
  <2>2. CaptureRecorded(facts[p], AfterCapture(facts[p], c, n, f, t, k), c, k, pay'[p])
    BY <1>1, <1>2, <1>9, <2>1, CaptureFactsFold, Zenon
  <2> QED
    BY <1>5, <2>2, Zenon
<1>16. Explained(p)'
  <2>1. pay'[p].cashback = pay[p].cashback + k
    BY <1>9, Zenon DEF Charged
  <2> QED
    BY <1>1, <1>2, <1>9, <1>10, <1>11, <1>15, <2>1, CaptureExplained, ZenonT(30)
<1> QED
  BY <1>1, <1>6, <1>11, <1>12, <1>13, <1>14, <1>16, StepSInv, ZenonT(30)

-----------------------------------------------------------------------------
\* Every step of the payment service, and stuttering, keeps SInv.
LEMMA NextSInv == IInv /\ IInv' /\ SInv /\ [Next]_vars => SInv'
<1> SUFFICES ASSUME IInv, IInv', SInv, [Next]_vars PROVE SInv'
  OBVIOUS
<1>1. CASE HoldAny
  BY <1>1, HoldSInv DEF HoldAny
<1>2. CASE CaptureAny
  BY <1>2, CaptureSInv DEF CaptureAny
<1>3. CASE ReleaseAny
  BY <1>3, ReleaseSInv DEF ReleaseAny
<1>4. CASE ReversalAny
  BY <1>4, ReleaseSInv DEF ReversalAny
<1>5. CASE RefundAny
  BY <1>5, ReturnSInv DEF RefundAny
<1>6. CASE ChargebackAny
  BY <1>6, ReturnSInv DEF ChargebackAny
<1>7. CASE UNCHANGED vars
  <2>1. BalancesExplained' /\ RegionalRightsExplained'
    BY <1>7, Zenon DEF vars, SInv, BalancesExplained, RegionalRightsExplained
  <2>2. ReturnsStayWithinCapture' /\ FactsExplainRows'
    BY <1>7, Zenon DEF vars, SInv, ReturnsStayWithinCapture, FactsExplainRows, Explained, OneHold, CapturesCounted
  <2> QED
    BY <2>1, <2>2 DEF SInv
<1> QED
  BY <1>1, <1>2, <1>3, <1>4, <1>5, <1>6, <1>7 DEF Next

\* SInv holds in every reachable state of the payment service.
LEMMA SInvHolds == Spec => []SInv
BY InitSInv, NextSInv, IInvHolds, PTL DEF Spec

\* Every account balance is explained by the counters of the payments, whatever was
\* held, captured, released, refunded and charged back in which order.
THEOREM PaymentBalancesExplained == Spec => []BalancesExplained
<1>1. SInv => BalancesExplained
  BY DEF SInv
<1> QED
  BY <1>1, SInvHolds, PTL

\* The rights of a region move with its own payments only, each for what it took
\* from the available account.
THEOREM PaymentRegionalRightsExplained == Spec => []RegionalRightsExplained
<1>1. SInv => RegionalRightsExplained
  BY DEF SInv
<1> QED
  BY <1>1, SInvHolds, PTL

\* No capture is returned beyond its own amount and the payment row is the fold of
\* its capture rows.
THEOREM PaymentReturnsStayWithinCapture == Spec => []ReturnsStayWithinCapture
<1>1. SInv => ReturnsStayWithinCapture
  BY DEF SInv
<1> QED
  BY <1>1, SInvHolds, PTL

\* What the properties call the sum of the facts of p.
LEMMA FactSumIs ==
  ASSUME NEW p \in Payments, NEW kinds, NEW refs
  PROVE  FactSum(p, kinds, refs) = FactsSum(facts[p], kinds, refs)
BY Zenon DEF FactSum, FactsSum

\* The rows that SInv explains leave the reconciliation nothing to report.
LEMMA NothingToReport ==
  ASSUME IInv, SInv, NEW p \in Payments
  PROVE  paymentFindings(p) = {}
<1>1. Explained(p) /\ RowFacts(pay[p], facts[p]) /\ OneHold(p) /\ CapturesCounted(p)
  BY DEF SInv, FactsExplainRows, Explained
<1>2. ASSUME NEW kinds
      PROVE  Folded(p, kinds) = FactsSum(facts[p], kinds, AnyRef)
  BY FactSumIs, Zenon DEF Folded, AnyRef
<1>3. ~aggregateMismatch(p)
  <2>1. /\ Folded(p, {"HOLD"}) = pay[p].authorized /\ Folded(p, {"CAPTURE"}) = pay[p].captured
        /\ Folded(p, {"REFUND"}) = pay[p].refunded
        /\ Folded(p, {"CHARGEBACK"}) = pay[p].chargedBack
        /\ Folded(p, {"FEE"}) = pay[p].fee /\ Folded(p, {"TAX"}) = pay[p].tax
        /\ Folded(p, {"CASHBACK"}) = pay[p].cashback
    BY <1>1, <1>2, Zenon DEF RowFacts
  <2>2. Folded(p, {"RELEASE"}) + FactSum(p, {"REVERSAL"}, {"authorization"}) = pay[p].released
    BY <1>1, <1>2, FactSumIs, Zenon DEF RowFacts
  <2>3. pay[p].cashback = CapSum(cap, p, "cashback")
    BY <1>1 DEF CapturesCounted
  <2> QED
    BY <2>1, <2>2, <2>3, Zenon DEF aggregateMismatch
<1>4. ~captureMissing(p)
  <2>1. OfKind(facts[p], "CAPTURE") = {i \in DOMAIN facts[p] : facts[p][i].kind = "CAPTURE"}
    BY Zenon DEF OfKind
  <2>2. pay[p].captured = CapSum(cap, p, "captured")
    BY DEF SInv, ReturnsStayWithinCapture
  <2> QED
    BY <1>1, <2>1, <2>2, Zenon DEF captureMissing, CapturesCounted
<1>5. ~unlinkedReversal(p)
  <2>1. CASE pay[p].state = "ABSENT"
    <3>1. DOMAIN facts[p] = {}
      BY <1>1, <2>1 DEF OneHold
    <3> QED
      BY <3>1 DEF unlinkedReversal
  <2>2. CASE pay[p].state # "ABSENT"
    <3>1. Cardinality(OfKind(facts[p], "HOLD")) = 1
      BY <1>1, <2>2 DEF OneHold
    <3> QED
      BY <3>1, Zenon DEF unlinkedReversal, OfKind
  <2> QED
    BY <2>1, <2>2
<1>6. ASSUME NEW c \in CapturesOf(cap, p)
      PROVE  ~captureMismatch(c)
  <2>1. c \in Captures /\ cap[c].payment = p
    BY DEF CapturesOf
  <2>2. /\ FactsSum(facts[p], {"REFUND"}, {c}) = cap[c].refunded
        /\ FactsSum(facts[p], {"CHARGEBACK"}, {c}) = cap[c].chargedBack
        /\ FactsSum(facts[p], {"CASHBACK"}, {c}) = cap[c].cashback
    BY <1>1, <2>1, Zenon DEF Explained, CaptureFacts
  <2> QED
    BY <2>1, <2>2, FactSumIs DEF captureMismatch
<1>7. ~cashbackRuleExceeded(p)
  <2>1. Folded(p, {"CASHBACK"}) = pay[p].cashback
    BY <1>1, <1>2, Zenon DEF RowFacts
  <2>2. pay[p] \in PaymentRow /\ pay[p].cashback <= pay[p].rule
    BY Zenon DEF IInv, TypeOK, CountersBounded
  <2> QED
    BY <2>1, <2>2 DEF cashbackRuleExceeded, PaymentRow
<1> QED
  BY <1>3, <1>4, <1>5, <1>6, <1>7, Zenon DEF paymentFindings

\* The daily reconciliation never finds anything to report on payments: counters,
\* capture rows and immutable facts agree after any sequence of operations.
THEOREM PaymentsAlwaysReconcile == Spec => []PaymentsReconcile
<1>1. IInv /\ SInv => PaymentsReconcile
  BY NothingToReport DEF PaymentsReconcile
<1> QED
  BY <1>1, IInvHolds, SInvHolds, PTL

=============================================================================
