------------------------- MODULE PaymentFactsProofs -------------------------
(***************************************************************************)
(* What the balances, rights and capture rows behind module Payment have   *)
(* to do with its immutable facts (SInv), and why the operations that post *)
(* one journal and write no capture (hold, release and reversal) keep it,  *)
(* for any finite set of payments, captures and regions.  Every sum is     *)
(* compared before and after a step at the one row the step changes        *)
(* (SumMoves).  Returns and captures are in PaymentReconciliationProofs.   *)
(***************************************************************************)
EXTENDS PaymentReconciliation, PaymentProofs, SumProofs

-----------------------------------------------------------------------------
(* The sums of the properties as functions of the tables they read.        *)

HeldOf(row) == row.authorized - row.captured - row.released

MerchantOf(row) == row.captured - row.fee - row.tax - row.refunded - row.chargedBack

BackOf(row) ==
  row.released + row.refunded + row.chargedBack + row.cashback - row.authorized

Held(t) == [p \in Payments |-> HeldOf(t[p])]

Fee(t) == [p \in Payments |-> t[p].fee]

Tax(t) == [p \in Payments |-> t[p].tax]

Cashback(t) == [p \in Payments |-> -t[p].cashback]

Merchant(t) == [p \in Payments |-> MerchantOf(t[p])]

Back(t) == [p \in Payments |-> BackOf(t[p])]

PaymentsOf(t, r) == {p \in Payments : t[p].region = r}


FactsSum(fs, kinds, refs) ==
  SumFunctionOnSet([i \in DOMAIN fs |-> fs[i].amount], Matching(fs, kinds, refs))

OfKind(fs, kind) == {i \in DOMAIN fs : fs[i].kind = kind}

AnyRef == Captures \cup {"none", "authorization"}

-----------------------------------------------------------------------------
(* The inductive invariant.                                                *)

\* The counters of a payment row are the folds of the payment's facts, by each of
\* the filters that the database functions and the reconciliation use.
RowFacts(row, fs) ==
  /\ FactsSum(fs, {"HOLD"}, AnyRef) = row.authorized
  /\ FactsSum(fs, {"CAPTURE"}, AnyRef) = row.captured
  /\ FactsSum(fs, {"CAPTURE"}, {"authorization"}) = row.captured
  /\ FactsSum(fs, {"RELEASE"}, AnyRef) + FactsSum(fs, {"REVERSAL"}, {"authorization"})
       = row.released
  /\ FactsSum(fs, {"RELEASE", "REVERSAL"}, {"authorization"}) = row.released
  /\ FactsSum(fs, {"REFUND"}, AnyRef) = row.refunded
  /\ FactsSum(fs, {"CHARGEBACK"}, AnyRef) = row.chargedBack
  /\ FactsSum(fs, {"FEE"}, AnyRef) = row.fee
  /\ FactsSum(fs, {"FEE"}, Captures) = row.fee
  /\ FactsSum(fs, {"TAX"}, AnyRef) = row.tax
  /\ FactsSum(fs, {"TAX"}, Captures) = row.tax
  /\ FactsSum(fs, {"CASHBACK"}, AnyRef) = row.cashback

\* What the facts of payment p say of capture c is what the capture's row says, if
\* the capture is one of p's, and nothing otherwise.
CaptureFacts(p, c, rec, fs) ==
  LET own(n) == IF rec.payment = p THEN n ELSE 0
  IN  /\ FactsSum(fs, {"REFUND"}, {c}) = own(rec.refunded)
      /\ FactsSum(fs, {"CHARGEBACK"}, {c}) = own(rec.chargedBack)
      /\ FactsSum(fs, {"CASHBACK"}, {c}) = own(rec.cashback)

\* A payment that was held has one HOLD fact; one that was not has neither facts
\* nor captures.
OneHold(p) ==
  /\ pay[p].state = "ABSENT" => facts[p] = <<>> /\ CapturesOf(cap, p) = {}
  /\ Cardinality(OfKind(facts[p], "HOLD")) = IF pay[p].state = "ABSENT" THEN 0 ELSE 1

\* A payment has a CAPTURE fact for each of its capture rows, and its cashback is
\* that of its captures.
CapturesCounted(p) ==
  /\ Cardinality(OfKind(facts[p], "CAPTURE")) = Cardinality(CapturesOf(cap, p))
  /\ pay[p].cashback = CapSum(cap, p, "cashback")

Explained(p) ==
  /\ RowFacts(pay[p], facts[p])
  /\ \A c \in Captures : CaptureFacts(p, c, cap[c], facts[p])
  /\ OneHold(p)
  /\ CapturesCounted(p)

FactsExplainRows == \A p \in Payments : Explained(p)

SInv ==
  /\ BalancesExplained
  /\ RegionalRightsExplained
  /\ ReturnsStayWithinCapture
  /\ FactsExplainRows

-----------------------------------------------------------------------------
(* What a step shows about the payment p it works on.                      *)

\* The other payments keep their rows and facts.
OthersSame(p) == \A q \in Payments : q # p => pay'[q] = pay[q] /\ facts'[q] = facts[q]

\* The step posts what the payment row changes.
PostsItsRow(p) ==
  /\ bal'["held"] = bal["held"] + HeldOf(pay'[p]) - HeldOf(pay[p])
  /\ bal'["fee"] = bal["fee"] + pay'[p].fee - pay[p].fee
  /\ bal'["tax"] = bal["tax"] + pay'[p].tax - pay[p].tax
  /\ bal'["cashback"] = bal["cashback"] + (-pay'[p].cashback) - (-pay[p].cashback)
  /\ bal'["merchant"] + bal'["reserve"]
       = bal["merchant"] + bal["reserve"] + MerchantOf(pay'[p]) - MerchantOf(pay[p])

\* It moves the rights of the payment's region s by what the payment gives back.
MovesItsRights(p, s) ==
  /\ pay'[p].region = s
  /\ pay[p].region = s \/ pay[p] = NoRow
  /\ rights'[s] = rights[s] + BackOf(pay'[p]) - BackOf(pay[p])
  /\ \A r \in Regions \ {s} : rights'[r] = rights[r]

\* Only captures of payment p, or captures that had none, change.
OnlyCapturesOf(p) ==
  \A d \in Captures : \/ cap'[d] = cap[d]
                      \/ {cap[d].payment, cap'[d].payment} \subseteq {"none", p}

\* The payment row is the fold of its capture rows, none of them returned beyond
\* its amount.
FoldsCaptures(p) ==
  /\ pay[p].captured = CapSum(cap, p, "captured")
  /\ pay[p].refunded = CapSum(cap, p, "refunded")
  /\ pay[p].chargedBack = CapSum(cap, p, "chargedBack")
  /\ \A c \in Captures : cap[c].refunded + cap[c].chargedBack <= cap[c].captured

Counters(row) ==
  /\ row.authorized \in Nat /\ row.captured \in Nat /\ row.released \in Nat
  /\ row.refunded \in Nat /\ row.chargedBack \in Nat
  /\ row.fee \in Nat /\ row.tax \in Nat /\ row.cashback \in Nat

\* The counters are natural numbers, so what is computed from them is a number.
LEMMA CounterTypes ==
  ASSUME NEW row \in PaymentRow
  PROVE  /\ Counters(row)
         /\ HeldOf(row) \in Int /\ MerchantOf(row) \in Int /\ BackOf(row) \in Int
<1>1. Counters(row)
  BY DEF PaymentRow, Counters
<1> QED
  BY <1>1 DEF Counters, HeldOf, MerchantOf, BackOf

-----------------------------------------------------------------------------
(* How the sums move.                                                      *)

\* Changing a column at one payment changes its sum by that payment.
LEMMA ColumnMoves ==
  ASSUME NEW f \in [Payments -> Int], NEW g \in [Payments -> Int], NEW p \in Payments,
         \A q \in Payments : q # p => g[q] = f[q]
  PROVE  PaySum(g) = PaySum(f) + g[p] - f[p]
BY FiniteAssumption, SumChange DEF PaySum

\* The balances stay explained by a step that posts what its row changes.
LEMMA BalancesStep ==
  ASSUME TypeOK, TypeOK', BalancesExplained, NEW p \in Payments, OthersSame(p), PostsItsRow(p)
  PROVE  BalancesExplained'
<1>1. \A q \in Payments : pay[q] \in PaymentRow /\ pay'[q] \in PaymentRow /\ (q # p => pay'[q] = pay[q])
  BY Zenon DEF TypeOK, OthersSame
<1>2. \A q \in Payments : Counters(pay[q]) /\ Counters(pay'[q])
  BY <1>1, CounterTypes
<1>3. /\ bal["held"] = PaySum(Held(pay)) /\ bal["fee"] = PaySum(Fee(pay))
      /\ bal["tax"] = PaySum(Tax(pay)) /\ bal["cashback"] = PaySum(Cashback(pay))
      /\ bal["merchant"] + bal["reserve"] = PaySum(Merchant(pay))
  BY Zenon DEF BalancesExplained, Held, HeldOf, Fee, Tax, Cashback, Merchant, MerchantOf
<1>4. bal'["held"] = PaySum(Held(pay'))
  <2>1. /\ Held(pay) \in [Payments -> Int] /\ Held(pay') \in [Payments -> Int]
        /\ \A q \in Payments : q # p => Held(pay')[q] = Held(pay)[q]
    BY <1>1, CounterTypes, Zenon DEF Held
  <2>2. PaySum(Held(pay')) = PaySum(Held(pay)) + Held(pay')[p] - Held(pay)[p]
    BY <2>1, ColumnMoves, Zenon
  <2> QED
    BY <1>3, <2>2, Zenon DEF PostsItsRow, Held
<1>5. bal'["fee"] = PaySum(Fee(pay'))
  <2>1. /\ Fee(pay) \in [Payments -> Int] /\ Fee(pay') \in [Payments -> Int]
        /\ \A q \in Payments : q # p => Fee(pay')[q] = Fee(pay)[q]
    BY <1>1, <1>2 DEF Fee, Counters
  <2>2. PaySum(Fee(pay')) = PaySum(Fee(pay)) + Fee(pay')[p] - Fee(pay)[p]
    BY <2>1, ColumnMoves, Zenon
  <2> QED
    BY <1>3, <2>2, Zenon DEF PostsItsRow, Fee
<1>6. bal'["tax"] = PaySum(Tax(pay'))
  <2>1. /\ Tax(pay) \in [Payments -> Int] /\ Tax(pay') \in [Payments -> Int]
        /\ \A q \in Payments : q # p => Tax(pay')[q] = Tax(pay)[q]
    BY <1>1, <1>2 DEF Tax, Counters
  <2>2. PaySum(Tax(pay')) = PaySum(Tax(pay)) + Tax(pay')[p] - Tax(pay)[p]
    BY <2>1, ColumnMoves, Zenon
  <2> QED
    BY <1>3, <2>2, Zenon DEF PostsItsRow, Tax
<1>7. bal'["cashback"] = PaySum(Cashback(pay'))
  <2>1. /\ Cashback(pay) \in [Payments -> Int] /\ Cashback(pay') \in [Payments -> Int]
        /\ \A q \in Payments : q # p => Cashback(pay')[q] = Cashback(pay)[q]
    BY <1>1, <1>2 DEF Cashback, Counters
  <2>2. PaySum(Cashback(pay')) = PaySum(Cashback(pay)) + Cashback(pay')[p] - Cashback(pay)[p]
    BY <2>1, ColumnMoves, Zenon
  <2> QED
    BY <1>3, <2>2, Zenon DEF PostsItsRow, Cashback
<1>8. bal'["merchant"] + bal'["reserve"] = PaySum(Merchant(pay'))
  <2>1. /\ Merchant(pay) \in [Payments -> Int] /\ Merchant(pay') \in [Payments -> Int]
        /\ \A q \in Payments : q # p => Merchant(pay')[q] = Merchant(pay)[q]
    BY <1>1, CounterTypes, Zenon DEF Merchant
  <2>2. PaySum(Merchant(pay')) = PaySum(Merchant(pay)) + Merchant(pay')[p] - Merchant(pay)[p]
    BY <2>1, ColumnMoves, Zenon
  <2> QED
    BY <1>3, <2>2, Zenon DEF PostsItsRow, Merchant
<1> QED
  BY <1>4, <1>5, <1>6, <1>7, <1>8, Zenon
  DEF BalancesExplained, Held, HeldOf, Fee, Tax, Cashback, Merchant, MerchantOf

\* The rights stay explained by a step that moves the rights of the payment's region
\* by what the payment gave back; a payment never leaves its region, and joins it
\* with its hold.
LEMMA RightsStep ==
  ASSUME TypeOK, TypeOK', RegionalRightsExplained, NEW p \in Payments, NEW s \in Regions,
         OthersSame(p), MovesItsRights(p, s)
  PROVE  RegionalRightsExplained'
<1>1. /\ \A q \in Payments : pay[q] \in PaymentRow /\ pay'[q] \in PaymentRow /\ (q # p => pay'[q] = pay[q])
      /\ \A r \in Regions : rights[r] \in Nat /\ Funded[r] \in Nat
  BY FundedAssumption, Zenon DEF TypeOK, OthersSame
<1>2. \A q \in Payments : /\ Back(pay)[q] = BackOf(pay[q]) /\ Back(pay)[q] \in Int
                          /\ Back(pay')[q] = BackOf(pay'[q]) /\ Back(pay')[q] \in Int
                          /\ q # p => Back(pay')[q] = Back(pay)[q]
  BY <1>1, CounterTypes, Zenon DEF Back
<1>3. ASSUME NEW r \in Regions
      PROVE  rights'[r] = Funded[r] + SumFunctionOnSet(Back(pay'), PaymentsOf(pay', r))
  <2> DEFINE A == PaymentsOf(pay, r)
             B == PaymentsOf(pay', r)
  <2>1. rights[r] = Funded[r] + SumFunctionOnSet(Back(pay), A)
    BY Zenon DEF RegionalRightsExplained, Back, BackOf, PaymentsOf
  <2>2. /\ A \subseteq Payments /\ B \subseteq Payments /\ A \ {p} = B \ {p}
    BY <1>1, Zenon DEF PaymentsOf
  <2>3. (p \in A <=> pay[p].region = r) /\ (p \in B <=> r = s)
    BY Zenon DEF PaymentsOf, MovesItsRights
  <2>4. IsFiniteSet(A) /\ IsFiniteSet(B)
    BY <2>2, FiniteAssumption, FS_Subset, Zenon
  <2> HIDE DEF A, B
  <2>5. /\ SumFunctionOnSet(Back(pay'), B)
             = SumFunctionOnSet(Back(pay), A) + At(Back(pay'), B, p) - At(Back(pay), A, p)
        /\ SumFunctionOnSet(Back(pay), A) \in Int
    <3>1. /\ \A y \in A : Back(pay)[y] \in Int
          /\ \A y \in B : Back(pay')[y] \in Int
          /\ \A y \in A \cap B : y # p => Back(pay')[y] = Back(pay)[y]
      BY <1>2, <2>2, Zenon
    <3> QED
      BY <2>2, <2>4, <3>1, SumMoves
  <2>6. pay[p] = NoRow => Back(pay)[p] = 0
    BY <1>2 DEF BackOf, NoRow
  <2>7. CASE r = s
    <3>1. At(Back(pay'), B, p) = Back(pay')[p] /\ At(Back(pay), A, p) = Back(pay)[p]
      BY <2>3, <2>6, <2>7, Zenon DEF At, MovesItsRights
    <3>2. rights'[r] = rights[r] + Back(pay')[p] - Back(pay)[p]
      BY <1>2, <2>7, Zenon DEF MovesItsRights
    <3> QED
      BY <1>1, <1>2, <2>1, <2>5, <3>1, <3>2 DEF B
  <2>8. CASE r # s
    <3>1. At(Back(pay'), B, p) = 0 /\ At(Back(pay), A, p) = 0
      BY <2>3, <2>6, <2>8, Zenon DEF At, MovesItsRights
    <3>2. rights'[r] = rights[r]
      BY <2>8, Zenon DEF MovesItsRights
    <3> QED
      BY <2>1, <2>5, <3>1, <3>2 DEF B
  <2> QED
    BY <2>7, <2>8, Zenon
<1> QED
  BY <1>3, Zenon DEF RegionalRightsExplained, Back, BackOf, PaymentsOf

\* Changing one capture row changes the folds over a payment's captures by it.
LEMMA CapSumMoves ==
  ASSUME NEW t \in [Captures -> CaptureRecord], NEW u \in [Captures -> CaptureRecord],
         NEW c \in Captures, \A d \in Captures : d # c => u[d] = t[d], NEW p,
         NEW field \in {"captured", "cashback", "refunded", "chargedBack"}
  PROVE  /\ CapSum(u, p, field) = CapSum(t, p, field)
              + (IF u[c].payment = p THEN u[c][field] ELSE 0)
              - (IF t[c].payment = p THEN t[c][field] ELSE 0)
         /\ CapSum(t, p, field) \in Nat
<1> DEFINE f == [d \in Captures |-> t[d][field]]
           g == [d \in Captures |-> u[d][field]]
           A == CapturesOf(t, p)
           B == CapturesOf(u, p)
<1>1. \A d \in Captures : f[d] \in Nat /\ g[d] \in Nat /\ (d # c => g[d] = f[d])
  BY DEF CaptureRecord
<1>2. A \subseteq Captures /\ B \subseteq Captures /\ A \ {c} = B \ {c}
  BY DEF CapturesOf
<1>3. (c \in A <=> t[c].payment = p) /\ (c \in B <=> u[c].payment = p)
  BY DEF CapturesOf
<1>4. IsFiniteSet(A) /\ IsFiniteSet(B)
  BY <1>2, FiniteAssumption, FS_Subset, Zenon
<1>5. f[c] = t[c][field] /\ g[c] = u[c][field]
  OBVIOUS
<1>6. CapSum(t, p, field) = SumFunctionOnSet(f, A) /\ CapSum(u, p, field) = SumFunctionOnSet(g, B)
  BY Zenon DEF CapSum
<1> HIDE DEF A, B, f, g
<1>7. SumFunctionOnSet(f, A) \in Nat
  BY <1>1, <1>2, <1>4, SumType
<1>8. SumFunctionOnSet(g, B) = SumFunctionOnSet(f, A) + At(g, B, c) - At(f, A, c)
  <2>1. /\ \A y \in A : f[y] \in Int
        /\ \A y \in B : g[y] \in Int
        /\ \A y \in A \cap B : y # c => g[y] = f[y]
    BY <1>1, <1>2
  <2> QED
    BY <1>2, <1>4, <2>1, SumMoves
<1> QED
  BY <1>3, <1>5, <1>6, <1>7, <1>8, ZenonT(30) DEF At

\* What a fact adds to a fold.
Adds(e, kinds, refs) == IF e.kind \in kinds /\ e.ref \in refs THEN e.amount ELSE 0

\* Recording a fact adds it to the folds whose filter it passes.
LEMMA FactsSumAppend ==
  ASSUME NEW fs \in Seq(FactRecord), NEW e \in FactRecord, NEW kinds, NEW refs
  PROVE  /\ FactsSum(Append(fs, e), kinds, refs) = FactsSum(fs, kinds, refs) + Adds(e, kinds, refs)
         /\ FactsSum(fs, kinds, refs) \in Nat
         /\ Adds(e, kinds, refs) \in Nat
<1> DEFINE gs == Append(fs, e)
           x == Len(fs) + 1
           f == [i \in DOMAIN fs |-> fs[i].amount]
           g == [i \in DOMAIN gs |-> gs[i].amount]
           A == Matching(fs, kinds, refs)
           B == Matching(gs, kinds, refs)
<1>1. /\ DOMAIN fs = 1 .. Len(fs) /\ DOMAIN gs = 1 .. x /\ Len(fs) \in Nat
      /\ gs[x] = e /\ \A i \in 1 .. Len(fs) : gs[i] = fs[i]
      /\ \A i \in 1 .. Len(fs) : fs[i] \in FactRecord
  OBVIOUS
<1> HIDE DEF gs, x
<1>2. /\ \A i \in DOMAIN fs : f[i] \in Nat /\ g[i] = f[i]
      /\ \A i \in DOMAIN gs : g[i] \in Int
      /\ g[x] = e.amount
  <2>1. /\ DOMAIN fs \subseteq DOMAIN gs /\ x \in DOMAIN gs
        /\ \A i \in DOMAIN gs : i \in DOMAIN fs \/ i = x
    BY <1>1 DEF x
  <2>2. e.amount \in Nat /\ \A i \in DOMAIN fs : fs[i].amount \in Nat
    BY <1>1 DEF FactRecord
  <2>3. \A i \in DOMAIN gs : g[i] = gs[i].amount
    BY Zenon
  <2>4. \A i \in DOMAIN fs : f[i] = fs[i].amount
    BY Zenon
  <2> QED
    BY <1>1, <2>1, <2>2, <2>3, <2>4
<1>3. A \subseteq DOMAIN fs /\ B \subseteq DOMAIN gs
  BY DEF Matching
<1>4. A \ {x} = B \ {x} /\ x \notin A /\ (x \in B <=> e.kind \in kinds /\ e.ref \in refs)
  BY <1>1 DEF Matching, x
<1>5. IsFiniteSet(A) /\ IsFiniteSet(B)
  <2>1. IsFiniteSet(1 .. Len(fs)) /\ IsFiniteSet(1 .. x)
    BY <1>1, FS_Interval DEF x
  <2>2. IsFiniteSet(DOMAIN fs) /\ IsFiniteSet(DOMAIN gs)
    BY <1>1, <2>1, Zenon
  <2> QED
    BY <1>3, <2>2, FS_Subset
<1>6. /\ FactsSum(fs, kinds, refs) = SumFunctionOnSet(f, A)
      /\ FactsSum(gs, kinds, refs) = SumFunctionOnSet(g, B)
  BY Zenon DEF FactsSum
<1> HIDE DEF f, g, A, B
<1>7. SumFunctionOnSet(f, A) \in Nat
  BY <1>2, <1>3, <1>5, SumType
<1>8. SumFunctionOnSet(g, B) = SumFunctionOnSet(f, A) + At(g, B, x) - At(f, A, x)
  <2>1. /\ \A y \in A : f[y] \in Int
        /\ \A y \in B : g[y] \in Int
        /\ \A y \in A \cap B : y # x => g[y] = f[y]
    BY <1>2, <1>3
  <2> QED
    BY <1>4, <1>5, <2>1, SumMoves
<1>9. e.amount \in Nat
  BY DEF FactRecord
<1> QED
  BY <1>2, <1>4, <1>6, <1>7, <1>8, <1>9 DEF At, Adds, gs

\* The folds of no facts are zero.
LEMMA FactsSumEmpty ==
  ASSUME NEW kinds, NEW refs PROVE FactsSum(<<>>, kinds, refs) = 0
<1>1. Matching(<<>>, kinds, refs) = {}
  BY DEF Matching
<1> DEFINE f == [i \in DOMAIN <<>> |-> <<>>[i].amount]
<1>2. FactsSum(<<>>, kinds, refs) = SumFunctionOnSet(f, {})
  BY <1>1, Zenon DEF FactsSum
<1> HIDE DEF f
<1> QED
  BY <1>2, SumEmpty

\* FactIf adds its amount, also when it is zero and no fact is written.
LEMMA FactsSumIf ==
  ASSUME NEW fs \in Seq(FactRecord), NEW kind \in Kinds, NEW ref \in AnyRef, NEW n \in Nat,
         NEW kinds, NEW refs
  PROVE  /\ fs \o FactIf(kind, ref, n) \in Seq(FactRecord)
         /\ FactsSum(fs \o FactIf(kind, ref, n), kinds, refs)
              = FactsSum(fs, kinds, refs) + (IF kind \in kinds /\ ref \in refs THEN n ELSE 0)
<1> DEFINE e == Fact(kind, ref, n)
<1>1. e \in FactRecord /\ e.kind = kind /\ e.ref = ref /\ e.amount = n
  BY DEF Fact, FactRecord, AnyRef
<1>2. FactsSum(fs, kinds, refs) \in Nat
  BY <1>1, FactsSumAppend, Zenon
<1>3. CASE n > 0
  <2>1. fs \o FactIf(kind, ref, n) = Append(fs, e)
    BY <1>3 DEF FactIf
  <2>2. Append(fs, e) \in Seq(FactRecord)
    BY <1>1
  <2> HIDE DEF e
  <2>3. FactsSum(Append(fs, e), kinds, refs) = FactsSum(fs, kinds, refs) + Adds(e, kinds, refs)
    BY <1>1, FactsSumAppend
  <2> QED
    BY <1>1, <2>1, <2>2, <2>3, Zenon DEF Adds
<1>4. CASE ~(n > 0)
  <2>1. fs \o FactIf(kind, ref, n) = fs
    BY <1>4 DEF FactIf
  <2>2. n = 0
    BY <1>4
  <2> QED
    BY <1>2, <2>1, <2>2
<1> QED
  BY <1>3, <1>4, Zenon

\* Recording a fact counts for its kind.
LEMMA CountAppend ==
  ASSUME NEW fs \in Seq(FactRecord), NEW e \in FactRecord, NEW kind
  PROVE  /\ Cardinality(OfKind(Append(fs, e), kind))
              = Cardinality(OfKind(fs, kind)) + (IF e.kind = kind THEN 1 ELSE 0)
         /\ Cardinality(OfKind(fs, kind)) \in Nat
<1> DEFINE x == Len(fs) + 1
           A == OfKind(fs, kind)
           B == OfKind(Append(fs, e), kind)
<1>1. Len(fs) \in Nat /\ IsFiniteSet(1 .. Len(fs)) /\ x \notin 1 .. Len(fs)
  BY FS_Interval
<1>2. A \subseteq 1 .. Len(fs)
  BY DEF OfKind
<1>3. IsFiniteSet(A) /\ x \notin A
  BY <1>1, <1>2, FS_Subset
<1>4. Cardinality(A) \in Nat
  BY <1>3, FS_CardinalityType
<1>5. B = IF e.kind = kind THEN A \cup {x} ELSE A
  BY DEF OfKind
<1> HIDE DEF A, B, x
<1>6. Cardinality(A \cup {x}) = Cardinality(A) + 1
  BY <1>3, FS_AddElement, Zenon
<1>7. Cardinality(B) = Cardinality(A) + (IF e.kind = kind THEN 1 ELSE 0)
  <2>1. CASE e.kind = kind
    BY <1>5, <1>6, <2>1
  <2>2. CASE e.kind # kind
    BY <1>4, <1>5, <2>2
  <2> QED
    BY <2>1, <2>2
<1> QED
  BY <1>4, <1>7 DEF A, B

\* The same for FactIf of another kind, which counts for nothing.
LEMMA CountIf ==
  ASSUME NEW fs \in Seq(FactRecord), NEW k \in Kinds, NEW ref \in AnyRef, NEW n \in Nat,
         NEW kind, k # kind
  PROVE  Cardinality(OfKind(fs \o FactIf(k, ref, n), kind)) = Cardinality(OfKind(fs, kind))
<1> DEFINE e == Fact(k, ref, n)
<1>1. e \in FactRecord /\ e.kind = k
  BY DEF Fact, FactRecord, AnyRef
<1>2. CASE n > 0
  <2>1. fs \o FactIf(k, ref, n) = Append(fs, e)
    BY <1>2 DEF FactIf
  <2> HIDE DEF e
  <2> QED
    BY <1>1, <2>1, CountAppend
<1>3. CASE ~(n > 0)
  <2>1. fs \o FactIf(k, ref, n) = fs
    BY <1>3 DEF FactIf
  <2> QED
    BY <2>1
<1> QED
  BY <1>2, <1>3

-----------------------------------------------------------------------------
(* What a step leaves alone.                                               *)

Fields == {"captured", "cashback", "refunded", "chargedBack"}

\* The captures of another payment, and their folds, stay what they were.
LEMMA OtherCaptures ==
  ASSUME TypeOK, TypeOK', NEW p \in Payments, NEW q \in Payments, q # p, OnlyCapturesOf(p)
  PROVE  /\ CapturesOf(cap', q) = CapturesOf(cap, q)
         /\ \A field \in Fields : CapSum(cap', q, field) = CapSum(cap, q, field)
<1>1. CapturesOf(cap', q) = CapturesOf(cap, q)
  BY NamesAssumption DEF CapturesOf, OnlyCapturesOf
<1>2. \A d \in CapturesOf(cap, q) : cap'[d] = cap[d]
  BY NamesAssumption DEF CapturesOf, OnlyCapturesOf
<1>3. ASSUME NEW field \in Fields
      PROVE  CapSum(cap', q, field) = CapSum(cap, q, field)
  <2> DEFINE f == [d \in Captures |-> cap[d][field]]
             g == [d \in Captures |-> cap'[d][field]]
             A == CapturesOf(cap, q)
  <2>1. A \subseteq Captures
    BY DEF CapturesOf
  <2>2. \A d \in A : g[d] = f[d] /\ f[d] \in Int
    BY <1>2, <2>1 DEF TypeOK, CaptureRecord, Fields
  <2>3. IsFiniteSet(A)
    BY <2>1, FiniteAssumption, FS_Subset
  <2>4. CapSum(cap', q, field) = SumFunctionOnSet(g, A) /\ CapSum(cap, q, field) = SumFunctionOnSet(f, A)
    BY <1>1, Zenon DEF CapSum
  <2> HIDE DEF f, g, A
  <2>5. SumFunctionOnSet(g, A) = SumFunctionOnSet(f, A)
    BY <2>2, <2>3, SumSame
  <2> QED
    BY <2>4, <2>5
<1> QED
  BY <1>1, <1>3

\* So the facts of another payment keep explaining its rows.
LEMMA OthersExplained ==
  ASSUME TypeOK, TypeOK', NEW p \in Payments, NEW q \in Payments, q # p, OnlyCapturesOf(p),
         pay'[q] = pay[q], facts'[q] = facts[q], Explained(q)
  PROVE  Explained(q)'
<1>1. /\ CapturesOf(cap', q) = CapturesOf(cap, q)
      /\ CapSum(cap', q, "cashback") = CapSum(cap, q, "cashback")
  BY OtherCaptures, Zenon DEF Fields
<1>2. RowFacts(pay[q], facts[q])'
  BY DEF Explained
<1>3. ASSUME NEW c \in Captures
      PROVE  CaptureFacts(q, c, cap'[c], facts'[q])
  <2>1. \/ cap'[c] = cap[c]
        \/ cap[c].payment # q /\ cap'[c].payment # q
    BY NamesAssumption, Zenon DEF OnlyCapturesOf
  <2>2. CaptureFacts(q, c, cap[c], facts[q])
    BY DEF Explained
  <2> QED
    BY <2>1, <2>2, Zenon DEF CaptureFacts
<1>4. OneHold(q)'
  BY <1>1, Zenon DEF Explained, OneHold
<1>5. CapturesCounted(q)'
  <2>1. /\ Cardinality(OfKind(facts[q], "CAPTURE")) = Cardinality(CapturesOf(cap, q))
        /\ pay[q].cashback = CapSum(cap, q, "cashback")
    BY Zenon DEF Explained, CapturesCounted
  <2>2. Cardinality(CapturesOf(cap', q)) = Cardinality(CapturesOf(cap, q))
    BY <1>1, Zenon
  <2> QED
    BY <1>1, <2>1, <2>2, Zenon DEF CapturesCounted
<1> QED
  BY <1>2, <1>3, <1>4, <1>5, Zenon DEF Explained

\* A step on payment p keeps SInv if it keeps it at p.
LEMMA StepSInv ==
  ASSUME TypeOK, TypeOK', SInv, NEW p \in Payments, OthersSame(p), OnlyCapturesOf(p),
         BalancesExplained', RegionalRightsExplained', FoldsCaptures(p)', Explained(p)'
  PROVE  SInv'
<1>1. ReturnsStayWithinCapture'
  <2>1. ASSUME NEW q \in Payments, q # p
        PROVE  FoldsCaptures(q)'
    <3>1. /\ pay[q].captured = CapSum(cap, q, "captured")
          /\ pay[q].refunded = CapSum(cap, q, "refunded")
          /\ pay[q].chargedBack = CapSum(cap, q, "chargedBack")
      BY Zenon DEF SInv, ReturnsStayWithinCapture
    <3>2. \A field \in Fields : CapSum(cap', q, field) = CapSum(cap, q, field)
      BY <2>1, OtherCaptures
    <3> QED
      BY <2>1, <3>1, <3>2, Zenon DEF Fields, FoldsCaptures, OthersSame
  <2> QED
    BY <2>1, Zenon DEF ReturnsStayWithinCapture, FoldsCaptures
<1>2. FactsExplainRows'
  <2>1. ASSUME NEW q \in Payments, q # p
        PROVE  Explained(q)'
    <3>1. Explained(q) /\ pay'[q] = pay[q] /\ facts'[q] = facts[q]
      BY <2>1 DEF SInv, FactsExplainRows, OthersSame
    <3> QED
      BY <2>1, <3>1, OthersExplained, Zenon
  <2> QED
    BY <2>1 DEF FactsExplainRows
<1> QED
  BY <1>1, <1>2 DEF SInv

-----------------------------------------------------------------------------
(* Operations that move one amount and record one fact.                    *)

\* The new lines of a posting, account by account.
LEMMA Posted ==
  ASSUME NEW b \in [Accounts -> Int], NEW from \in Accounts, NEW to \in Accounts,
         from # to, NEW n \in Int
  PROVE  \A a \in Accounts : PostLines(b, Move(from, to, n))[a]
           = IF a = from THEN b[a] - n ELSE IF a = to THEN b[a] + n ELSE b[a]
BY DEF PostLines, Move

\* The accounts by name.
LEMMA AccountNames ==
  /\ "available" \in Accounts /\ "held" \in Accounts /\ "merchant" \in Accounts
  /\ "reserve" \in Accounts /\ "fee" \in Accounts /\ "tax" \in Accounts
  /\ "cashback" \in Accounts /\ "funding" \in Accounts
BY DEF Accounts

\* new is old with n more of what a fact of this kind counts.
Grown(old, new, kind, n) ==
  /\ new.authorized = IF kind \in {"HOLD"} THEN old.authorized + n ELSE old.authorized
  /\ new.captured = IF kind \in {"CAPTURE"} THEN old.captured + n ELSE old.captured
  /\ new.released = IF kind \in {"RELEASE", "REVERSAL"} THEN old.released + n ELSE old.released
  /\ new.refunded = IF kind \in {"REFUND"} THEN old.refunded + n ELSE old.refunded
  /\ new.chargedBack = IF kind \in {"CHARGEBACK"} THEN old.chargedBack + n ELSE old.chargedBack
  /\ new.fee = IF kind \in {"FEE"} THEN old.fee + n ELSE old.fee
  /\ new.tax = IF kind \in {"TAX"} THEN old.tax + n ELSE old.tax
  /\ new.cashback = IF kind \in {"CASHBACK"} THEN old.cashback + n ELSE old.cashback

\* The references that the operations give to facts of a kind.
RefOf(kind, ref) ==
  /\ kind \in {"CAPTURE", "RELEASE", "REVERSAL"} => ref = "authorization"
  /\ kind \in {"FEE", "TAX"} => ref \in Captures

\* One more fact explains a row that has grown by it.
LEMMA RowFactsAppend ==
  ASSUME NEW fs \in Seq(FactRecord), NEW e \in FactRecord, RefOf(e.kind, e.ref),
         NEW old, NEW new, RowFacts(old, fs), Grown(old, new, e.kind, e.amount)
  PROVE  RowFacts(new, Append(fs, e))
<1> DEFINE gs == Append(fs, e)
           grows(K, v) == IF e.kind \in K THEN v + e.amount ELSE v
<1>0. /\ e.kind \in {"CAPTURE"} => e.ref \in {"authorization"}
      /\ e.kind \in {"RELEASE", "REVERSAL"} => e.ref \in {"authorization"}
      /\ e.kind \in {"FEE"} => e.ref \in Captures
      /\ e.kind \in {"TAX"} => e.ref \in Captures
  BY DEF RefOf
<1>1. e.amount \in Nat /\ e.ref \in AnyRef
  BY DEF FactRecord, AnyRef
<1>2. ASSUME NEW K, NEW R, e.kind \in K => e.ref \in R
      PROVE  FactsSum(gs, K, R) = grows(K, FactsSum(fs, K, R)) /\ FactsSum(fs, K, R) \in Nat
  <2>1. /\ FactsSum(gs, K, R) = FactsSum(fs, K, R) + Adds(e, K, R)
        /\ FactsSum(fs, K, R) \in Nat
    BY FactsSumAppend
  <2>2. Adds(e, K, R) = IF e.kind \in K THEN e.amount ELSE 0
    BY <1>2 DEF Adds
  <2> QED
    BY <2>1, <2>2
<1> HIDE DEF gs
<1>3. FactsSum(gs, {"HOLD"}, AnyRef) = new.authorized
  BY <1>1, <1>2 DEF RowFacts, Grown
<1>4. FactsSum(gs, {"CAPTURE"}, AnyRef) = new.captured
  BY <1>1, <1>2 DEF RowFacts, Grown
<1>5. FactsSum(gs, {"CAPTURE"}, {"authorization"}) = new.captured
  BY <1>0, <1>2 DEF RowFacts, Grown
<1>6. FactsSum(gs, {"RELEASE", "REVERSAL"}, {"authorization"}) = new.released
  BY <1>0, <1>2 DEF RowFacts, Grown
<1>7. FactsSum(gs, {"REFUND"}, AnyRef) = new.refunded
  BY <1>1, <1>2 DEF RowFacts, Grown
<1>8. FactsSum(gs, {"CHARGEBACK"}, AnyRef) = new.chargedBack
  BY <1>1, <1>2 DEF RowFacts, Grown
<1>9. FactsSum(gs, {"FEE"}, AnyRef) = new.fee
  BY <1>1, <1>2 DEF RowFacts, Grown
<1>10. FactsSum(gs, {"FEE"}, Captures) = new.fee
  BY <1>0, <1>2 DEF RowFacts, Grown
<1>11. FactsSum(gs, {"TAX"}, AnyRef) = new.tax
  BY <1>1, <1>2 DEF RowFacts, Grown
<1>12. FactsSum(gs, {"TAX"}, Captures) = new.tax
  BY <1>0, <1>2 DEF RowFacts, Grown
<1>13. FactsSum(gs, {"CASHBACK"}, AnyRef) = new.cashback
  BY <1>1, <1>2 DEF RowFacts, Grown
<1>14. FactsSum(gs, {"RELEASE"}, AnyRef) + FactsSum(gs, {"REVERSAL"}, {"authorization"}) = new.released
  <2>1. /\ FactsSum(gs, {"RELEASE"}, AnyRef) = grows({"RELEASE"}, FactsSum(fs, {"RELEASE"}, AnyRef))
        /\ FactsSum(fs, {"RELEASE"}, AnyRef) \in Nat
    BY <1>1, <1>2, Zenon
  <2>2. /\ FactsSum(gs, {"REVERSAL"}, {"authorization"})
             = grows({"REVERSAL"}, FactsSum(fs, {"REVERSAL"}, {"authorization"}))
        /\ FactsSum(fs, {"REVERSAL"}, {"authorization"}) \in Nat
    BY <1>2, Zenon DEF RefOf
  <2> QED
    BY <1>1, <2>1, <2>2 DEF RowFacts, Grown
<1> QED
  BY <1>3, <1>4, <1>5, <1>6, <1>7, <1>8, <1>9, <1>10, <1>11, <1>12, <1>13, <1>14, ZenonT(30) DEF RowFacts, gs

\* What the facts say of one capture after one more fact.
LEMMA NamedSum ==
  ASSUME NEW fs \in Seq(FactRecord), NEW e \in FactRecord, NEW K, NEW c
  PROVE  /\ FactsSum(Append(fs, e), {K}, {c})
              = FactsSum(fs, {K}, {c}) + (IF e.kind = K /\ e.ref = c THEN e.amount ELSE 0)
         /\ FactsSum(fs, {K}, {c}) \in Nat
BY FactsSumAppend DEF Adds

\* A fact that does not name the capture leaves what the facts say of it.
LEMMA OtherFact ==
  ASSUME NEW fs \in Seq(FactRecord), NEW e \in FactRecord, NEW p, NEW c, NEW rec,
         e.ref # c, CaptureFacts(p, c, rec, fs)
  PROVE  CaptureFacts(p, c, rec, Append(fs, e))
<1>1. ASSUME NEW K
      PROVE  FactsSum(Append(fs, e), {K}, {c}) = FactsSum(fs, {K}, {c})
  <2>1. /\ FactsSum(Append(fs, e), {K}, {c})
             = FactsSum(fs, {K}, {c}) + (IF e.kind = K /\ e.ref = c THEN e.amount ELSE 0)
        /\ FactsSum(fs, {K}, {c}) \in Nat
    BY NamedSum, Zenon
  <2> QED
    BY <2>1
<1>2. /\ FactsSum(Append(fs, e), {"REFUND"}, {c}) = FactsSum(fs, {"REFUND"}, {c})
      /\ FactsSum(Append(fs, e), {"CHARGEBACK"}, {c}) = FactsSum(fs, {"CHARGEBACK"}, {c})
      /\ FactsSum(Append(fs, e), {"CASHBACK"}, {c}) = FactsSum(fs, {"CASHBACK"}, {c})
  BY <1>1, Zenon
<1> QED
  BY <1>2, Zenon DEF CaptureFacts

\* The accounts that an operation of this kind moves its amount between.
Transfers(kind, from, to) ==
  \/ kind = "HOLD" /\ from = "available" /\ to = "held"
  \/ kind \in {"RELEASE", "REVERSAL"} /\ from = "held" /\ to = "available"
  \/ kind \in {"REFUND", "CHARGEBACK"} /\ from \in ReturnAccounts /\ to = "available"

\* A hold, release, reversal, refund or chargeback posts what its row counts.
LEMMA TransferPosts ==
  ASSUME TypeOK, TypeOK', NEW p \in Payments, NEW n \in Nat, NEW kind, NEW from, NEW to,
         Transfers(kind, from, to), Grown(pay[p], pay'[p], kind, n),
         bal' = PostLines(bal, Move(from, to, n))
  PROVE  PostsItsRow(p)
<1>1. Counters(pay[p])
  BY CounterTypes, Zenon DEF TypeOK
<1>2. /\ bal \in [Accounts -> Int] /\ n \in Int /\ from \in Accounts /\ to \in Accounts
      /\ from # to
  <2>1. from \in Accounts /\ to \in Accounts /\ from # to
    BY AccountNames DEF Transfers, ReturnAccounts
  <2>2. bal \in [Accounts -> Int]
    BY Zenon DEF TypeOK
  <2> QED
    BY <2>1, <2>2
<1>3. \A a \in Accounts : bal'[a] = IF a = from THEN bal[a] - n ELSE IF a = to THEN bal[a] + n ELSE bal[a]
  BY <1>2, Posted
<1>4. /\ bal["held"] \in Int /\ bal["fee"] \in Int /\ bal["tax"] \in Int
      /\ bal["cashback"] \in Int /\ bal["merchant"] \in Int /\ bal["reserve"] \in Int
  BY <1>2, AccountNames
<1>5. CASE kind = "HOLD" /\ from = "available" /\ to = "held"
  <2>1. /\ bal'["held"] = bal["held"] + n /\ bal'["fee"] = bal["fee"]
        /\ bal'["tax"] = bal["tax"] /\ bal'["cashback"] = bal["cashback"]
        /\ bal'["merchant"] + bal'["reserve"] = bal["merchant"] + bal["reserve"]
    BY <1>3, <1>5, AccountNames, Zenon
  <2> QED
    BY <1>1, <1>4, <1>5, <2>1 DEF PostsItsRow, Grown, Counters, HeldOf, MerchantOf
<1>6. CASE kind \in {"RELEASE", "REVERSAL"} /\ from = "held" /\ to = "available"
  <2>1. /\ bal'["held"] = bal["held"] - n /\ bal'["fee"] = bal["fee"]
        /\ bal'["tax"] = bal["tax"] /\ bal'["cashback"] = bal["cashback"]
        /\ bal'["merchant"] + bal'["reserve"] = bal["merchant"] + bal["reserve"]
    BY <1>3, <1>6, AccountNames, Zenon
  <2> QED
    BY <1>1, <1>4, <1>6, <2>1 DEF PostsItsRow, Grown, Counters, HeldOf, MerchantOf
<1>7. CASE kind \in {"REFUND", "CHARGEBACK"} /\ from \in ReturnAccounts /\ to = "available"
  <2>1. /\ bal'["held"] = bal["held"] /\ bal'["fee"] = bal["fee"]
        /\ bal'["tax"] = bal["tax"] /\ bal'["cashback"] = bal["cashback"]
        /\ bal'["merchant"] + bal'["reserve"] = bal["merchant"] + bal["reserve"] - n
    BY <1>3, <1>4, <1>7, AccountNames DEF ReturnAccounts
  <2> QED
    BY <1>1, <1>4, <1>7, <2>1 DEF PostsItsRow, Grown, Counters, HeldOf, MerchantOf
<1> QED
  BY <1>5, <1>6, <1>7 DEF Transfers

\* It takes its amount from the rights of the payment's region, or gives it back.
LEMMA TransferMovesRights ==
  ASSUME TypeOK, NEW p \in Payments, NEW s \in Regions, NEW n \in Nat,
         NEW kind \in {"HOLD", "RELEASE", "REVERSAL", "REFUND", "CHARGEBACK"},
         Grown(pay[p], pay'[p], kind, n),
         pay'[p].region = s, pay[p].region = s \/ pay[p] = NoRow,
         rights'[s] = IF kind = "HOLD" THEN rights[s] - n ELSE rights[s] + n,
         \A r \in Regions \ {s} : rights'[r] = rights[r]
  PROVE  MovesItsRights(p, s)
<1>1. Counters(pay[p]) /\ rights[s] \in Nat
  BY CounterTypes, Zenon DEF TypeOK
<1>2. rights'[s] = rights[s] + BackOf(pay'[p]) - BackOf(pay[p])
  BY <1>1 DEF Grown, Counters, BackOf
<1> QED
  BY <1>2, Zenon DEF MovesItsRights

\* Its one fact explains the row it changes, if it explains the captures.
LEMMA TransferExplained ==
  ASSUME TypeOK, NEW p \in Payments, Explained(p), NEW e \in FactRecord, RefOf(e.kind, e.ref),
         facts'[p] = Append(facts[p], e), Grown(pay[p], pay'[p], e.kind, e.amount),
         e.kind \notin {"CAPTURE", "CASHBACK"}, pay'[p].state # "ABSENT",
         e.kind = "HOLD" <=> pay[p].state = "ABSENT",
         \A d \in Captures : CaptureFacts(p, d, cap'[d], facts'[p]),
         Cardinality(CapturesOf(cap', p)) = Cardinality(CapturesOf(cap, p)),
         CapSum(cap', p, "cashback") = CapSum(cap, p, "cashback")
  PROVE  Explained(p)'
<1>1. facts[p] \in Seq(FactRecord)
  BY Zenon DEF TypeOK
<1>2. RowFacts(pay'[p], facts'[p])
  <2>1. RowFacts(pay[p], facts[p])
    BY Zenon DEF Explained
  <2>2. RowFacts(pay'[p], Append(facts[p], e))
    BY <1>1, <2>1, RowFactsAppend, Zenon
  <2> QED
    BY <2>2, Zenon
<1>3. /\ Cardinality(OfKind(facts'[p], "HOLD"))
           = Cardinality(OfKind(facts[p], "HOLD")) + (IF e.kind = "HOLD" THEN 1 ELSE 0)
      /\ Cardinality(OfKind(facts'[p], "CAPTURE")) = Cardinality(OfKind(facts[p], "CAPTURE"))
  BY <1>1, CountAppend
<1>4. OneHold(p)'
  BY <1>3 DEF Explained, OneHold
<1>5. CapturesCounted(p)'
  BY <1>3, Zenon DEF Explained, CapturesCounted, Grown
<1> QED
  BY <1>2, <1>4, <1>5, Zenon DEF Explained

-----------------------------------------------------------------------------
(* The initial state and each operation.                                   *)

\* Without payments there is nothing to explain.
LEMMA InitSInv == Init => SInv
<1> SUFFICES ASSUME Init PROVE SInv
  OBVIOUS
<1>1. /\ pay = [p \in Payments |-> NoRow] /\ cap = [c \in Captures |-> NoCapture]
      /\ facts = [p \in Payments |-> <<>>] /\ bal = Move("funding", "available", Funds)
      /\ rights = Funded
  BY DEF Init
<1>2. TypeOK
  BY InitIInv DEF IInv
<1>3. \A p \in Payments : pay[p] = NoRow /\ facts[p] = <<>>
  BY <1>1
<1>4. \A a \in Accounts \ {"funding", "available"} : bal[a] = 0
  BY <1>1 DEF Move
<1>5. BalancesExplained
  <2>1. \A p \in Payments : /\ Held(pay)[p] = 0 /\ Fee(pay)[p] = 0 /\ Tax(pay)[p] = 0
                            /\ Cashback(pay)[p] = 0 /\ Merchant(pay)[p] = 0
    BY <1>3 DEF NoRow, Held, HeldOf, Fee, Tax, Cashback, Merchant, MerchantOf
  <2>2. /\ PaySum(Held(pay)) = 0 /\ PaySum(Fee(pay)) = 0 /\ PaySum(Tax(pay)) = 0
        /\ PaySum(Cashback(pay)) = 0 /\ PaySum(Merchant(pay)) = 0
    BY <2>1, FiniteAssumption, SumZero, Zenon DEF PaySum
  <2>3. /\ bal["held"] = 0 /\ bal["fee"] = 0 /\ bal["tax"] = 0 /\ bal["cashback"] = 0
        /\ bal["merchant"] + bal["reserve"] = 0
    BY <1>4 DEF Accounts
  <2>4. /\ bal["held"] = PaySum(Held(pay)) /\ bal["fee"] = PaySum(Fee(pay))
        /\ bal["tax"] = PaySum(Tax(pay)) /\ bal["cashback"] = PaySum(Cashback(pay))
        /\ bal["merchant"] + bal["reserve"] = PaySum(Merchant(pay))
    BY <2>2, <2>3, Zenon
  <2> QED
    BY <2>4, Zenon
    DEF BalancesExplained, Held, HeldOf, Fee, Tax, Cashback, Merchant, MerchantOf
<1>6. RegionalRightsExplained
  <2>1. ASSUME NEW r \in Regions
        PROVE  rights[r] = Funded[r] + SumFunctionOnSet(Back(pay), PaymentsOf(pay, r))
    <3>1. PaymentsOf(pay, r) \subseteq Payments
      BY DEF PaymentsOf
    <3>2. \A p \in PaymentsOf(pay, r) : Back(pay)[p] = 0
      BY <1>3, <3>1 DEF Back, BackOf, NoRow
    <3>3. IsFiniteSet(PaymentsOf(pay, r))
      BY <3>1, FiniteAssumption, FS_Subset
    <3>4. SumFunctionOnSet(Back(pay), PaymentsOf(pay, r)) = 0
      BY <3>2, <3>3, SumZero
    <3> QED
      BY <1>1, <3>4, FundedAssumption
  <2> QED
    BY <2>1, Zenon DEF RegionalRightsExplained, Back, BackOf, PaymentsOf
<1>7. \A p \in Payments : CapturesOf(cap, p) = {}
  BY <1>1, NamesAssumption, Zenon DEF CapturesOf, NoCapture
<1>8. \A p \in Payments, field \in Fields : CapSum(cap, p, field) = 0
  <2> SUFFICES ASSUME NEW p \in Payments, NEW field \in Fields
               PROVE  CapSum(cap, p, field) = 0
    OBVIOUS
  <2>1. CapSum(cap, p, field) = SumFunctionOnSet([c \in Captures |-> cap[c][field]], {})
    BY <1>7, Zenon DEF CapSum
  <2> QED
    BY <2>1, SumEmpty, Zenon
<1>9. ReturnsStayWithinCapture
  <2>1. \A c \in Captures : cap[c].refunded + cap[c].chargedBack <= cap[c].captured
    BY <1>1 DEF NoCapture
  <2>2. \A p \in Payments : pay[p].captured = 0 /\ pay[p].refunded = 0 /\ pay[p].chargedBack = 0
    BY <1>3 DEF NoRow
  <2> QED
    BY <1>8, <2>1, <2>2, Zenon DEF ReturnsStayWithinCapture, Fields
<1>10. ASSUME NEW p \in Payments
       PROVE  Explained(p)
  <2>1. \A K, R : FactsSum(facts[p], K, R) = 0
    BY <1>3, FactsSumEmpty
  <2>2. RowFacts(pay[p], facts[p])
    BY <1>3, <2>1 DEF RowFacts, NoRow
  <2>3. \A c \in Captures : CaptureFacts(p, c, cap[c], facts[p])
    BY <1>1, <2>1, Zenon DEF CaptureFacts, NoCapture
  <2>4. \A kind : Cardinality(OfKind(facts[p], kind)) = 0
    <3>1. \A kind : OfKind(facts[p], kind) = {}
      BY <1>3 DEF OfKind
    <3> QED
      BY <3>1, FS_EmptySet, Zenon
  <2>5. OneHold(p)
    BY <1>3, <1>7, <2>4 DEF OneHold, NoRow
  <2>6. CapturesCounted(p)
    <3>1. Cardinality(CapturesOf(cap, p)) = 0
      BY <1>7, FS_EmptySet, Zenon
    <3> QED
      BY <1>3, <1>8, <2>4, <3>1 DEF CapturesCounted, NoRow, Fields
  <2> QED
    BY <2>2, <2>3, <2>5, <2>6 DEF Explained
<1> QED
  BY <1>5, <1>6, <1>9, <1>10 DEF SInv, FactsExplainRows

\* SInv of one payment.
LEMMA AtPayment ==
  ASSUME SInv, NEW p \in Payments
  PROVE  Explained(p) /\ FoldsCaptures(p)
BY Zenon DEF SInv, FactsExplainRows, ReturnsStayWithinCapture, FoldsCaptures

\* A step that leaves the captures alone and records a fact that names none of them.
LEMMA CapturesAlone ==
  ASSUME TypeOK, SInv, NEW p \in Payments, cap' = cap, NEW e \in FactRecord, e.ref \notin Captures,
         facts'[p] = Append(facts[p], e), pay'[p].captured = pay[p].captured,
         pay'[p].refunded = pay[p].refunded, pay'[p].chargedBack = pay[p].chargedBack
  PROVE  /\ \A c \in Captures : CaptureFacts(p, c, cap'[c], facts'[p])
         /\ FoldsCaptures(p)' /\ OnlyCapturesOf(p)
<1>1. Explained(p) /\ FoldsCaptures(p) /\ facts[p] \in Seq(FactRecord)
  BY AtPayment, Zenon DEF TypeOK
<1>2. ASSUME NEW c \in Captures PROVE CaptureFacts(p, c, cap'[c], facts'[p])
  <2>1. e.ref # c /\ CaptureFacts(p, c, cap[c], facts[p])
    BY <1>1, Zenon DEF Explained
  <2> QED
    BY <1>1, <2>1, OtherFact, Zenon
<1> QED
  BY <1>1, <1>2, Zenon DEF FoldsCaptures, OnlyCapturesOf

\* A hold that opens is explained by its one HOLD fact; the held account and the
\* region's rights move by the amount authorized.
LEMMA HoldSInv ==
  ASSUME IInv, IInv', SInv, NEW p \in Payments, NEW r \in Regions, NEW n \in Amounts,
         NEW m \in Charges, Hold(p, r, n, m)
  PROVE  SInv'
<1> DEFINE e == Fact("HOLD", "none", n)
<1>1. TypeOK /\ TypeOK' /\ n \in Nat
  BY AmountsAssumption DEF IInv
<1>2. /\ pay'[p] = HoldRow(r, n, m) /\ facts'[p] = <<e>>
      /\ rights'[r] = rights[r] - n /\ \A s \in Regions \ {r} : rights'[s] = rights[s]
  BY <1>1, Zenon DEF Hold, SpendRights, TypeOK
<1>3. OthersSame(p)
  BY <1>1, Zenon DEF Hold, TypeOK, OthersSame
<1>4. pay[p] = NoRow /\ cap' = cap /\ bal' = PostLines(bal, Move("available", "held", n))
  BY Zenon DEF Hold
<1>5. pay'[p].state = "HELD" /\ pay'[p].region = r /\ Grown(pay[p], pay'[p], "HOLD", n)
  BY <1>1, <1>2, <1>4 DEF HoldRow, NoRow, Grown
<1>6. BalancesExplained'
  <2>1. Transfers("HOLD", "available", "held") /\ BalancesExplained
    BY DEF Transfers, SInv
  <2>2. PostsItsRow(p)
    BY <1>1, <1>4, <1>5, <2>1, TransferPosts, Zenon
  <2> QED
    BY <1>1, <1>3, <2>1, <2>2, BalancesStep
<1>7. RegionalRightsExplained'
  <2>1. MovesItsRights(p, r)
    BY <1>1, <1>2, <1>4, <1>5, TransferMovesRights, Zenon
  <2>2. RegionalRightsExplained
    BY DEF SInv
  <2> QED
    BY <1>1, <1>3, <2>1, <2>2, RightsStep
<1>8. e \in FactRecord /\ e.kind = "HOLD" /\ e.ref = "none" /\ e.amount = n
  BY <1>1 DEF Fact, FactRecord, Kinds
<1>9. facts'[p] = Append(facts[p], e) /\ pay[p].state = "ABSENT"
  <2>1. pay[p].state = "ABSENT" /\ Explained(p)
    BY <1>4, AtPayment DEF NoRow
  <2>2. facts[p] = <<>>
    BY <2>1, Zenon DEF Explained, OneHold
  <2>3. Append(facts[p], e) = <<e>>
    BY <2>2
  <2> QED
    BY <1>2, <2>1, <2>3, Zenon
<1> HIDE DEF e
<1>10. /\ \A c \in Captures : CaptureFacts(p, c, cap'[c], facts'[p])
       /\ FoldsCaptures(p)' /\ OnlyCapturesOf(p)
  <2>1. /\ e.ref \notin Captures /\ pay'[p].captured = pay[p].captured
        /\ pay'[p].refunded = pay[p].refunded /\ pay'[p].chargedBack = pay[p].chargedBack
    BY <1>5, <1>8, NamesAssumption, Zenon DEF Grown
  <2> QED
    BY <1>1, <1>4, <1>8, <1>9, <2>1, CapturesAlone, ZenonT(30)
<1>11. Explained(p)'
  <2>1. /\ RefOf(e.kind, e.ref) /\ Explained(p) /\ e.kind \notin {"CAPTURE", "CASHBACK"}
        /\ Grown(pay[p], pay'[p], e.kind, e.amount) /\ pay'[p].state # "ABSENT"
        /\ e.kind = "HOLD" <=> pay[p].state = "ABSENT"
    BY <1>5, <1>8, <1>9, AtPayment, Zenon DEF RefOf
  <2> QED
    BY <1>1, <1>4, <1>8, <1>9, <1>10, <2>1, TransferExplained, ZenonT(30)
<1> QED
  BY <1>1, <1>3, <1>6, <1>7, <1>10, <1>11, StepSInv, Zenon

\* A release or reversal is explained by its fact; what it gives back leaves the
\* held account and returns to the region's rights.
LEMMA ReleaseSInv ==
  ASSUME IInv, IInv', SInv, NEW p \in Payments, NEW kind \in {"RELEASE", "REVERSAL"},
         NEW n \in Amounts, Release(p, kind, n)
  PROVE  SInv'
<1> DEFINE e == Fact(kind, "authorization", n)
           r == pay[p].region
<1>1. TypeOK /\ TypeOK' /\ n \in Nat
  BY AmountsAssumption DEF IInv
<1>2. pay[p] \in PaymentRow /\ pay[p].state # "ABSENT" /\ r \in Regions
  BY <1>1, Zenon DEF Release, ReleaseAllowed, TypeOK
<1>3. /\ pay'[p] = ReleaseRow(p, n) /\ facts'[p] = Append(facts[p], e)
      /\ rights'[r] = rights[r] + n /\ \A q \in Regions \ {r} : rights'[q] = rights[q]
  BY <1>1, <1>2, Zenon DEF Release, ReturnRights, TypeOK
<1>4. OthersSame(p)
  BY <1>1, Zenon DEF Release, TypeOK, OthersSame
<1>5. cap' = cap /\ bal' = PostLines(bal, Move("held", "available", n))
  BY Zenon DEF Release
<1>6. pay'[p].state # "ABSENT" /\ pay'[p].region = r /\ Grown(pay[p], pay'[p], kind, n)
  <2> DEFINE s == releaseState(pay[p].authorized, pay[p].captured, pay[p].released + n)
  <2>1. s # "ABSENT"
    BY DEF releaseState
  <2>2. pay'[p] = [pay[p] EXCEPT !.state = s, !.released = @ + n, !.version = @ + 1,
                                 !.holdState = holdState(s),
                                 !.holdReleased = pay[p].released + n]
    BY <1>3, Zenon DEF ReleaseRow
  <2> HIDE DEF s
  <2> QED
    BY <1>2, <2>1, <2>2 DEF PaymentRow, Grown
<1>7. BalancesExplained'
  <2>1. Transfers(kind, "held", "available") /\ BalancesExplained
    BY DEF Transfers, SInv
  <2>2. PostsItsRow(p)
    BY <1>1, <1>5, <1>6, <2>1, TransferPosts, Zenon
  <2> QED
    BY <1>1, <1>4, <2>1, <2>2, BalancesStep
<1>8. RegionalRightsExplained'
  <2>1. MovesItsRights(p, r)
    BY <1>1, <1>2, <1>3, <1>6, TransferMovesRights, Zenon
  <2>2. RegionalRightsExplained
    BY DEF SInv
  <2> QED
    BY <1>1, <1>2, <1>4, <2>1, <2>2, RightsStep
<1>9. e \in FactRecord /\ e.kind = kind /\ e.ref = "authorization" /\ e.amount = n
  BY <1>1 DEF Fact, FactRecord, Kinds
<1> HIDE DEF e
<1>10. /\ \A c \in Captures : CaptureFacts(p, c, cap'[c], facts'[p])
       /\ FoldsCaptures(p)' /\ OnlyCapturesOf(p)
  <2>1. /\ e.ref \notin Captures /\ pay'[p].captured = pay[p].captured
        /\ pay'[p].refunded = pay[p].refunded /\ pay'[p].chargedBack = pay[p].chargedBack
    BY <1>6, <1>9, NamesAssumption, Zenon DEF Grown
  <2> QED
    BY <1>1, <1>3, <1>5, <1>9, <2>1, CapturesAlone, Zenon
<1>11. Explained(p)'
  <2>1. /\ RefOf(e.kind, e.ref) /\ Explained(p) /\ e.kind \notin {"CAPTURE", "CASHBACK"}
        /\ Grown(pay[p], pay'[p], e.kind, e.amount) /\ pay'[p].state # "ABSENT"
        /\ e.kind = "HOLD" <=> pay[p].state = "ABSENT"
    BY <1>2, <1>6, <1>9, AtPayment, Zenon DEF RefOf
  <2> QED
    BY <1>1, <1>3, <1>5, <1>9, <1>10, <2>1, TransferExplained, Zenon
<1> QED
  BY <1>1, <1>4, <1>7, <1>8, <1>10, <1>11, StepSInv, Zenon
=============================================================================
