------------------------- MODULE PaymentReconciliation -------------------------
(***************************************************************************)
(* The checks of the daily reconciliation on payments                      *)
(* (checkPaymentAggregates and checkPaymentCaptureFinancials of            *)
(* internal/reconciliation): the counters of a payment and of each of its  *)
(* captures against the immutable facts.  A check is the set of its        *)
(* findings.  Reversed cashback, which no operation of the payment service *)
(* writes, is in CashbackRepair; a CAPTURE fact has no reference here, so  *)
(* captured amounts are compared by payment.                               *)
(***************************************************************************)
EXTENDS Payment

Folded(p, kinds) == FactSum(p, kinds, Captures \cup {"none", "authorization"})

aggregateMismatch(p) ==
  \/ pay[p].authorized # Folded(p, {"HOLD"})
  \/ pay[p].captured # Folded(p, {"CAPTURE"})
  \/ pay[p].released # Folded(p, {"RELEASE"}) + FactSum(p, {"REVERSAL"}, {"authorization"})
  \/ pay[p].refunded # Folded(p, {"REFUND"})
  \/ pay[p].chargedBack # Folded(p, {"CHARGEBACK"})
  \/ pay[p].fee # Folded(p, {"FEE"})
  \/ pay[p].tax # Folded(p, {"TAX"})
  \/ pay[p].cashback # CapSum(cap, p, "cashback")
  \/ Folded(p, {"CASHBACK"}) # CapSum(cap, p, "cashback")

\* A capture's row against the facts that name the capture.
captureMismatch(c) ==
  LET p == cap[c].payment
  IN  \/ cap[c].refunded # FactSum(p, {"REFUND"}, {c})
      \/ cap[c].chargedBack # FactSum(p, {"CHARGEBACK"}, {c})
      \/ cap[c].cashback # FactSum(p, {"CASHBACK"}, {c})

\* A CAPTURE fact without a row of its own, or the other way round.
captureMissing(p) ==
  \/ pay[p].captured # CapSum(cap, p, "captured")
  \/ Cardinality({i \in DOMAIN facts[p] : facts[p][i].kind = "CAPTURE"})
       # Cardinality(CapturesOf(cap, p))

\* A REVERSAL must undo exactly one hold.
unlinkedReversal(p) ==
  /\ \E i \in DOMAIN facts[p] : facts[p][i].kind = "REVERSAL"
  /\ Cardinality({i \in DOMAIN facts[p] : facts[p][i].kind = "HOLD"}) # 1

cashbackRuleExceeded(p) == Folded(p, {"CASHBACK"}) > pay[p].rule

paymentFindings(p) ==
  {category \in {"PAYMENT_AGGREGATE_MISMATCH", "PAYMENT_CAPTURE_MISMATCH", "CASHBACK_RULE_EXCEEDED"} :
     \/ category = "PAYMENT_AGGREGATE_MISMATCH" /\ aggregateMismatch(p)
     \/ /\ category = "PAYMENT_CAPTURE_MISMATCH"
        /\ \/ captureMissing(p) \/ unlinkedReversal(p)
           \/ \E c \in CapturesOf(cap, p) : captureMismatch(c)
     \/ category = "CASHBACK_RULE_EXCEEDED" /\ cashbackRuleExceeded(p)}

\* Reconciliation has nothing to report on payments, whatever was held, captured,
\* released, refunded and charged back in which order: every counter of a payment
\* and of each capture is the fold of the immutable facts, so that no two captures
\* have exchanged a refund, every reversal undoes the one hold of its payment, and
\* no payment has more cashback than its rule.
PaymentsReconcile == \A p \in Payments : paymentFindings(p) = {}
=============================================================================
