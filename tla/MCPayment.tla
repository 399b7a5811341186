----------------------------- MODULE MCPayment -----------------------------
(* Two payments that share one customer, one merchant and two regions.     *)
EXTENDS PaymentReconciliation, TLC

CONSTANTS p1, p2, c1, c2, east, west

MCPayments == {p1, p2}
MCCaptures == {c1, c2}
MCRegions == {east, west}
MCFunded == [r \in MCRegions |-> IF r = east THEN 2 ELSE 1]

Symmetry == Permutations(MCPayments) \cup Permutations(MCCaptures)
=============================================================================
