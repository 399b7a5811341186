----------------------------- MODULE MCDelivery -----------------------------
(* One valid and one invalid event, two publishers and two group members.  *)
EXTENDS Delivery

CONSTANTS e1, e2, p1, p2, c1, c2
=============================================================================
