--------------------------- MODULE MCAuditExport ---------------------------
(***************************************************************************)
(* One book, a customer account that may not go below zero, and requests   *)
(* that are posted or refused: a deposit in two lines to the same account, *)
(* a withdrawal that reuses its effect and one that does not, one that     *)
(* overdraws, and a request that does not balance.                         *)
(***************************************************************************)
EXTENDS AuditExport

CONSTANTS w1, w2

MCAccounts == {"cash", "cust"}
MCBookOf == [a \in MCAccounts |-> "b1"]
MCAssetOf == [a \in MCAccounts |-> "EUR"]
MCNormalOf == [a \in MCAccounts |-> IF a = "cash" THEN "DEBIT" ELSE "CREDIT"]
MCLimitOf == [a \in MCAccounts |-> IF a = "cash" THEN NoLimit ELSE 0]

Request(t, e, l) == [tx |-> t, effect |-> e, book |-> "b1", hash |-> t, lines |-> l]
D(a, n) == Line(a, "DEBIT", n)
C(a, n) == Line(a, "CREDIT", n)

MCRequests ==
  {Request("t1", "e1", <<D("cash", 2), C("cust", 1), C("cust", 1)>>),
   Request("t2", "e1", <<D("cust", 1), C("cash", 1)>>),
   Request("t3", "e2", <<D("cust", 1), C("cash", 1)>>),
   Request("t4", "e3", <<D("cust", 3), C("cash", 3)>>),
   Request("t5", "e4", <<D("cash", 2), C("cust", 1)>>)}
MCSinks == <<"archive", "anchor">>
=============================================================================
