-------------------------- MODULE MCEscrowTransfer --------------------------
(***************************************************************************)
(* Three regions, two of them in one database.  The transfer identifier t1 *)
(* is used by both databases for different transfers, and t2 is asked for  *)
(* twice with different content.  One region rotates its keys.             *)
(***************************************************************************)
EXTENDS EscrowTransfer

Request(t, r, q, n) == [id |-> t, src |-> r, dst |-> q, amount |-> n]

MCRegions == {"east", "north", "west"}
MCDbOf == [r \in MCRegions |-> IF r = "west" THEN "B" ELSE "A"]
MCGrants == [d \in {"A", "B"} |-> IF d = "A" THEN 2 ELSE 1]
MCMaxEpoch == [r \in MCRegions |-> IF r = "east" THEN 2 ELSE 1]
MCRequests ==
  {Request("t1", "east", "north", 1), Request("t1", "west", "east", 1),
   Request("t2", "north", "west", 1), Request("t2", "east", "west", 2)}
=============================================================================
