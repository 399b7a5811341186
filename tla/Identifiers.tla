----------------------------- MODULE Identifiers -----------------------------
(***************************************************************************)
(* The identifier generator (internal/idgen): servers reserve blocks of    *)
(* counters from one durable row and hand them out from memory.  A block   *)
(* is lost with its process, and when the answer of the reservation is     *)
(* lost; nothing ever goes back.                                           *)
(***************************************************************************)
EXTENDS Integers, Sequences

CONSTANTS
  Servers,     \* processes that share an issuer
  BlockSize

VARIABLES
  issuer,      \* id_issuers.next_counter
  cache        \* the block of each server: the next counter and the last

NoBlock == [next |-> 0, end |-> 0]

\* Fault: the zero value counts as a block.
LeftTrustingZero(s) == cache[s].end - cache[s].next + 1

\* What Next hands out before it has to allocate.
Left(s) == IF cache[s].next = 0 THEN 0 ELSE cache[s].end - cache[s].next + 1

\* The counters of k calls of Next: the rest of the block, then the next block.
Ids(s, k) ==
  [i \in 1 .. k |-> IF i <= Left(s) THEN cache[s].next + i - 1 ELSE issuer + (i - Left(s)) - 1]

\* k calls of Next, where k is at most BlockSize: reserveBlock runs at most once.
Draw(s, k) ==
  \/ /\ k <= Left(s)
     /\ cache' = [cache EXCEPT ![s].next = @ + k]
     /\ UNCHANGED issuer
  \/ /\ k > Left(s)
     /\ cache' = [cache EXCEPT ![s] = [next |-> issuer + (k - Left(s)), end |-> issuer + BlockSize - 1]]
     /\ issuer' = issuer + BlockSize

\* The reservation commits and its answer is lost: the range is not cached.
ReservationLost(s) ==
  /\ Left(s) = 0
  /\ issuer' = issuer + BlockSize
  /\ UNCHANGED cache

Restart(s) ==
  /\ cache[s] # NoBlock
  /\ cache' = [cache EXCEPT ![s] = NoBlock]
  /\ UNCHANGED issuer

InitIds ==
  /\ issuer = 1
  /\ cache = [s \in Servers |-> NoBlock]
=============================================================================
