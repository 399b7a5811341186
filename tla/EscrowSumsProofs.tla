-------------------------- MODULE EscrowSumsProofs --------------------------
(***************************************************************************)
(* Proofs that escrow rights are conserved, in every database and over all *)
(* of them, and that consumption watermarks are dense, for any number of   *)
(* databases, regions, transfers and effects.  EscrowTransferProofs says   *)
(* what each step moves and where to; SumProofs says what that does to the *)
(* sums over the tables.                                                   *)
(***************************************************************************)
EXTENDS EscrowTransferProofs, SumProofs

-----------------------------------------------------------------------------
(* What a row that changes does to the sums it is part of.                 *)

\* Identifiers, and the pairs that the sums run over, are finitely many.
LEMMA Finite ==
  /\ IsFiniteSet(Databases) /\ IsFiniteSet(Regions) /\ IsFiniteSet(Transfers)
  /\ IsFiniteSet(Databases \X Transfers) /\ IsFiniteSet(Databases \X Effects)
BY FiniteAssumption, FS_Product

\* A step that changes what the regions of one database have, by n.
MovesHeld(d, n) ==
  /\ \A e \in Databases : e # d => Held(e)' = Held(e)
  /\ Held(d)' = Held(d) + n

\* A step that changes what one database has in transit, by n.
MovesOutgoing(d, n) ==
  /\ \A e \in Databases : e # d => Outgoing(e)' = Outgoing(e)
  /\ Outgoing(d)' = Outgoing(d) + n

\* A step that changes one rights row changes the sums that row is part of.
LEMMA RightsMove ==
  ASSUME TypeOK, TypeOK', NEW r \in Regions, NEW n \in Int, MovesRights(r, n)
  PROVE  MovesHeld(DbOf[r], n) /\ InRegions' = InRegions + n
<1> DEFINE f == Available
           g == Available'
<1>1. /\ \A s \in Regions : f[s] \in Int /\ g[s] \in Int
      /\ \A s \in Regions : s # r => g[s] = f[s]
      /\ g[r] = f[r] + n
  <2>1. \A s \in Regions : f[s] = rights[s].available /\ g[s] = rights'[s].available
    BY Zenon DEF Available
  <2>2. \A s \in Regions : rights[s].available \in Int /\ rights'[s].available \in Int
    BY DEF TypeOK
  <2>3. /\ \A s \in Regions : s # r => rights'[s] = rights[s]
        /\ rights'[r].available = rights[r].available + n
    BY Zenon DEF MovesRights
  <2> HIDE DEF f, g
  <2> QED
    BY <2>1, <2>2, <2>3
<1> HIDE DEF f, g
<1>2. ASSUME NEW S \in SUBSET Regions
      PROVE  /\ SumFunctionOnSet(g, S) = SumFunctionOnSet(f, S) + (IF r \in S THEN n ELSE 0)
             /\ SumFunctionOnSet(f, S) \in Int
  <2>1. IsFiniteSet(S)
    BY Finite, FS_Subset
  <2>2. /\ \A s \in S : f[s] \in Int
        /\ \A s \in S : g[s] \in Int
        /\ \A s \in S \cap S : s # r => g[s] = f[s]
    BY <1>1, Zenon
  <2>3. /\ SumFunctionOnSet(g, S) = SumFunctionOnSet(f, S) + At(g, S, r) - At(f, S, r)
        /\ SumFunctionOnSet(f, S) \in Int
    BY <2>1, <2>2, SumMoves
  <2> QED
    BY <1>1, <2>3 DEF At
<1>3. ASSUME NEW d \in Databases
      PROVE  Held(d)' = Held(d) + (IF d = DbOf[r] THEN n ELSE 0) /\ Held(d) \in Int
  <2>1. RegionsOf(d) \in SUBSET Regions /\ (r \in RegionsOf(d) <=> d = DbOf[r])
    BY DEF RegionsOf
  <2>2. Held(d) = SumFunctionOnSet(f, RegionsOf(d)) /\ Held(d)' = SumFunctionOnSet(g, RegionsOf(d))
    BY Zenon DEF Held, RegionsOf, f, g
  <2> QED
    BY <1>2, <2>1, <2>2
<1>4. /\ SumFunctionOnSet(g, Regions) = SumFunctionOnSet(f, Regions) + n
      /\ SumFunctionOnSet(f, Regions) \in Int
  BY <1>2
<1>5. MovesHeld(DbOf[r], n)
  <2>1. DbOf[r] \in Databases
    BY DbOfAssumption
  <2> QED
    BY <1>3, <2>1 DEF MovesHeld
<1> QED
  BY <1>4, <1>5, Zenon DEF InRegions, f, g

\* A step that changes one transfer row changes what its database has in transit by what that row has.
LEMMA OutgoingMoves ==
  ASSUME TypeOK, TypeOK', NEW s \in Databases, NEW t \in Transfers, OnlyTransfer(s, t),
         NEW n \in Int, Owed(transfers'[s][t]) = Owed(transfers[s][t]) + n
  PROVE  MovesOutgoing(s, n)
<1> SUFFICES ASSUME NEW d \in Databases
             PROVE  /\ d # s => Outgoing(d)' = Outgoing(d)
                    /\ d = s => Outgoing(d)' = Outgoing(d) + n
  BY Zenon DEF MovesOutgoing
<1> DEFINE A == InTransit(d)
           B == InTransit(d)'
           f == [v \in Transfers |-> transfers[d][v].amount]
           g == [v \in Transfers |-> transfers'[d][v].amount]
<1>1. \A v \in Transfers : /\ transfers[d][v].amount \in Int /\ transfers'[d][v].amount \in Int
                           /\ d # s \/ v # t => transfers'[d][v] = transfers[d][v]
  BY DEF TypeOK, TransferRow, OnlyTransfer
<1>2. \A v \in Transfers : /\ f[v] = transfers[d][v].amount /\ g[v] = transfers'[d][v].amount
                           /\ v \in A <=> transfers[d][v].status = "IN_TRANSIT"
                           /\ v \in B <=> transfers'[d][v].status = "IN_TRANSIT"
  BY Zenon DEF InTransit
<1>3. A \subseteq Transfers /\ B \subseteq Transfers
  BY DEF InTransit
<1>4. Outgoing(d) = SumFunctionOnSet(f, A) /\ Outgoing(d)' = SumFunctionOnSet(g, B)
  BY Zenon DEF Outgoing
<1> HIDE DEF A, B, f, g
<1>5. IsFiniteSet(A) /\ IsFiniteSet(B)
  BY <1>3, Finite, FS_Subset
<1>6. A \ {t} = B \ {t}
  BY <1>1, <1>2, <1>3, Zenon
<1>7. /\ \A v \in A : f[v] \in Int
      /\ \A v \in B : g[v] \in Int
      /\ \A v \in A \cap B : v # t => g[v] = f[v]
  BY <1>1, <1>2, <1>3, Zenon
<1>8. /\ SumFunctionOnSet(g, B) = SumFunctionOnSet(f, A) + At(g, B, t) - At(f, A, t)
      /\ SumFunctionOnSet(f, A) \in Int
  BY <1>5, <1>6, <1>7, SumMoves
<1>9. /\ At(f, A, t) = Owed(transfers[d][t]) /\ At(f, A, t) \in Int
      /\ At(g, B, t) = Owed(transfers'[d][t]) /\ At(g, B, t) \in Int
  BY <1>1, <1>2 DEF At, Owed
<1>10. d # s => At(g, B, t) = At(f, A, t)
  BY <1>1, <1>9, Zenon
<1> QED
  BY <1>4, <1>8, <1>9, <1>10

\* A step that one certificate is issued or arrives in changes what is under way by
\* what that certificate carries.
LEMMA UnderwayMoves ==
  ASSUME TypeOK, TypeOK', NEW s \in Databases, NEW t \in Transfers, OnlyTravels(s, t),
         NEW n \in Int, Carried(s, t)' = Carried(s, t) + n
  PROVE  Underway' = Underway + n
<1> DEFINE U == Databases \X Transfers
           x == <<s, t>>
           A == Travelling
           B == Travelling'
           f == [p \in U |-> transfers[p[1]][p[2]].amount]
           g == [p \in U |-> transfers'[p[1]][p[2]].amount]
<1>1. A \subseteq U /\ B \subseteq U /\ x \in U
  BY Zenon DEF Travelling, Issued
<1>2. \A p \in U : /\ p \in A <=> Travels(p[1], p[2])
                   /\ p \in B <=> Travels(p[1], p[2])'
  BY Zenon DEF Travelling, Issued, Arrived, Travels
<1>3. \A p \in U : f[p] \in Int /\ g[p] \in Int
  BY DEF TypeOK, TransferRow
<1>4. \A p \in U : p # x => g[p] = f[p] /\ (p \in B <=> p \in A)
  <2> SUFFICES ASSUME NEW u \in Databases, NEW v \in Transfers, u # s \/ v # t
               PROVE  /\ transfers'[u][v] = transfers[u][v]
                      /\ Travels(u, v)' <=> Travels(u, v)
    BY <1>2
  <2> QED
    BY Zenon DEF OnlyTravels, OnlyTransfer
<1>5. Underway = SumFunctionOnSet(f, A) /\ Underway' = SumFunctionOnSet(g, B)
  BY Zenon DEF Underway
<1>6. Carried(s, t) = At(f, A, x) /\ Carried(s, t)' = At(g, B, x)
  <2>1. /\ f[x] = transfers[s][t].amount /\ g[x] = transfers'[s][t].amount
        /\ x \in A <=> Travels(s, t)
        /\ x \in B <=> Travels(s, t)'
    BY <1>1, <1>2, Zenon
  <2> HIDE DEF f, g, A, B, x
  <2> QED
    BY <2>1, Zenon DEF Carried, At
<1>7. IsFiniteSet(U)
  BY Finite
<1> HIDE DEF A, B, f, g, U, x
<1>8. IsFiniteSet(A) /\ IsFiniteSet(B)
  BY <1>1, <1>7, FS_Subset
<1>9. A \ {x} = B \ {x}
  BY <1>1, <1>4
<1>10. /\ \A p \in A : f[p] \in Int
       /\ \A p \in B : g[p] \in Int
       /\ \A p \in A \cap B : p # x => g[p] = f[p]
  BY <1>1, <1>3, <1>4
<1>11. /\ SumFunctionOnSet(g, B) = SumFunctionOnSet(f, A) + At(g, B, x) - At(f, A, x)
       /\ SumFunctionOnSet(f, A) \in Int
  BY <1>8, <1>9, <1>10, SumMoves
<1>12. At(f, A, x) \in Int /\ At(g, B, x) \in Int
  BY <1>1, <1>3 DEF At
<1>13. At(g, B, x) = At(f, A, x) + n
  BY <1>6, Zenon
<1>14. SumFunctionOnSet(g, B) = SumFunctionOnSet(f, A) + n
  BY <1>11, <1>12, <1>13
<1> QED
  BY <1>5, <1>14, Zenon

\* An effect receipt is written once: it adds its amount to the effects of its
\* kind and to no other.
LEMMA RecordedMoves ==
  ASSUME TypeOK, TypeOK', NEW e \in Effects, NEW r \in Regions, NEW n \in Nat, NEW k,
         Receipted(e, k, r, n), DbOf[r] \in Databases, NEW kind, kind # "NONE"
  PROVE  /\ Recorded(kind)' = Recorded(kind) + (IF kind = k THEN n ELSE 0)
         /\ Recorded(kind) \in Int
<1> DEFINE U == Databases \X Effects
           x == <<DbOf[r], e>>
           A == EffectsOf(kind)
           B == EffectsOf(kind)'
           f == [p \in U |-> receipts[p[1]][p[2]].amount]
           g == [p \in U |-> receipts'[p[1]][p[2]].amount]
<1>1. A \subseteq U /\ B \subseteq U /\ x \in U
  BY DEF EffectsOf
<1>2. \A p \in U : f[p] \in Int /\ g[p] \in Int
  BY DEF TypeOK, ReceiptRow
<1>3. \A p \in U : p # x => receipts'[p[1]][p[2]] = receipts[p[1]][p[2]]
  BY DEF TypeOK, Receipted
<1>4. \A p \in U : p # x => g[p] = f[p] /\ (p \in B <=> p \in A)
  BY <1>3, Zenon DEF EffectsOf
<1>5. /\ receipts[DbOf[r]][e].kind = "NONE"
      /\ receipts'[DbOf[r]][e].kind = k /\ receipts'[DbOf[r]][e].amount = n
  BY DEF TypeOK, Receipted, NoReceipt
<1>6. At(f, A, x) = 0 /\ At(g, B, x) = IF kind = k THEN n ELSE 0
  BY <1>1, <1>5, Zenon DEF EffectsOf, At
<1>7. Recorded(kind) = SumFunctionOnSet(f, A) /\ Recorded(kind)' = SumFunctionOnSet(g, B)
  BY Zenon DEF Recorded
<1>8. IsFiniteSet(U)
  BY Finite
<1> HIDE DEF A, B, f, g, U, x
<1>9. IsFiniteSet(A) /\ IsFiniteSet(B)
  BY <1>1, <1>8, FS_Subset
<1>10. A \ {x} = B \ {x}
  BY <1>1, <1>4
<1>11. /\ \A p \in A : f[p] \in Int
       /\ \A p \in B : g[p] \in Int
       /\ \A p \in A \cap B : p # x => g[p] = f[p]
  BY <1>1, <1>2, <1>4, Zenon
<1>12. /\ SumFunctionOnSet(g, B) = SumFunctionOnSet(f, A) + At(g, B, x) - At(f, A, x)
       /\ SumFunctionOnSet(f, A) \in Int
  BY <1>9, <1>10, <1>11, SumMoves
<1> QED
  BY <1>6, <1>7, <1>12

\* A sum over the databases changes by what one of them changes.
LEMMA DatabasesMove ==
  ASSUME NEW f, NEW g, NEW d \in Databases, NEW n \in Int,
         \A e \in Databases : f[e] \in Int /\ g[e] \in Int,
         \A e \in Databases : e # d => g[e] = f[e], g[d] = f[d] + n
  PROVE  /\ SumFunctionOnSet(g, Databases) = SumFunctionOnSet(f, Databases) + n
         /\ SumFunctionOnSet(f, Databases) \in Int
<1>1. SumFunctionOnSet(g, Databases) = SumFunctionOnSet(f, Databases) + g[d] - f[d]
  BY Finite, SumChange
<1>2. SumFunctionOnSet(f, Databases) \in Int
  BY Finite, SumType
<1> QED
  BY <1>1, <1>2

\* A step that changes one authority row changes what is unallocated over all
\* databases by what that row does.
LEMMA UnallocatedMoves ==
  ASSUME TypeOK, TypeOK', NEW d \in Databases, NEW n \in Int, NEW m \in Int,
         MovesAuthority(d, n, m)
  PROVE  Unallocated' = Unallocated + m /\ Unallocated \in Int
<1> DEFINE f == [e \in Databases |-> auth[e].unallocated]
           g == [e \in Databases |-> auth'[e].unallocated]
<1>1. /\ \A e \in Databases : f[e] \in Int /\ g[e] \in Int
      /\ \A e \in Databases : e # d => g[e] = f[e]
      /\ g[d] = f[d] + m
  BY DEF TypeOK, MovesAuthority
<1>2. Unallocated = SumFunctionOnSet(f, Databases) /\ Unallocated' = SumFunctionOnSet(g, Databases)
  BY Zenon DEF Unallocated
<1> HIDE DEF f, g
<1>3. /\ SumFunctionOnSet(g, Databases) = SumFunctionOnSet(f, Databases) + m
      /\ SumFunctionOnSet(f, Databases) \in Int
  BY <1>1, DatabasesMove, Zenon
<1> QED
  BY <1>2, <1>3, Zenon

\* Sums over columns that a step leaves alone.
LEMMA SumsStay ==
  /\ auth' = auth => Unallocated' = Unallocated
  /\ rights' = rights => /\ InRegions' = InRegions
                         /\ \A d \in Databases : Held(d)' = Held(d)
  /\ transfers' = transfers => /\ \A d \in Databases : Outgoing(d)' = Outgoing(d)
                               /\ consumed' = consumed => Underway' = Underway
  /\ receipts' = receipts => \A kind : Recorded(kind)' = Recorded(kind)
<1>1. auth' = auth => Unallocated' = Unallocated
  BY Zenon DEF Unallocated
<1>2. rights' = rights => /\ InRegions' = InRegions
                          /\ \A d \in Databases : Held(d)' = Held(d)
  BY Zenon DEF Available, InRegions, Held, RegionsOf
<1>3. transfers' = transfers => \A d \in Databases : Outgoing(d)' = Outgoing(d)
  BY Zenon DEF Outgoing, InTransit
<1>4. transfers' = transfers /\ consumed' = consumed => Underway' = Underway
  BY Zenon DEF Underway, Travelling, Issued, Arrived
<1>5. receipts' = receipts => \A kind : Recorded(kind)' = Recorded(kind)
  BY Zenon DEF Recorded, EffectsOf
<1> QED
  BY <1>1, <1>2, <1>3, <1>4, <1>5, Zenon

\* Sums that do not enter a step's arithmetic are integers too.
LEMMA SumsAreInts ==
  ASSUME TypeOK
  PROVE  /\ Unallocated \in Int /\ Underway \in Int
         /\ InRegions \in Int
         /\ Granted \in Int
         /\ \A kind : Recorded(kind) \in Int
         /\ \A d \in Databases : Held(d) \in Int /\ Outgoing(d) \in Int
<1>1. /\ \A d \in Databases : auth[d].unallocated \in Nat /\ granted[d] \in Nat
      /\ \A r \in Regions : rights[r].available \in Nat
      /\ \A d \in Databases, t \in Transfers : transfers[d][t].amount \in Nat
      /\ \A d \in Databases, e \in Effects : receipts[d][e].amount \in Nat
  BY DEF TypeOK, TransferRow, ReceiptRow
<1>2. Unallocated \in Int
  BY <1>1, Finite, SumType DEF Unallocated
<1>3. Granted \in Int
  BY <1>1, Finite, SumType DEF Granted
<1>4. ASSUME NEW S \in SUBSET Regions PROVE SumFunctionOnSet(Available, S) \in Int
  <2>1. IsFiniteSet(S) /\ \A r \in S : Available[r] \in Int
    BY <1>1, Finite, FS_Subset DEF Available
  <2> QED
    BY <2>1, SumType
<1>5. Underway \in Int
  <2> DEFINE f == [p \in Databases \X Transfers |-> transfers[p[1]][p[2]].amount]
  <2>1. Travelling \in SUBSET (Databases \X Transfers) /\ \A p \in Travelling : f[p] \in Int
    BY <1>1 DEF Travelling, Issued
  <2>2. IsFiniteSet(Travelling)
    BY <2>1, Finite, FS_Subset, Zenon
  <2>3. Underway = SumFunctionOnSet(f, Travelling)
    BY Zenon DEF Underway
  <2> HIDE DEF f
  <2> QED
    BY <2>1, <2>2, <2>3, SumType
<1>6. ASSUME NEW kind PROVE Recorded(kind) \in Int
  <2> DEFINE f == [p \in Databases \X Effects |-> receipts[p[1]][p[2]].amount]
  <2>1. EffectsOf(kind) \in SUBSET (Databases \X Effects) /\ \A p \in EffectsOf(kind) : f[p] \in Int
    BY <1>1 DEF EffectsOf
  <2>2. IsFiniteSet(EffectsOf(kind))
    BY <2>1, Finite, FS_Subset, Zenon
  <2>3. Recorded(kind) = SumFunctionOnSet(f, EffectsOf(kind))
    BY Zenon DEF Recorded
  <2> HIDE DEF f
  <2> QED
    BY <2>1, <2>2, <2>3, SumType
<1>7. ASSUME NEW d \in Databases PROVE Held(d) \in Int /\ Outgoing(d) \in Int
  <2> DEFINE f == [t \in Transfers |-> transfers[d][t].amount]
  <2>1. RegionsOf(d) \in SUBSET Regions /\ InTransit(d) \in SUBSET Transfers
    BY DEF RegionsOf, InTransit
  <2>2. IsFiniteSet(InTransit(d)) /\ \A t \in InTransit(d) : f[t] \in Int
    BY <1>1, <2>1, Finite, FS_Subset
  <2>3. Outgoing(d) = SumFunctionOnSet(f, InTransit(d)) /\ Held(d) = SumFunctionOnSet(Available, RegionsOf(d))
    BY Zenon DEF Outgoing, Held
  <2> HIDE DEF f
  <2> QED
    BY <1>4, <2>1, <2>2, <2>3, SumType, Zenon
<1> QED
  BY <1>2, <1>3, <1>4, <1>5, <1>6, <1>7 DEF InRegions

\* Sums over columns that a step leaves alone change by nothing.
LEMMA SumsKept ==
  ASSUME TypeOK
  PROVE  /\ auth' = auth => Unallocated' = Unallocated + 0
         /\ rights' = rights => /\ InRegions' = InRegions + 0
                                /\ \A d \in Databases : MovesHeld(d, 0)
         /\ transfers' = transfers =>
              /\ \A d \in Databases : MovesOutgoing(d, 0)
              /\ consumed' = consumed => Underway' = Underway + 0
         /\ granted' = granted => Granted' = Granted + 0
         /\ receipts' = receipts => \A kind : Recorded(kind)' = Recorded(kind) + 0
<1>1. granted' = granted => Granted' = Granted
  BY Zenon DEF Granted
<1>2. \A x \in Int : x + 0 = x
  OBVIOUS
<1> QED
  BY <1>1, <1>2, SumsStay, SumsAreInts, Zenon DEF MovesHeld, MovesOutgoing

-----------------------------------------------------------------------------
(* Conservation, in every database and over all of them.                   *)

SumsInv == Conserved /\ OnePlace /\ Untouched

\* A database stays conserved when its total, its unallocated authority, its
\* regions and its transit change by amounts that add up, and no other changes.
LEMMA ConservedMoves ==
  ASSUME TypeOK, Conserved, NEW d \in Databases, NEW n \in Int, NEW m \in Int, NEW h \in Int,
         NEW o \in Int, MovesAuthority(d, n, m), MovesHeld(d, h), MovesOutgoing(d, o),
         n = m + h + o
  PROVE  Conserved'
<1> SUFFICES ASSUME NEW e \in Databases
             PROVE  auth'[e].total = auth'[e].unallocated + Held(e)' + Outgoing(e)'
  BY DEF Conserved
<1>1. /\ auth[e].total \in Int /\ auth[e].unallocated \in Int
      /\ Held(e) \in Int /\ Outgoing(e) \in Int
  <2>1. auth[e].total \in Int /\ auth[e].unallocated \in Int
    BY DEF TypeOK
  <2> QED
    BY <2>1, SumsAreInts
<1>2. auth[e].total = auth[e].unallocated + Held(e) + Outgoing(e)
  BY Zenon DEF Conserved
<1>3. /\ e # d => auth'[e] = auth[e]
      /\ auth'[d].total = auth[d].total + n
      /\ auth'[d].unallocated = auth[d].unallocated + m
  BY Zenon DEF MovesAuthority
<1>4. /\ e # d => Held(e)' = Held(e) /\ Outgoing(e)' = Outgoing(e)
      /\ e = d => Held(e)' = Held(e) + h /\ Outgoing(e)' = Outgoing(e) + o
  BY Zenon DEF MovesHeld, MovesOutgoing
<1> QED
  BY <1>1, <1>2, <1>3, <1>4

\* Over all databases nothing is made or lost when what moves between the places
\* adds up to what was granted, returned and spent.
LEMMA OnePlaceMoves ==
  ASSUME TypeOK, OnePlace, NEW a \in Int, NEW b \in Int, NEW c \in Int, NEW g \in Int,
         NEW x \in Int, NEW y \in Int, a + b + c = g + x - y,
         Unallocated' = Unallocated + a, InRegions' = InRegions + b, Underway' = Underway + c,
         Granted' = Granted + g, Recorded("RETURN")' = Recorded("RETURN") + x,
         Recorded("SPEND")' = Recorded("SPEND") + y
  PROVE  OnePlace'
<1>1. /\ Unallocated \in Int /\ InRegions \in Int /\ Underway \in Int
      /\ Granted \in Int /\ Recorded("RETURN") \in Int /\ Recorded("SPEND") \in Int
  BY SumsAreInts, Zenon
<1> QED
  BY <1>1 DEF OnePlace

\* A step that leaves every authority row alone, as one that changes it by nothing.
LEMMA AuthorityStays ==
  ASSUME TypeOK, auth' = auth, NEW d \in Databases
  PROVE  MovesAuthority(d, 0, 0)
BY DEF MovesAuthority, TypeOK

\* A step that keeps the authority rows and what was granted keeps Untouched.
LEMMA UntouchedStays ==
  ASSUME Untouched, auth' = auth, granted' = granted
  PROVE  Untouched'
BY Zenon DEF Untouched

\* Empty tables hold nothing anywhere.
LEMMA InitSums == Init => SumsInv
<1> SUFFICES ASSUME Init PROVE SumsInv
  OBVIOUS
<1>0. TypeOK
  BY InitIInv DEF IInv
<1>1. ASSUME NEW S, IsFiniteSet(S), NEW f, \A x \in S : f[x] = 0
      PROVE  SumFunctionOnSet(f, S) = 0
  BY <1>1, SumZero
<1>2. \A d \in Databases : Held(d) = 0 /\ InRegions = 0
  <2>1. \A r \in Regions : Available[r] = 0
    BY DEF Init, Available, NoRights
  <2>2. \A d \in Databases : IsFiniteSet(RegionsOf(d)) /\ RegionsOf(d) \subseteq Regions
    BY Finite, FS_Subset DEF RegionsOf
  <2> QED
    BY <1>1, <2>1, <2>2, Finite, Zenon DEF Held, InRegions
<1>3. ASSUME NEW d \in Databases PROVE Outgoing(d) = 0
  <2>1. InTransit(d) = {}
    BY DEF Init, InTransit, NoTransfer
  <2> QED
    BY <2>1, SumEmpty, Zenon DEF Outgoing
<1>4. Underway = 0
  <2>1. Travelling = {}
    BY Zenon DEF Init, Travelling, Issued, NoTransfer
  <2> QED
    BY <2>1, SumEmpty, Zenon DEF Underway
<1>5. Recorded("RETURN") = 0 /\ Recorded("SPEND") = 0
  <2>1. EffectsOf("RETURN") = {} /\ EffectsOf("SPEND") = {}
    BY Zenon DEF Init, EffectsOf, NoReceipt
  <2> QED
    BY <2>1, SumEmpty, Zenon DEF Recorded
<1>6. Unallocated = 0 /\ Granted = 0
  <2>1. \A d \in Databases : auth[d].unallocated = 0 /\ granted[d] = 0
    BY DEF Init, NoAuthority
  <2> QED
    BY <1>1, <2>1, Finite, Zenon DEF Unallocated, Granted
<1>7. Conserved
  BY <1>2, <1>3 DEF Conserved, Init, NoAuthority
<1>8. OnePlace
  <2>1. InRegions = 0
    <3>1. \A r \in Regions : Available[r] = 0
      BY DEF Init, Available, NoRights
    <3> QED
      BY <1>1, <3>1, Finite DEF InRegions
  <2> QED
    BY <1>4, <1>5, <1>6, <2>1 DEF OnePlace
<1>9. Untouched
  BY DEF Untouched, Init, NoAuthority
<1> QED
  BY <1>7, <1>8, <1>9 DEF SumsInv

\* CreateAuthority puts its grant into an empty row.
LEMMA CreateAuthoritySums ==
  ASSUME TypeOK, TypeOK', SumsInv, NEW d \in Databases, CreateAuthority(d)
  PROVE  SumsInv'
<1> DEFINE n == Grants[d]
<1>1. Conserved /\ OnePlace /\ Untouched
  BY Zenon DEF SumsInv
<1>2. /\ n \in Int /\ MovesAuthority(d, n, n)
      /\ \A e \in Databases : e # d => granted'[e] = granted[e]
      /\ granted'[d] = granted[d] + n
      /\ UNCHANGED <<rights, transfers, consumed, receipts>>
      /\ Untouched'
  BY <1>1, CreateAuthorityMoves, Zenon
<1> HIDE DEF n
<1>3. \A e \in Databases : granted[e] \in Int /\ granted'[e] \in Int
  BY DEF TypeOK
<1>4. Granted' = Granted + n
  BY <1>2, <1>3, DatabasesMove, Zenon DEF Granted
<1>5. Unallocated' = Unallocated + n
  BY <1>2, UnallocatedMoves, Zenon
<1>6. /\ InRegions' = InRegions + 0 /\ Underway' = Underway + 0
      /\ Recorded("RETURN")' = Recorded("RETURN") + 0
      /\ Recorded("SPEND")' = Recorded("SPEND") + 0
      /\ MovesHeld(d, 0) /\ MovesOutgoing(d, 0)
  BY <1>2, SumsKept, Zenon
<1>7. 0 \in Int /\ n = n + 0 + 0 /\ n + 0 + 0 = n + 0 - 0
  BY <1>2
<1>8. Conserved'
  BY <1>1, <1>2, <1>6, <1>7, ConservedMoves, Zenon
<1>9. OnePlace'
  BY <1>1, <1>2, <1>4, <1>5, <1>6, <1>7, OnePlaceMoves, Zenon
<1> QED
  BY <1>2, <1>8, <1>9, Zenon DEF SumsInv

\* Allocate, Spend and Return.
LEMMA LocalEffectSums ==
  ASSUME IInv, TypeOK, TypeOK', SumsInv, NEW e \in Effects, NEW r \in Regions, NEW n \in Amounts,
         Allocate(e, r, n) \/ Spend(e, r, n) \/ Return(e, r, n)
  PROVE  SumsInv'
<1> DEFINE d == DbOf[r]
<1>1. Conserved /\ OnePlace /\ Untouched
  BY Zenon DEF SumsInv
<1>2. PICK k \in {"ALLOCATE", "SPEND", "RETURN"}, h \in Int, a \in Int, m \in Int :
        /\ Receipted(e, k, r, n)
        /\ MovesRights(r, h) /\ MovesAuthority(d, a, m) /\ a = m + h
        /\ a = (IF k = "RETURN" THEN n ELSE 0) - (IF k = "SPEND" THEN n ELSE 0)
  BY <1>1, LocalEffectMoves, Zenon
<1>3. n \in Nat /\ d \in Databases /\ UNCHANGED <<granted, transfers, consumed>> /\ Untouched'
  BY <1>1, LocalEffectMoves, Zenon
<1> DEFINE x == IF k = "RETURN" THEN n ELSE 0
           y == IF k = "SPEND" THEN n ELSE 0
<1>4. ASSUME NEW kind, kind # "NONE"
      PROVE  Recorded(kind)' = Recorded(kind) + (IF kind = k THEN n ELSE 0)
  <2>1. Receipted(e, k, r, n) /\ DbOf[r] \in Databases
    BY <1>2, <1>3, Zenon
  <2> QED
    BY <1>3, <1>4, <2>1, RecordedMoves
<1>5. "RETURN" # "NONE" /\ "SPEND" # "NONE"
  BY Zenon
<1>6. Recorded("RETURN")' = Recorded("RETURN") + x /\ Recorded("SPEND")' = Recorded("SPEND") + y
  BY <1>4, <1>5, Zenon
<1>7. x \in Int /\ y \in Int /\ a = x - y
  BY <1>2, <1>3
<1>8. InRegions' = InRegions + h /\ MovesHeld(d, h)
  BY <1>2, RightsMove, Zenon
<1> HIDE DEF d, x, y
<1>9. Unallocated' = Unallocated + m
  BY <1>2, <1>3, UnallocatedMoves, Zenon
<1>10. /\ Underway' = Underway + 0 /\ Granted' = Granted + 0
       /\ MovesOutgoing(d, 0)
  BY <1>3, SumsKept, Zenon
<1>11. 0 \in Int /\ a = m + h + 0 /\ m + h + 0 = 0 + x - y
  BY <1>2, <1>7
<1>12. Conserved'
  BY <1>1, <1>2, <1>3, <1>8, <1>10, <1>11, ConservedMoves, Zenon
<1>13. OnePlace'
  BY <1>1, <1>2, <1>6, <1>7, <1>8, <1>9, <1>10, <1>11, OnePlaceMoves, Zenon
<1> QED
  BY <1>3, <1>12, <1>13, Zenon DEF SumsInv

\* Signing moves nothing.
LEMMA QuietSums ==
  ASSUME TypeOK, TypeOK', SumsInv, NEW s \in Databases, NEW t \in Transfers, Quiet(s, t)
  PROVE  SumsInv'
<1>1. /\ OnlyTravels(s, t) /\ OnlyTransfer(s, t)
      /\ Owed(transfers'[s][t]) = Owed(transfers[s][t]) /\ Carried(s, t)' = Carried(s, t)
      /\ UNCHANGED <<auth, granted, rights, receipts>>
  BY Zenon DEF Quiet, OnlyTravels
<1>2. Owed(transfers[s][t]) \in Int /\ Carried(s, t) \in Int
  <2>1. transfers[s][t].amount \in Nat
    BY AmountsAreNats, Zenon
  <2> QED
    BY <2>1 DEF Owed, Carried
<1>3. /\ 0 \in Int /\ Owed(transfers'[s][t]) = Owed(transfers[s][t]) + 0
      /\ Carried(s, t)' = Carried(s, t) + 0 /\ 0 = 0 + 0 + 0 /\ 0 + 0 + 0 = 0 + 0 - 0
  BY <1>1, <1>2
<1>4. MovesOutgoing(s, 0) /\ Underway' = Underway + 0
  BY <1>1, <1>3, OutgoingMoves, UnderwayMoves, Zenon
<1>5. /\ MovesAuthority(s, 0, 0) /\ MovesHeld(s, 0)
      /\ Unallocated' = Unallocated + 0 /\ InRegions' = InRegions + 0 /\ Granted' = Granted + 0
      /\ Recorded("RETURN")' = Recorded("RETURN") + 0
      /\ Recorded("SPEND")' = Recorded("SPEND") + 0
  BY <1>1, SumsKept, AuthorityStays, Zenon
<1>6. Conserved /\ OnePlace /\ Untouched
  BY Zenon DEF SumsInv
<1>7. Conserved'
  BY <1>3, <1>4, <1>5, <1>6, ConservedMoves, Zenon
<1>8. OnePlace'
  BY <1>3, <1>4, <1>5, <1>6, OnePlaceMoves, Zenon
<1>9. Untouched'
  BY <1>1, <1>6, UntouchedStays, Zenon
<1> QED
  BY <1>7, <1>8, <1>9, Zenon DEF SumsInv

\* InitiateTransfer.
LEMMA InitiateSums ==
  ASSUME IInv, TypeOK, TypeOK', SumsInv, NEW q \in Requests, Initiate(q)
  PROVE  SumsInv'
<1> DEFINE d == DbOf[q.src]
           t == q.id
           n == q.amount
           h == -n
<1>1. Conserved /\ OnePlace /\ Untouched
  BY Zenon DEF SumsInv
<1>2. /\ q.src \in Regions /\ d \in Databases /\ t \in Transfers /\ n \in Nat
      /\ MovesRights(q.src, h)
      /\ OnlyTravels(d, t) /\ Carried(d, t)' = n /\ Carried(d, t) = 0
      /\ Owed(transfers'[d][t]) = n /\ Owed(transfers[d][t]) = 0
      /\ UNCHANGED <<auth, granted, receipts>>
  BY InitiateMoves, Zenon
<1>3. OnlyTransfer(d, t)
  BY <1>2, Zenon DEF OnlyTravels
<1> HIDE DEF t, n
<1>4. /\ h \in Int /\ n \in Int /\ 0 \in Int /\ n = 0 + n
      /\ 0 = 0 + h + n /\ 0 + h + n = 0 + 0 - 0
  BY <1>2
<1> HIDE DEF h
<1>5. MovesHeld(d, h) /\ InRegions' = InRegions + h
  BY <1>2, <1>4, RightsMove, Zenon
<1> HIDE DEF d
<1>6. MovesOutgoing(d, n) /\ Underway' = Underway + n
  BY <1>2, <1>3, <1>4, OutgoingMoves, UnderwayMoves, Zenon
<1>7. /\ MovesAuthority(d, 0, 0) /\ Unallocated' = Unallocated + 0 /\ Granted' = Granted + 0
      /\ Recorded("RETURN")' = Recorded("RETURN") + 0
      /\ Recorded("SPEND")' = Recorded("SPEND") + 0
  BY <1>2, SumsKept, AuthorityStays, Zenon
<1>8. Conserved'
  BY <1>1, <1>2, <1>4, <1>5, <1>6, <1>7, ConservedMoves, Zenon
<1>9. OnePlace'
  BY <1>1, <1>4, <1>5, <1>6, <1>7, OnePlaceMoves, Zenon
<1>10. Untouched'
  BY <1>1, <1>2, UntouchedStays, Zenon
<1> QED
  BY <1>8, <1>9, <1>10, Zenon DEF SumsInv

\* ConsumeCertificate.
LEMMA ConsumeSums ==
  ASSUME IInv, TypeOK, TypeOK', SumsInv, NEW s \in Databases, NEW t \in Transfers, Consume(s, t)
  PROVE  SumsInv'
<1> DEFINE r == transfers[s][t].dst
           n == transfers[s][t].amount
           d == DbOf[r]
           h == -n
<1>1. Conserved /\ OnePlace /\ Untouched
  BY Zenon DEF SumsInv
<1>2. /\ r \in Regions /\ d \in Databases /\ n \in Nat
      /\ MovesRights(r, n) /\ MovesAuthority(d, n, 0)
      /\ OnlyTravels(s, t) /\ Carried(s, t) = n /\ Carried(s, t)' = 0
      /\ UNCHANGED <<granted, transfers, receipts>>
      /\ Untouched'
  BY <1>1, ConsumeMoves, Zenon
<1> HIDE DEF n
<1>3. /\ h \in Int /\ n \in Int /\ 0 \in Int /\ 0 = n + h
      /\ n = 0 + n + 0 /\ 0 + n + h = 0 + 0 - 0
  BY <1>2
<1> HIDE DEF h, r
<1>4. MovesHeld(d, n) /\ InRegions' = InRegions + n
  BY <1>2, <1>3, RightsMove, Zenon
<1> HIDE DEF d
<1>5. Unallocated' = Unallocated + 0
  BY <1>2, <1>3, UnallocatedMoves, Zenon
<1>6. Underway' = Underway + h
  BY <1>2, <1>3, UnderwayMoves, Zenon
<1>7. /\ MovesOutgoing(d, 0) /\ Granted' = Granted + 0
      /\ Recorded("RETURN")' = Recorded("RETURN") + 0
      /\ Recorded("SPEND")' = Recorded("SPEND") + 0
  BY <1>2, SumsKept, Zenon
<1>8. Conserved'
  BY <1>1, <1>2, <1>3, <1>4, <1>7, ConservedMoves, Zenon
<1>9. OnePlace'
  BY <1>1, <1>3, <1>4, <1>5, <1>6, <1>7, OnePlaceMoves, Zenon
<1> QED
  BY <1>2, <1>8, <1>9, Zenon DEF SumsInv

\* AcknowledgeTransfer.
LEMMA AcknowledgeSums ==
  ASSUME IInv, TypeOK, TypeOK', SumsInv, NEW s \in Databases, NEW t \in Transfers,
         NEW d \in Databases, Acknowledge(s, t, d)
  PROVE  SumsInv'
<1> DEFINE n == transfers[s][t].amount
           h == -n
<1>1. Conserved /\ OnePlace /\ Untouched
  BY Zenon DEF SumsInv
<1>2. /\ n \in Nat /\ MovesAuthority(s, h, 0)
      /\ OnlyTravels(s, t) /\ Carried(s, t)' = Carried(s, t)
      /\ Owed(transfers'[s][t]) = 0 /\ Owed(transfers[s][t]) = n
      /\ UNCHANGED <<granted, rights, receipts>>
      /\ Untouched'
  BY <1>1, AcknowledgeMoves, Zenon
<1>3. OnlyTransfer(s, t) /\ Carried(s, t) \in Int
  <2>1. Carried(s, t) = n \/ Carried(s, t) = 0
    BY Zenon DEF Carried
  <2> QED
    BY <1>2, <2>1 DEF OnlyTravels
<1> HIDE DEF n
<1>4. /\ h \in Int /\ 0 \in Int /\ 0 = n + h /\ Carried(s, t)' = Carried(s, t) + 0
      /\ h = 0 + 0 + h /\ 0 + 0 + 0 = 0 + 0 - 0
  BY <1>2, <1>3
<1> HIDE DEF h
<1>5. MovesOutgoing(s, h) /\ Underway' = Underway + 0
  BY <1>2, <1>3, <1>4, OutgoingMoves, UnderwayMoves, Zenon
<1>6. Unallocated' = Unallocated + 0
  BY <1>2, <1>4, UnallocatedMoves, Zenon
<1>7. /\ MovesHeld(s, 0) /\ InRegions' = InRegions + 0 /\ Granted' = Granted + 0
      /\ Recorded("RETURN")' = Recorded("RETURN") + 0
      /\ Recorded("SPEND")' = Recorded("SPEND") + 0
  BY <1>2, SumsKept, Zenon
<1>8. Conserved'
  BY <1>1, <1>2, <1>4, <1>5, <1>7, ConservedMoves, Zenon
<1>9. OnePlace'
  BY <1>1, <1>4, <1>5, <1>6, <1>7, OnePlaceMoves, Zenon
<1> QED
  BY <1>2, <1>8, <1>9, Zenon DEF SumsInv

\* Steps that touch none of the columns summed.
LEMMA UnmovedSums ==
  ASSUME SumsInv, UNCHANGED <<auth, granted, rights, transfers, consumed, receipts>>
  PROVE  SumsInv'
<1>1. /\ Unallocated' = Unallocated /\ InRegions' = InRegions /\ Granted' = Granted
      /\ Underway' = Underway
      /\ Recorded("RETURN")' = Recorded("RETURN") /\ Recorded("SPEND")' = Recorded("SPEND")
      /\ \A e \in Databases : Held(e)' = Held(e) /\ Outgoing(e)' = Outgoing(e)
  BY SumsStay, Zenon DEF Granted
<1>2. Conserved' /\ OnePlace'
  BY <1>1, Zenon DEF SumsInv, Conserved, OnePlace
<1>3. Untouched'
  BY UntouchedStays, Zenon DEF SumsInv
<1> QED
  BY <1>2, <1>3, Zenon DEF SumsInv

\* Every step of the escrow services keeps the sums.
LEMMA SumsHold == Spec => []SumsInv
<1>1. IInv /\ IInv' /\ SumsInv /\ [Next]_vars => SumsInv'
  <2> SUFFICES ASSUME IInv, IInv', SumsInv, [Next]_vars PROVE SumsInv'
    OBVIOUS
  <2>0. TypeOK /\ TypeOK'
    BY Zenon DEF IInv
  <2>1. ASSUME NEW d \in Databases, CreateAuthority(d) PROVE SumsInv'
    BY <2>0, <2>1, CreateAuthoritySums, Zenon
  <2>2. CASE LocalEffect
    BY <2>0, <2>2, LocalEffectSums, Zenon DEF LocalEffect
  <2>3. ASSUME NEW q \in Requests, Initiate(q) PROVE SumsInv'
    BY <2>0, <2>3, InitiateSums, Zenon
  <2>4. ASSUME NEW d \in Databases, NEW t \in Transfers,
               SignCertificate(d, t) \/ Consume(d, t) \/ SignReceipt(d, t)
        PROVE  SumsInv'
    <3>1. SignCertificate(d, t) \/ SignReceipt(d, t) => Quiet(d, t)
      BY SignCertificateMoves, SignReceiptMoves, Zenon
    <3> QED
      BY <2>0, <2>4, <3>1, QuietSums, ConsumeSums, Zenon
  <2>5. ASSUME NEW s \in Databases, NEW d \in Databases, NEW t \in Transfers,
               Acknowledge(s, t, d)
        PROVE  SumsInv'
    BY <2>0, <2>5, AcknowledgeSums, Zenon
  <2>6. ASSUME NEW r \in Regions, NEW u \in Purposes, Rotate(r, u) PROVE SumsInv'
    BY <2>6, UnmovedSums, Zenon DEF Rotate
  <2>7. CASE UNCHANGED vars
    BY <2>7, UnmovedSums, Zenon DEF vars
  <2> QED
    BY <2>1, <2>2, <2>3, <2>4, <2>5, <2>6, <2>7, Zenon DEF Next
<1> QED
  BY InitSums, <1>1, EscrowInvariant, PTL DEF Spec

\* In every database the total is what is unallocated, in its regions and in
\* transit, for any databases, regions and transfers and after any sequence of
\* effects, transfers, retries and arrivals (Authority.Conserved).
THEOREM EscrowConserved == Spec => []Conserved
BY SumsHold, PTL DEF SumsInv

\* Over all databases every right is in exactly one place: certificates and
\* receipts that are lost, repeated or late create and destroy nothing.
THEOREM EscrowOnePlace == Spec => []OnePlace
BY SumsHold, PTL DEF SumsInv

-----------------------------------------------------------------------------
(* The consumption watermarks.                                             *)

\* No region has consumed anything at first.
LEMMA InitWatermarks == Init => WatermarksDense
<1> SUFFICES ASSUME Init, NEW r \in Regions
             PROVE  /\ {consumed[p[1]][p[2]].watermark : p \in ConsumedBy(r)} = 1 .. watermark[r]
                    /\ Cardinality(ConsumedBy(r)) = watermark[r]
  BY DEF WatermarksDense
<1>1. ConsumedBy(r) = {} /\ watermark[r] = 0
  BY NoneIsNoRegion, Zenon DEF Init, ConsumedBy, NoConsumption
<1> QED
  BY <1>1, FS_EmptySet

\* Steps that keep each row's destination and watermark keep the watermarks.
LEMMA SameWatermarks ==
  ASSUME WatermarksDense, watermark' = watermark,
         \A d \in Databases, t \in Transfers :
           /\ consumed'[d][t].dst = consumed[d][t].dst
           /\ consumed'[d][t].watermark = consumed[d][t].watermark
  PROVE  WatermarksDense'
<1> SUFFICES ASSUME NEW r \in Regions
             PROVE  /\ {consumed'[p[1]][p[2]].watermark : p \in ConsumedBy(r)'} = 1 .. watermark[r]
                    /\ Cardinality(ConsumedBy(r)') = watermark[r]
  BY Zenon DEF WatermarksDense
<1>1. ConsumedBy(r)' = ConsumedBy(r)
  BY Zenon DEF ConsumedBy
<1>2. \A p \in ConsumedBy(r) : consumed'[p[1]][p[2]].watermark = consumed[p[1]][p[2]].watermark
  BY DEF ConsumedBy
<1>3. /\ {consumed[p[1]][p[2]].watermark : p \in ConsumedBy(r)} = 1 .. watermark[r]
      /\ Cardinality(ConsumedBy(r)) = watermark[r]
  BY Zenon DEF WatermarksDense
<1>4. {consumed'[p[1]][p[2]].watermark : p \in ConsumedBy(r)'}
        = {consumed[p[1]][p[2]].watermark : p \in ConsumedBy(r)}
  BY <1>1, <1>2
<1> QED
  BY <1>1, <1>3, <1>4, Zenon

\* A consumption has the watermark after the last one of its region.
LEMMA ConsumeWatermarks ==
  ASSUME IInv, WatermarksDense, NEW s \in Databases, NEW t \in Transfers, Consume(s, t)
  PROVE  WatermarksDense'
<1> DEFINE q == transfers[s][t].dst
           d == DbOf[q]
           w == watermark[q] + 1
           x == <<d, t>>
<1>1. /\ q \in Regions /\ d \in Databases /\ TypeOK /\ consumed[d][t] = NoConsumption
      /\ watermark' = [watermark EXCEPT ![q] = w]
      /\ consumed'[d][t].dst = q /\ consumed'[d][t].watermark = w
  BY ConsumeWrites, Zenon DEF IInv
<1>2. \A e \in Databases, u \in Transfers : e # d \/ u # t => consumed'[e][u] = consumed[e][u]
  BY ConsumeWrites, Zenon
<1>3. /\ consumed'[d][t].dst = q /\ consumed'[d][t].watermark = w
      /\ \A r \in Regions : watermark'[r] = IF r = q THEN w ELSE watermark[r]
      /\ \A r \in Regions : watermark[r] \in Nat
  BY <1>1, Zenon DEF TypeOK
<1> HIDE DEF q, d, w
<1>5. x[1] = d /\ x[2] = t /\ x \in Databases \X Transfers
  BY <1>1
<1>c. \A p \in Databases \X Transfers :
         /\ p[1] \in Databases /\ p[2] \in Transfers
         /\ p # x => p[1] # d \/ p[2] # t
  OBVIOUS
<1> HIDE DEF x
<1>4. consumed[d][t].dst \notin Regions
  <2>1. consumed[d][t].dst = "none"
    BY <1>1, NoConsumptionNamesNone, Zenon
  <2> QED
    BY <2>1, NoneIsNoRegion, Zenon
<1>6. \A p \in Databases \X Transfers : p # x =>
         consumed'[p[1]][p[2]] = consumed[p[1]][p[2]]
  BY <1>2, <1>c, Zenon
<1> SUFFICES ASSUME NEW r \in Regions
             PROVE  /\ {consumed'[p[1]][p[2]].watermark : p \in ConsumedBy(r)'} = 1 .. watermark'[r]
                    /\ Cardinality(ConsumedBy(r)') = watermark'[r]
  BY Zenon DEF WatermarksDense
<1>7. /\ {consumed[p[1]][p[2]].watermark : p \in ConsumedBy(r)} = 1 .. watermark[r]
      /\ Cardinality(ConsumedBy(r)) = watermark[r]
  BY Zenon DEF WatermarksDense
<1>8. x \notin ConsumedBy(r) /\ IsFiniteSet(ConsumedBy(r))
  <2>1. ConsumedBy(r) \subseteq Databases \X Transfers
    BY DEF ConsumedBy
  <2> QED
    BY <1>4, <1>5, <2>1, Finite, FS_Subset, Zenon DEF ConsumedBy
<1>9. \A p \in ConsumedBy(r) : consumed'[p[1]][p[2]].watermark = consumed[p[1]][p[2]].watermark
  BY <1>6, <1>8, Zenon DEF ConsumedBy
<1>10. CASE r = q
  <2>1. ConsumedBy(r)' = ConsumedBy(r) \cup {x}
    <3>1. \A p \in Databases \X Transfers :
            consumed'[p[1]][p[2]].dst = r <=> consumed[p[1]][p[2]].dst = r \/ p = x
      BY <1>3, <1>5, <1>6, <1>10, Zenon
    <3> QED
      BY <1>5, <3>1, Zenon DEF ConsumedBy
  <2>2. {consumed'[p[1]][p[2]].watermark : p \in ConsumedBy(r)'}
          = {consumed[p[1]][p[2]].watermark : p \in ConsumedBy(r)} \cup {w}
    <3> DEFINE f(p) == consumed[p[1]][p[2]].watermark
               g(p) == consumed'[p[1]][p[2]].watermark
    <3>1. g(x) = w
      BY <1>3, <1>5, Zenon
    <3>2. \A p \in ConsumedBy(r) : g(p) = f(p)
      BY <1>9, Zenon
    <3> HIDE DEF f, g
    <3>3. {g(p) : p \in ConsumedBy(r) \cup {x}} = {f(p) : p \in ConsumedBy(r)} \cup {w}
      BY <3>1, <3>2
    <3> QED
      BY <2>1, <3>3, Zenon DEF f, g
  <2>3. watermark'[r] = watermark[r] + 1 /\ w = watermark[r] + 1 /\ watermark[r] \in Nat
    BY <1>3, <1>10, Zenon DEF w
  <2>4. (1 .. watermark[r]) \cup {w} = 1 .. watermark'[r]
    BY <2>3
  <2>5. Cardinality(ConsumedBy(r) \cup {x}) = Cardinality(ConsumedBy(r)) + 1
    BY <1>8, FS_AddElement, Zenon
  <2>6. Cardinality(ConsumedBy(r)') = watermark[r] + 1
    BY <1>7, <2>1, <2>5, Zenon
  <2> QED
    BY <1>7, <2>2, <2>3, <2>4, <2>6, Zenon
<1>11. CASE r # q
  <2>1. ConsumedBy(r)' = ConsumedBy(r)
    <3>1. \A p \in Databases \X Transfers :
            consumed'[p[1]][p[2]].dst = r <=> consumed[p[1]][p[2]].dst = r
      BY <1>3, <1>4, <1>5, <1>6, <1>11, Zenon
    <3> QED
      BY <3>1, Zenon DEF ConsumedBy
  <2>2. {consumed'[p[1]][p[2]].watermark : p \in ConsumedBy(r)'}
          = {consumed[p[1]][p[2]].watermark : p \in ConsumedBy(r)}
    BY <1>9, <2>1, Zenon
  <2>3. watermark'[r] = watermark[r]
    BY <1>3, <1>11, Zenon
  <2> QED
    BY <1>7, <2>1, <2>2, <2>3, Zenon
<1> QED
  BY <1>10, <1>11, Zenon

\* The watermarks a region signs are 1, 2, ... without gap or repetition, for any
\* number of certificates arriving in any order and any number of times
\* (nextConsumptionWatermark).
THEOREM EscrowWatermarksDense == Spec => []WatermarksDense
<1>1. IInv /\ WatermarksDense /\ [Next]_vars => WatermarksDense'
  <2> SUFFICES ASSUME IInv, WatermarksDense, [Next]_vars PROVE WatermarksDense'
    OBVIOUS
  <2>1. CASE UNCHANGED <<consumed, watermark>>
    BY <2>1, SameWatermarks
  <2>2. ASSUME NEW d \in Databases, NEW t \in Transfers, SignReceipt(d, t)
        PROVE  WatermarksDense'
    <3>1. /\ consumed[d][t] \in ConsumedRow
          /\ consumed' = [consumed EXCEPT ![d][t].signed = TRUE]
          /\ watermark' = watermark
      BY <2>2, Zenon DEF IInv, TypeOK, SignReceipt
    <3>2. \A e \in Databases, u \in Transfers :
            /\ consumed'[e][u].dst = consumed[e][u].dst
            /\ consumed'[e][u].watermark = consumed[e][u].watermark
      BY <3>1, Zenon DEF IInv, TypeOK, ConsumedRow
    <3> QED
      BY <3>1, <3>2, SameWatermarks, Zenon
  <2>3. ASSUME NEW s \in Databases, NEW t \in Transfers, Consume(s, t)
        PROVE  WatermarksDense'
    BY <2>3, ConsumeWatermarks
  <2>4. ASSUME LocalEffect PROVE UNCHANGED <<consumed, watermark>>
    <3>1. \E e \in Effects, r \in Regions, n \in Amounts, kind \in {"ALLOCATE", "SPEND", "RETURN"} :
            Receipted(e, kind, r, n)
      BY <2>4, Zenon DEF LocalEffect, Allocate, Spend, Return
    <3> QED
      BY <3>1, Zenon DEF Receipted
  <2>5. ASSUME NEW d \in Databases, CreateAuthority(d) PROVE UNCHANGED <<consumed, watermark>>
    BY <2>5, Zenon DEF CreateAuthority
  <2>6. ASSUME NEW q \in Requests, Initiate(q) PROVE UNCHANGED <<consumed, watermark>>
    BY <2>6, Zenon DEF Initiate
  <2>7. ASSUME NEW d \in Databases, NEW t \in Transfers, SignCertificate(d, t)
        PROVE  UNCHANGED <<consumed, watermark>>
    BY <2>7, Zenon DEF SignCertificate
  <2>8. ASSUME NEW s \in Databases, NEW d \in Databases, NEW t \in Transfers, Acknowledge(s, t, d)
        PROVE  UNCHANGED <<consumed, watermark>>
    BY <2>8, Zenon DEF Acknowledge
  <2>9. ASSUME NEW r \in Regions, NEW u \in Purposes, Rotate(r, u)
        PROVE  UNCHANGED <<consumed, watermark>>
    BY <2>9, Zenon DEF Rotate
  <2>10. UNCHANGED vars => UNCHANGED <<consumed, watermark>>
    BY Zenon DEF vars
  <2> QED
    BY <2>1, <2>2, <2>3, <2>4, <2>5, <2>6, <2>7, <2>8, <2>9, <2>10, Zenon DEF Next
<1> QED
  BY InitWatermarks, <1>1, EscrowInvariant, PTL DEF Spec

=============================================================================
