------------------------ MODULE EscrowTransferProofs ------------------------
(***************************************************************************)
(* Proofs about EscrowTransfer, for any number of databases, regions,      *)
(* transfers and effects: first the facts about rows that every step       *)
(* keeps, then the sums over them, then the watermarks.                    *)
(***************************************************************************)
EXTENDS EscrowTransfer, TLAPS

\* An issued certificate names regions, was issued in the database of its source
\* and carries an epoch the source's rights row has reached.
IssuedWell ==
  \A s \in Databases, t \in Transfers :
    LET c == transfers[s][t]
    IN  /\ c.status # "NONE" => /\ c.src \in Regions /\ c.dst \in Regions
                                /\ s = DbOf[c.src]
                                /\ c.epoch <= rights[c.src].version
        /\ c.signed => c.status # "NONE"

\* A consumption is in the database of its destination.
ConsumedWell ==
  \A d \in Databases, t \in Transfers :
    consumed[d][t] # NoConsumption =>
      /\ consumed[d][t].dst \in Regions
      /\ d = DbOf[consumed[d][t].dst]

\* IssuanceUnique and SettledMeansConsumed, without the pairs.
Unique ==
  \A s \in Databases, u \in Databases, t \in Transfers, v \in Transfers :
    /\ transfers[s][t].status # "NONE" /\ transfers[u][v].status # "NONE"
    /\ transfers[s][t].src = transfers[u][v].src
    /\ transfers[s][t].epoch = transfers[u][v].epoch
    => s = u /\ t = v

Backed ==
  \A d \in Databases, t \in Transfers : consumed[d][t] # NoConsumption =>
    \E s \in Databases : /\ transfers[s][t].signed
                         /\ ReceiptMatches(consumed[d][t], transfers[s][t])

Settled ==
  \A s \in Databases, t \in Transfers :
    transfers[s][t].status = "ACKNOWLEDGED" =>
      ReceiptMatches(consumed[DbOf[transfers[s][t].dst]][t], transfers[s][t])

\* The inductive invariant.
IInv == TypeOK /\ IssuedWell /\ ConsumedWell /\ Unique /\ Backed /\ Settled

\* Versions of rights rows are integers, so that they can be compared.
LEMMA VersionsAreInts ==
  /\ TypeOK => \A r \in Regions : rights[r].version \in Int
  /\ TypeOK' => \A r \in Regions : rights'[r].version \in Int
<1>1. ASSUME NEW f \in [Regions -> [available : Nat, version : Nat \cup {-1}]],
             NEW r \in Regions
      PROVE  f[r].version \in Int
  OBVIOUS
<1> QED
  BY <1>1, Zenon DEF TypeOK

\* So are the epochs of certificates.
LEMMA EpochsAreNats ==
  TypeOK => \A s \in Databases, t \in Transfers : transfers[s][t].epoch \in Nat
<1>1. TypeOK => \A s \in Databases, t \in Transfers : transfers[s][t] \in TransferRow
  BY Zenon DEF TypeOK
<1>2. \A c \in TransferRow : c.epoch \in Nat
  BY DEF TransferRow
<1> QED
  BY <1>1, <1>2, Zenon

\* A row that is not there names no region and has no signature.
LEMMA NoConsumptionNamesNone ==
  NoConsumption.src = "none" /\ NoConsumption.dst = "none" /\ ~NoConsumption.signed
BY DEF NoConsumption

\* A step that keeps what certificates say: it issues none, may sign one, and
\* acknowledges none or one.
SameIssuances ==
  \A s \in Databases, t \in Transfers :
    /\ transfers'[s][t].src = transfers[s][t].src
    /\ transfers'[s][t].dst = transfers[s][t].dst
    /\ transfers'[s][t].amount = transfers[s][t].amount
    /\ transfers'[s][t].epoch = transfers[s][t].epoch
    /\ transfers'[s][t].key = transfers[s][t].key
    /\ transfers'[s][t].status = "NONE" <=> transfers[s][t].status = "NONE"
    /\ transfers[s][t].signed => transfers'[s][t].signed
    /\ transfers'[s][t].signed => transfers'[s][t].status # "NONE"

\* A step that consumes nothing and may sign a receipt.
SameConsumptions ==
  \A d \in Databases, t \in Transfers :
    /\ consumed'[d][t].src = consumed[d][t].src
    /\ consumed'[d][t].dst = consumed[d][t].dst
    /\ consumed'[d][t].amount = consumed[d][t].amount
    /\ consumed'[d][t].epoch = consumed[d][t].epoch
    /\ consumed'[d][t].key = consumed[d][t].key
    /\ consumed[d][t] = NoConsumption => consumed'[d][t] = NoConsumption

\* A step that changes at most one transfer row.
OnlyTransfer(s, t) ==
  \A u \in Databases, v \in Transfers : u # s \/ v # t => transfers'[u][v] = transfers[u][v]

\* A step that changes the status or the signature of one certificate.
LEMMA OneRowSame ==
  ASSUME IssuedWell, NEW s \in Databases, NEW t \in Transfers, OnlyTransfer(s, t),
         NEW c, NEW x, c = transfers[s][t], x = transfers'[s][t],
         x.src = c.src, x.dst = c.dst, x.amount = c.amount, x.epoch = c.epoch, x.key = c.key,
         c.status # "NONE", x.status # "NONE", c.signed => x.signed
  PROVE  SameIssuances
<1> SUFFICES ASSUME NEW u \in Databases, NEW v \in Transfers
             PROVE  /\ transfers'[u][v].src = transfers[u][v].src
                    /\ transfers'[u][v].dst = transfers[u][v].dst
                    /\ transfers'[u][v].amount = transfers[u][v].amount
                    /\ transfers'[u][v].epoch = transfers[u][v].epoch
                    /\ transfers'[u][v].key = transfers[u][v].key
                    /\ transfers'[u][v].status = "NONE" <=> transfers[u][v].status = "NONE"
                    /\ transfers[u][v].signed => transfers'[u][v].signed
                    /\ transfers'[u][v].signed => transfers'[u][v].status # "NONE"
  BY Zenon DEF SameIssuances
<1>1. CASE u = s /\ v = t
  BY <1>1, Zenon
<1>2. CASE u # s \/ v # t
  <2>1. transfers'[u][v] = transfers[u][v]
    BY <1>2, Zenon DEF OnlyTransfer
  <2>2. transfers[u][v].signed => transfers[u][v].status # "NONE"
    BY Zenon DEF IssuedWell
  <2> QED
    BY <2>1, <2>2, Zenon
<1> QED
  BY <1>1, <1>2, Zenon

\* Untouched tables keep their rows.
LEMMA UntouchedTables ==
  /\ IssuedWell /\ transfers' = transfers => SameIssuances
  /\ consumed' = consumed => SameConsumptions
<1>1. IssuedWell => \A s \in Databases, t \in Transfers :
                      transfers[s][t].signed => transfers[s][t].status # "NONE"
  BY Zenon DEF IssuedWell
<1>2. ASSUME IssuedWell, transfers' = transfers PROVE SameIssuances
  BY <1>1, <1>2, Zenon DEF SameIssuances
<1>3. ASSUME consumed' = consumed PROVE SameConsumptions
  BY <1>3, Zenon DEF SameConsumptions
<1> QED
  BY <1>2, <1>3, Zenon

\* Such steps keep a receipt and a certificate matching.
LEMMA MatchesStay ==
  ASSUME SameIssuances, SameConsumptions,
         NEW d \in Databases, NEW s \in Databases, NEW t \in Transfers
  PROVE  ReceiptMatches(consumed'[d][t], transfers'[s][t])
           <=> ReceiptMatches(consumed[d][t], transfers[s][t])
BY DEF SameIssuances, SameConsumptions, ReceiptMatches, SameIssuance

\* Certificates stay unique while none is issued.
LEMMA UniqueStays == Unique /\ SameIssuances => Unique'
BY DEF Unique, SameIssuances

\* Certificates stay well issued while versions only grow.
LEMMA IssuedStays ==
  ASSUME TypeOK, TypeOK', IssuedWell, SameIssuances,
         \A r \in Regions : rights[r].version <= rights'[r].version
  PROVE  IssuedWell'
<1> SUFFICES ASSUME NEW s \in Databases, NEW t \in Transfers
             PROVE  LET c == transfers'[s][t]
                    IN  /\ c.status # "NONE" => /\ c.src \in Regions /\ c.dst \in Regions
                                                /\ s = DbOf[c.src]
                                                /\ c.epoch <= rights'[c.src].version
                        /\ c.signed => c.status # "NONE"
  BY Zenon DEF IssuedWell
<1> DEFINE c == transfers[s][t]
           v == rights[c.src].version
           w == rights'[c.src].version
<1>1. /\ transfers'[s][t].src = c.src /\ transfers'[s][t].dst = c.dst
      /\ transfers'[s][t].epoch = c.epoch
      /\ transfers'[s][t].status = "NONE" <=> c.status = "NONE"
      /\ transfers'[s][t].signed => transfers'[s][t].status # "NONE"
  BY Zenon DEF SameIssuances
<1>2. c.status # "NONE" => /\ c.src \in Regions /\ c.dst \in Regions /\ s = DbOf[c.src]
                           /\ c.epoch <= v
  BY Zenon DEF IssuedWell
<1>3. c.epoch \in Nat
  BY EpochsAreNats, Zenon
<1>4. ASSUME c.status # "NONE" PROVE c.epoch <= w
  <2>1. v \in Int /\ w \in Int /\ v <= w
    BY <1>2, <1>4, VersionsAreInts, Zenon
  <2>2. c.epoch <= v
    BY <1>2, <1>4, Zenon
  <2> HIDE DEF c, v, w
  <2> QED
    BY <1>3, <2>1, <2>2
<1> QED
  BY <1>1, <1>2, <1>4, Zenon

\* Such steps keep where consumptions are and what backs them.
LEMMA ConsumptionsStay ==
  ASSUME ConsumedWell, Backed, SameIssuances, SameConsumptions
  PROVE  ConsumedWell' /\ Backed'
<1>1. ConsumedWell'
  BY DEF ConsumedWell, SameConsumptions
<1>2. Backed'
  <2> SUFFICES ASSUME NEW d \in Databases, NEW t \in Transfers,
                      consumed'[d][t] # NoConsumption
               PROVE  \E s \in Databases :
                        /\ transfers'[s][t].signed
                        /\ ReceiptMatches(consumed'[d][t], transfers'[s][t])
    BY Zenon DEF Backed
  <2>1. consumed[d][t] # NoConsumption
    BY Zenon DEF SameConsumptions
  <2>2. PICK s \in Databases : /\ transfers[s][t].signed
                               /\ ReceiptMatches(consumed[d][t], transfers[s][t])
    BY <2>1, Zenon DEF Backed
  <2>3. transfers'[s][t].signed
    BY <2>2, Zenon DEF SameIssuances
  <2> QED
    BY <2>2, <2>3, MatchesStay, Zenon
<1> QED
  BY <1>1, <1>2, Zenon

\* And settled transfers stay settled while no receipt is accepted.
LEMMA SettledStays ==
  ASSUME IssuedWell, Settled, SameIssuances, SameConsumptions,
         NEW s \in Databases, NEW t \in Transfers,
         transfers'[s][t].status = "ACKNOWLEDGED",
         ReceiptMatches(consumed[DbOf[transfers[s][t].dst]][t], transfers[s][t])
  PROVE  ReceiptMatches(consumed'[DbOf[transfers'[s][t].dst]][t], transfers'[s][t])
<1>1. transfers'[s][t].dst = transfers[s][t].dst /\ transfers[s][t].status # "NONE"
  BY Zenon DEF SameIssuances
<1>2. DbOf[transfers[s][t].dst] \in Databases
  BY <1>1, DbOfAssumption, Zenon DEF IssuedWell
<1> QED
  BY <1>1, <1>2, MatchesStay, Zenon

\* A step of a service that issues, consumes and settles nothing keeps the invariant.
LEMMA QuietStep ==
  ASSUME IInv, TypeOK', SameIssuances, SameConsumptions,
         \A r \in Regions : rights[r].version <= rights'[r].version,
         \A s \in Databases, t \in Transfers :
           transfers'[s][t].status = "ACKNOWLEDGED" =>
             ReceiptMatches(consumed[DbOf[transfers[s][t].dst]][t], transfers[s][t])
  PROVE  IInv'
<1>1. TypeOK /\ IssuedWell /\ ConsumedWell /\ Unique /\ Backed /\ Settled
  BY Zenon DEF IInv
<1>2. IssuedWell' /\ Unique'
  BY <1>1, IssuedStays, UniqueStays, Zenon
<1>3. ConsumedWell' /\ Backed'
  BY <1>1, ConsumptionsStay, Zenon
<1>4. Settled'
  BY <1>1, SettledStays, Zenon DEF Settled
<1> QED
  BY <1>2, <1>3, <1>4, Zenon DEF IInv

\* Versions that do not change do not go down.
LEMMA SameVersions ==
  ASSUME TypeOK, rights' = rights
  PROVE  \A r \in Regions : rights[r].version <= rights'[r].version
BY VersionsAreInts

\* A step that leaves the certificates and the consumptions alone keeps the invariant.
LEMMA UntouchedStep ==
  ASSUME IInv, TypeOK', transfers' = transfers, consumed' = consumed,
         rights' = rights \/ \A r \in Regions : rights[r].version <= rights'[r].version
  PROVE  IInv'
<1>1. \A r \in Regions : rights[r].version <= rights'[r].version
  BY SameVersions, Zenon DEF IInv
<1>2. SameIssuances /\ SameConsumptions
  BY UntouchedTables, Zenon DEF IInv
<1>3. \A s \in Databases, t \in Transfers :
        transfers'[s][t].status = "ACKNOWLEDGED" =>
          ReceiptMatches(consumed[DbOf[transfers[s][t].dst]][t], transfers[s][t])
  BY Zenon DEF IInv, Settled
<1> QED
  BY <1>1, <1>2, <1>3, QuietStep, Zenon

\* Empty tables satisfy the inductive invariant.
LEMMA InitIInv == Init => IInv
<1> SUFFICES ASSUME Init PROVE IInv
  OBVIOUS
<1>1. TypeOK
  BY GrantsAssumption DEF Init, TypeOK, NoAuthority, NoRights, NoTransfer, NoConsumption,
     NoReceipt, TransferRow, ConsumedRow, ReceiptRow, Purposes
<1>2. IssuedWell /\ ConsumedWell /\ Unique /\ Backed /\ Settled
  BY Zenon DEF Init, IssuedWell, ConsumedWell, Unique, Backed, Settled, NoTransfer
<1> QED
  BY <1>1, <1>2 DEF IInv

\* The request an Initiate is made for.
LEMMA RequestFacts ==
  ASSUME NEW q \in Requests
  PROVE  /\ q.src \in Regions /\ q.dst \in Regions
         /\ q.amount \in Nat /\ q.id \in Transfers
         /\ DbOf[q.src] \in Databases /\ DbOf[q.dst] \in Databases
BY RequestsAssumption, DbOfAssumption DEF Transfers

\* Creating an authority and funding its regions keeps the invariant.
LEMMA CreateAuthorityStep ==
  ASSUME IInv, NEW d \in Databases, CreateAuthority(d)
  PROVE  IInv'
<1>1. TypeOK'
  BY GrantsAssumption, Zenon DEF IInv, TypeOK, CreateAuthority
<1>2. UNCHANGED <<rights, transfers, consumed>>
  BY Zenon DEF CreateAuthority
<1> QED
  BY <1>1, <1>2, UntouchedStep, Zenon

\* A step that only moves the rights row forward keeps the facts about transfers.
LEMMA LocalEffectStep ==
  ASSUME IInv, NEW e \in Effects, NEW r \in Regions, NEW n \in Amounts,
         Allocate(e, r, n) \/ Spend(e, r, n) \/ Return(e, r, n)
  PROVE  IInv'
<1> USE AmountsAssumption, DbOfAssumption
<1>a. n \in Nat /\ DbOf[r] \in Databases
  OBVIOUS
<1>b. /\ rights[r].version \in Nat \cup {-1} /\ rights[r].available \in Nat
      /\ auth[DbOf[r]].total \in Nat /\ auth[DbOf[r]].unallocated \in Nat
      /\ auth[DbOf[r]].exists \in BOOLEAN
  BY <1>a, Zenon DEF IInv, TypeOK
<1>1. /\ UNCHANGED <<transfers, consumed, granted, watermark, key>>
      /\ receipts' \in [Databases -> [Effects -> ReceiptRow]]
  <2>1. \E kind \in {"ALLOCATE", "SPEND", "RETURN"} : Receipted(e, kind, r, n)
    BY Zenon DEF Allocate, Spend, Return
  <2> QED
    BY <2>1, <1>a DEF Receipted, IInv, TypeOK, ReceiptRow
<1>2. \E m \in Int : /\ rights' = [rights EXCEPT ![r] = Adjusted(rights[r], m)]
                     /\ rights[r].available + m \in Nat
  <2>1. CASE Allocate(e, r, n)
    <3>1. rights' = [rights EXCEPT ![r] = Adjusted(rights[r], n)]
      BY <2>1, Zenon DEF Allocate
    <3>2. n \in Int /\ rights[r].available + n \in Nat
      BY <1>a, <1>b
    <3> QED
      BY <3>1, <3>2, Zenon
  <2>2. CASE Spend(e, r, n)
    <3>1. rights' = [rights EXCEPT ![r] = Adjusted(rights[r], -n)]
      BY <2>2, Zenon DEF Spend
    <3>2. -n \in Int /\ rights[r].available + (-n) \in Nat
      BY <2>2, <1>a, <1>b DEF Spend, Enough
    <3> QED
      BY <3>1, <3>2, Zenon
  <2>3. CASE Return(e, r, n)
    <3>1. rights' = [rights EXCEPT ![r] = Adjusted(rights[r], n)]
      BY <2>3, Zenon DEF Return
    <3>2. n \in Int /\ rights[r].available + n \in Nat
      BY <1>a, <1>b
    <3> QED
      BY <3>1, <3>2, Zenon
  <2> QED
    BY <2>1, <2>2, <2>3, Zenon
<1>3. rights' \in [Regions -> [available : Nat, version : Nat \cup {-1}]]
  BY <1>2, <1>b DEF IInv, TypeOK, Adjusted
<1>4. auth' \in [Databases -> [exists : BOOLEAN, total : Nat, unallocated : Nat]]
  <2>1. \E row \in [exists : BOOLEAN, total : Nat, unallocated : Nat] :
           auth' = [auth EXCEPT ![DbOf[r]] = row]
    <3>1. CASE Allocate(e, r, n)
      <4>1. [exists |-> TRUE, total |-> auth[DbOf[r]].total,
             unallocated |-> auth[DbOf[r]].unallocated - n]
               \in [exists : BOOLEAN, total : Nat, unallocated : Nat]
        BY <3>1, <1>a, <1>b DEF Allocate
      <4> QED
        BY <3>1, <4>1, Zenon DEF Allocate
    <3>2. CASE Spend(e, r, n)
      <4>1. Lowered(auth[DbOf[r]], n) \in [exists : BOOLEAN, total : Nat, unallocated : Nat]
        BY <3>2, <1>a, <1>b DEF Spend, Lowered, Covers
      <4> QED
        BY <3>2, <4>1, Zenon DEF Spend
    <3>3. CASE Return(e, r, n)
      <4>1. Raised(auth[DbOf[r]], n) \in [exists : BOOLEAN, total : Nat, unallocated : Nat]
        BY <1>a, <1>b DEF Raised
      <4> QED
        BY <3>3, <4>1, Zenon DEF Return
    <3> QED
      BY <3>1, <3>2, <3>3, Zenon
  <2> QED
    BY <2>1, <1>a DEF IInv, TypeOK
<1>5. TypeOK'
  BY <1>1, <1>3, <1>4, Zenon DEF IInv, TypeOK
<1>6. \A q \in Regions : rights[q].version <= rights'[q].version
  BY <1>2, <1>b DEF IInv, TypeOK, Adjusted
<1> QED
  BY <1>1, <1>5, <1>6, UntouchedStep, Zenon

\* Burning rights for a draft keeps it: the new source epoch is one no certificate of
\* the region has.
LEMMA InitiateStep ==
  ASSUME IInv, NEW q \in Requests, Initiate(q)
  PROVE  IInv'
<1> DEFINE d == DbOf[q.src]
           row == [src |-> q.src, dst |-> q.dst, amount |-> q.amount,
                   epoch |-> rights[q.src].version + 1,
                   key |-> key[q.src]["certificate"], signed |-> FALSE,
                   status |-> "IN_TRANSIT"]
<1>a. /\ q.src \in Regions /\ q.dst \in Regions /\ d \in Databases
      /\ q.amount \in Nat /\ q.id \in Transfers
  BY RequestFacts
<1>b. /\ rights[q.src].version \in Nat /\ rights[q.src].available \in Nat
      /\ rights[q.src].available >= q.amount
      /\ key[q.src]["certificate"] \in Nat
  BY <1>a DEF IInv, TypeOK, Initiate, Enough, Purposes
<1>c. /\ transfers[d][q.id].status = "NONE"
      /\ rights' = [rights EXCEPT ![q.src] = Adjusted(rights[q.src], -q.amount)]
      /\ transfers' = [transfers EXCEPT ![d][q.id] = row]
      /\ UNCHANGED <<auth, granted, consumed, watermark, receipts, key>>
  BY Zenon DEF Initiate
<1>1. row \in TransferRow
  BY <1>a, <1>b DEF TransferRow
<1>2. /\ transfers' \in [Databases -> [Transfers -> TransferRow]]
      /\ transfers'[d][q.id] = row
      /\ \A s \in Databases, t \in Transfers :
           ~(s = d /\ t = q.id) => transfers'[s][t] = transfers[s][t]
  <2> HIDE DEF row
  <2> QED
    BY <1>a, <1>c, <1>1, Zenon DEF IInv, TypeOK
<1>3. /\ rights' \in [Regions -> [available : Nat, version : Nat \cup {-1}]]
      /\ rights'[q.src].version = rights[q.src].version + 1
      /\ \A r \in Regions : rights[r].version <= rights'[r].version
  <2>1. Adjusted(rights[q.src], -q.amount) \in [available : Nat, version : Nat \cup {-1}]
    BY <1>a, <1>b DEF Adjusted
  <2>2. Adjusted(rights[q.src], -q.amount).version = rights[q.src].version + 1
    BY DEF Adjusted
  <2> QED
    BY <2>1, <2>2, <1>a, <1>b, <1>c DEF IInv, TypeOK
<1>4. TypeOK'
  BY <1>2, <1>3, <1>c, Zenon DEF IInv, TypeOK
<1>5. IssuedWell'
  <2> SUFFICES ASSUME NEW s \in Databases, NEW t \in Transfers
               PROVE  LET c == transfers'[s][t]
                      IN  /\ c.status # "NONE" => /\ c.src \in Regions /\ c.dst \in Regions
                                                  /\ s = DbOf[c.src]
                                                  /\ c.epoch <= rights'[c.src].version
                          /\ c.signed => c.status # "NONE"
    BY Zenon DEF IssuedWell
  <2>1. CASE s = d /\ t = q.id
    BY <2>1, <1>a, <1>b, <1>2, <1>3
  <2>2. CASE ~(s = d /\ t = q.id)
    <3>1. /\ transfers'[s][t] = transfers[s][t]
          /\ transfers[s][t].signed => transfers[s][t].status # "NONE"
      BY <2>2, <1>2, Zenon DEF IInv, IssuedWell
    <3>2. ASSUME transfers[s][t].status # "NONE"
          PROVE  /\ transfers[s][t].src \in Regions /\ transfers[s][t].dst \in Regions
                 /\ s = DbOf[transfers[s][t].src]
                 /\ transfers[s][t].epoch \in Nat
                 /\ transfers[s][t].epoch <= rights[transfers[s][t].src].version
      BY <3>2 DEF IInv, TypeOK, TransferRow, IssuedWell
    <3>3. ASSUME transfers[s][t].status # "NONE"
          PROVE  transfers[s][t].epoch <= rights'[transfers[s][t].src].version
      BY <3>3, <3>2, <1>3, <1>4, VersionsAreInts DEF IInv
    <3> QED
      BY <3>1, <3>2, <3>3, Zenon
  <2> QED
    BY <2>1, <2>2, Zenon
<1>6. Unique'
  <2>1. \A s \in Databases, t \in Transfers :
          transfers[s][t].status # "NONE" /\ transfers[s][t].src = q.src
            => transfers[s][t].epoch # row.epoch
    BY <1>a, <1>b DEF IInv, TypeOK, TransferRow, IssuedWell
  <2> HIDE DEF d
  <2>2. row.src = q.src
    OBVIOUS
  <2> HIDE DEF row
  <2> QED
    BY <1>a, <1>2, <2>1, <2>2 DEF IInv, Unique
<1>7. Backed'
  <2>1. ~transfers[d][q.id].signed
    BY <1>a, <1>c, Zenon DEF IInv, IssuedWell
  <2> HIDE DEF d, row
  <2> QED
    BY <1>2, <1>c, <2>1 DEF IInv, Backed
<1>8. Settled'
  <2>1. row.status # "ACKNOWLEDGED"
    OBVIOUS
  <2> HIDE DEF d, row
  <2> QED
    BY <1>2, <1>c, <2>1 DEF IInv, Settled
<1> QED
  BY <1>4, <1>5, <1>6, <1>7, <1>8, <1>c, Zenon DEF IInv, ConsumedWell

\* Signing a draft changes its signature only.
LEMMA SignCertificateWrites ==
  ASSUME TypeOK, NEW d \in Databases, NEW t \in Transfers, SignCertificate(d, t)
  PROVE  LET c == transfers[d][t]
             x == transfers'[d][t]
         IN  /\ transfers' \in [Databases -> [Transfers -> TransferRow]] /\ OnlyTransfer(d, t)
             /\ x.src = c.src /\ x.dst = c.dst /\ x.amount = c.amount /\ x.epoch = c.epoch
             /\ x.key = c.key /\ x.status = c.status /\ x.signed
             /\ c.status = "IN_TRANSIT"
             /\ UNCHANGED <<auth, granted, rights, consumed, watermark, receipts, key>>
<1> DEFINE c == transfers[d][t]
           row == [c EXCEPT !.signed = TRUE]
<1>1. transfers' = [transfers EXCEPT ![d][t] = row] /\ c.status = "IN_TRANSIT"
  BY Zenon DEF SignCertificate
<1>2. UNCHANGED <<auth, granted, rights, consumed, watermark, receipts, key>>
  BY Zenon DEF SignCertificate
<1>3. c \in TransferRow
  BY Zenon DEF TypeOK
<1>4. /\ row \in TransferRow /\ row.src = c.src /\ row.dst = c.dst /\ row.amount = c.amount
      /\ row.epoch = c.epoch /\ row.key = c.key /\ row.status = c.status /\ row.signed
  BY <1>3, Zenon DEF TransferRow
<1> HIDE DEF row
<1>5. /\ transfers' \in [Databases -> [Transfers -> TransferRow]] /\ OnlyTransfer(d, t)
      /\ transfers'[d][t] = row
  BY <1>1, <1>4, Zenon DEF TypeOK, OnlyTransfer
<1> QED
  BY <1>1, <1>2, <1>4, <1>5, Zenon

\* It keeps the invariant.
LEMMA SignCertificateStep ==
  ASSUME IInv, NEW d \in Databases, NEW t \in Transfers, SignCertificate(d, t)
  PROVE  IInv' /\ SameIssuances
<1> DEFINE c == transfers[d][t]
           x == transfers'[d][t]
<1>1. TypeOK /\ IssuedWell /\ Settled
  BY Zenon DEF IInv
<1>2. /\ transfers' \in [Databases -> [Transfers -> TransferRow]] /\ OnlyTransfer(d, t)
      /\ x.src = c.src /\ x.dst = c.dst /\ x.amount = c.amount /\ x.epoch = c.epoch
      /\ x.key = c.key /\ x.status = c.status /\ x.signed /\ c.status = "IN_TRANSIT"
      /\ UNCHANGED <<auth, granted, rights, consumed, watermark, receipts, key>>
  BY <1>1, SignCertificateWrites, Zenon
<1>3. c = transfers[d][t] /\ x = transfers'[d][t] /\ c.status # "NONE" /\ x.status # "NONE"
  BY <1>2, Zenon
<1> HIDE DEF c, x
<1>4. SameIssuances
  BY <1>1, <1>2, <1>3, OneRowSame, Zenon
<1>5. TypeOK'
  BY <1>1, <1>2, Zenon DEF TypeOK
<1>6. SameConsumptions /\ \A r \in Regions : rights[r].version <= rights'[r].version
  BY <1>1, <1>2, UntouchedTables, SameVersions, Zenon
<1>7. ASSUME NEW s \in Databases, NEW u \in Transfers,
             transfers'[s][u].status = "ACKNOWLEDGED"
      PROVE  ReceiptMatches(consumed[DbOf[transfers[s][u].dst]][u], transfers[s][u])
  <2>1. s # d \/ u # t
    BY <1>2, <1>3, <1>7, Zenon
  <2>2. transfers[s][u].status = "ACKNOWLEDGED"
    BY <1>2, <1>7, <2>1, Zenon DEF OnlyTransfer
  <2> QED
    BY <1>1, <2>2, Zenon DEF Settled
<1> QED
  BY <1>4, <1>5, <1>6, <1>7, QuietStep, Zenon

\* The sum of an authority row and an amount is an authority row,
\* whichever operation adds it.
LEMMA RaisedType ==
  ASSUME NEW a, NEW n \in Nat, a.total \in Nat, a.unallocated \in Nat
  PROVE  Raised(a, n) \in [exists : BOOLEAN, total : Nat, unallocated : Nat]
BY DEF Raised

\* A rights row that gains an amount is a rights row of no older version.
LEMMA AdjustedType ==
  ASSUME NEW r, NEW n \in Nat, r.available \in Nat, r.version \in Nat \cup {-1}
  PROVE  /\ Adjusted(r, n) \in [available : Nat, version : Nat \cup {-1}]
         /\ Adjusted(r, n).version >= r.version
BY DEF Adjusted

\* Consuming a certificate keeps it: the new row matches the signed certificate it is for.
LEMMA ConsumeStep ==
  ASSUME IInv, NEW s \in Databases, NEW t \in Transfers, Consume(s, t)
  PROVE  IInv'
<1> DEFINE c == transfers[s][t]
           d == DbOf[c.dst]
           row == [src |-> c.src, dst |-> c.dst, amount |-> c.amount, epoch |-> c.epoch,
                   key |-> c.key, watermark |-> NextWatermark(c.dst),
                   receiptKey |-> key[c.dst]["receipt"], signed |-> FALSE]
<1>a. /\ c \in TransferRow /\ c.signed /\ c.src \in Regions /\ c.dst \in Regions
      /\ d \in Databases
  <2>1. c \in TransferRow
    BY DEF IInv, TypeOK
  <2>2. c.signed
    BY Zenon DEF Consume
  <2>3. c.src \in Regions /\ c.dst \in Regions
    BY <2>2, Zenon DEF IInv, IssuedWell
  <2> QED
    BY <2>1, <2>2, <2>3, DbOfAssumption, Zenon
<1>b. /\ consumed[d][t] = NoConsumption
      /\ consumed' = [consumed EXCEPT ![d][t] = row]
      /\ watermark' = [watermark EXCEPT ![c.dst] = NextWatermark(c.dst)]
      /\ auth' = [auth EXCEPT ![d] = Raised(auth[d], c.amount)]
      /\ rights' = [rights EXCEPT ![c.dst] = Adjusted(rights[c.dst], c.amount)]
      /\ UNCHANGED <<granted, transfers, receipts, key>>
  BY Zenon DEF Consume, Unconsumed
<1>c. /\ c.amount \in Nat /\ NextWatermark(c.dst) \in Nat /\ key[c.dst]["receipt"] \in Nat
      /\ rights[c.dst].available \in Nat /\ rights[c.dst].version \in Nat \cup {-1}
      /\ auth[d].total \in Nat /\ auth[d].unallocated \in Nat
  <2>1. c.amount \in Nat
    BY <1>a, Zenon DEF TransferRow
  <2>2. watermark[c.dst] \in Nat /\ key[c.dst]["receipt"] \in Nat
    BY <1>a, Zenon DEF IInv, TypeOK, Purposes
  <2>3. /\ rights[c.dst].available \in Nat /\ rights[c.dst].version \in Nat \cup {-1}
        /\ auth[d].total \in Nat /\ auth[d].unallocated \in Nat
    BY <1>a, Zenon DEF IInv, TypeOK
  <2>4. NextWatermark(c.dst) \in Nat
    BY <2>2 DEF NextWatermark
  <2> QED
    BY <2>1, <2>2, <2>3, <2>4, Zenon
<1>1. row \in ConsumedRow
  BY <1>a, <1>c, Zenon DEF ConsumedRow, TransferRow
<1>2. ReceiptMatches(row, c) /\ row.dst = c.dst
  BY Zenon DEF ReceiptMatches, SameIssuance
<1>3. Raised(auth[d], c.amount) \in [exists : BOOLEAN, total : Nat, unallocated : Nat]
  BY <1>c, RaisedType, Zenon
<1>4. /\ Adjusted(rights[c.dst], c.amount) \in [available : Nat, version : Nat \cup {-1}]
      /\ Adjusted(rights[c.dst], c.amount).version >= rights[c.dst].version
  BY <1>c, AdjustedType, Zenon
<1>n. d = DbOf[c.dst]
  OBVIOUS
<1>m. c = transfers[s][t]
  OBVIOUS
<1> HIDE DEF c, d, row
<1>5. /\ consumed' \in [Databases -> [Transfers -> ConsumedRow]]
      /\ consumed'[d][t] = row
      /\ \A e \in Databases, u \in Transfers :
           ~(e = d /\ u = t) => consumed'[e][u] = consumed[e][u]
  BY <1>a, <1>b, <1>1, Zenon DEF IInv, TypeOK
<1>6. /\ rights' \in [Regions -> [available : Nat, version : Nat \cup {-1}]]
      /\ \A r \in Regions : rights[r].version <= rights'[r].version
  BY <1>a, <1>b, <1>4 DEF IInv, TypeOK
<1>7. TypeOK'
  BY <1>a, <1>b, <1>c, <1>3, <1>5, <1>6, Zenon DEF IInv, TypeOK
<1>8. IssuedWell' /\ Unique'
  <2>1. SameIssuances /\ TypeOK /\ IssuedWell /\ Unique
    BY <1>b, UntouchedTables, Zenon DEF IInv
  <2> QED
    BY <1>6, <1>7, <2>1, IssuedStays, UniqueStays, Zenon
<1>9. ConsumedWell'
  BY <1>a, <1>2, <1>5, <1>n DEF IInv, ConsumedWell
<1>10. Backed'
  <2> SUFFICES ASSUME NEW e \in Databases, NEW u \in Transfers, consumed'[e][u] # NoConsumption
               PROVE  \E b \in Databases :
                        /\ transfers[b][u].signed
                        /\ ReceiptMatches(consumed'[e][u], transfers[b][u])
    BY <1>b, Zenon DEF Backed
  <2>1. CASE e = d /\ u = t
    BY <1>a, <1>2, <1>5, <1>m, <2>1, Zenon
  <2>2. CASE ~(e = d /\ u = t)
    BY <1>5, <2>2, Zenon DEF IInv, Backed
  <2> QED
    BY <2>1, <2>2, Zenon
<1>11. Settled'
  <2> SUFFICES ASSUME NEW e \in Databases, NEW u \in Transfers,
                      transfers[e][u].status = "ACKNOWLEDGED"
               PROVE  ReceiptMatches(consumed'[DbOf[transfers[e][u].dst]][u], transfers[e][u])
    BY <1>b, Zenon DEF Settled
  <2>1. /\ ReceiptMatches(consumed[DbOf[transfers[e][u].dst]][u], transfers[e][u])
        /\ transfers[e][u].src \in Regions /\ transfers[e][u].dst \in Regions
        /\ DbOf[transfers[e][u].dst] \in Databases
    BY DbOfAssumption, Zenon DEF IInv, Settled, IssuedWell
  <2>2. ~(DbOf[transfers[e][u].dst] = d /\ u = t)
    <3> SUFFICES ASSUME DbOf[transfers[e][u].dst] = d, u = t PROVE FALSE
      BY Zenon
    <3>1. consumed[DbOf[transfers[e][u].dst]][u].src = "none"
      BY <1>b, NoConsumptionNamesNone, Zenon
    <3>2. consumed[DbOf[transfers[e][u].dst]][u].src = transfers[e][u].src
      BY <2>1, Zenon DEF ReceiptMatches, SameIssuance
    <3> QED
      BY <2>1, <3>1, <3>2, NoneIsNoRegion, Zenon
  <2> QED
    BY <2>1, <2>2, <1>5, Zenon
<1> QED
  BY <1>7, <1>8, <1>9, <1>10, <1>11, Zenon DEF IInv

\* Signing a receipt keeps it: only the signature changes.
LEMMA SignReceiptStep ==
  ASSUME IInv, NEW d \in Databases, NEW t \in Transfers, SignReceipt(d, t)
  PROVE  /\ IInv' /\ SameConsumptions
         /\ UNCHANGED <<auth, granted, rights, transfers, watermark, receipts, key>>
<1> DEFINE c == consumed[d][t]
           row == [c EXCEPT !.signed = TRUE]
<1>1. TypeOK /\ IssuedWell /\ Settled
  BY Zenon DEF IInv
<1>2. consumed' = [consumed EXCEPT ![d][t] = row] /\ c # NoConsumption
  BY Zenon DEF SignReceipt
<1>3. UNCHANGED <<auth, granted, rights, transfers, watermark, receipts, key>>
  BY Zenon DEF SignReceipt
<1>4. c \in ConsumedRow
  BY <1>1, Zenon DEF TypeOK
<1>5. /\ row \in ConsumedRow /\ row.src = c.src /\ row.dst = c.dst /\ row.amount = c.amount
      /\ row.epoch = c.epoch /\ row.key = c.key
  BY <1>4, Zenon DEF ConsumedRow
<1> HIDE DEF row
<1>6. /\ consumed' \in [Databases -> [Transfers -> ConsumedRow]] /\ consumed'[d][t] = row
      /\ \A e \in Databases, u \in Transfers :
           e # d \/ u # t => consumed'[e][u] = consumed[e][u]
  BY <1>1, <1>2, <1>5, Zenon DEF TypeOK
<1>7. SameConsumptions
  BY <1>2, <1>5, <1>6, Zenon DEF SameConsumptions
<1>8. TypeOK'
  BY <1>1, <1>3, <1>6, Zenon DEF TypeOK
<1>9. SameIssuances /\ \A r \in Regions : rights[r].version <= rights'[r].version
  BY <1>1, <1>3, UntouchedTables, SameVersions, Zenon
<1>10. \A s \in Databases, u \in Transfers :
         transfers'[s][u].status = "ACKNOWLEDGED" =>
           ReceiptMatches(consumed[DbOf[transfers[s][u].dst]][u], transfers[s][u])
  BY <1>1, <1>3, Zenon DEF Settled
<1> QED
  BY <1>3, <1>7, <1>8, <1>9, <1>10, QuietStep, Zenon

\* Settling changes the status of one certificate only, and the authority of its
\* database, which covers its amount.
LEMMA AcknowledgeWrites ==
  ASSUME TypeOK, NEW s \in Databases, NEW t \in Transfers, NEW d \in Databases,
         Acknowledge(s, t, d)
  PROVE  LET c == transfers[s][t]
             x == transfers'[s][t]
         IN  /\ transfers' \in [Databases -> [Transfers -> TransferRow]] /\ OnlyTransfer(s, t)
             /\ x.src = c.src /\ x.dst = c.dst /\ x.amount = c.amount /\ x.epoch = c.epoch
             /\ x.key = c.key /\ x.signed = c.signed /\ x.status = "ACKNOWLEDGED"
             /\ c.status = "IN_TRANSIT" /\ c.amount \in Nat
             /\ auth' = [auth EXCEPT ![s] = Lowered(auth[s], c.amount)]
             /\ auth[s].exists \in BOOLEAN /\ auth[s].total \in Nat
             /\ auth[s].unallocated \in Nat /\ auth[s].total >= c.amount
             /\ UNCHANGED <<granted, rights, consumed, watermark, receipts, key>>
<1> DEFINE c == transfers[s][t]
           row == [c EXCEPT !.status = "ACKNOWLEDGED"]
<1>1. transfers' = [transfers EXCEPT ![s][t] = row] /\ c.status = "IN_TRANSIT"
  BY Zenon DEF Acknowledge
<1>2. /\ auth' = [auth EXCEPT ![s] = Lowered(auth[s], c.amount)] /\ auth[s].total >= c.amount
      /\ UNCHANGED <<granted, rights, consumed, watermark, receipts, key>>
  BY Zenon DEF Acknowledge, Covers
<1>3. /\ c \in TransferRow
      /\ auth[s] \in [exists : BOOLEAN, total : Nat, unallocated : Nat]
  BY Zenon DEF TypeOK
<1>4. /\ row \in TransferRow /\ row.src = c.src /\ row.dst = c.dst /\ row.amount = c.amount
      /\ row.epoch = c.epoch /\ row.key = c.key /\ row.signed = c.signed
      /\ row.status = "ACKNOWLEDGED" /\ c.amount \in Nat
  BY <1>3, Zenon DEF TransferRow
<1> HIDE DEF row
<1>5. /\ transfers' \in [Databases -> [Transfers -> TransferRow]] /\ OnlyTransfer(s, t)
      /\ transfers'[s][t] = row
  BY <1>1, <1>4, Zenon DEF TypeOK, OnlyTransfer
<1>6. auth[s].exists \in BOOLEAN /\ auth[s].total \in Nat /\ auth[s].unallocated \in Nat
  BY <1>3, Zenon
<1> QED
  BY <1>1, <1>2, <1>4, <1>5, <1>6, Zenon

\* It keeps the invariant: the receipt that is accepted is that of a consumption.
LEMMA AcknowledgeStep ==
  ASSUME IInv, NEW s \in Databases, NEW t \in Transfers, NEW d \in Databases,
         Acknowledge(s, t, d)
  PROVE  IInv' /\ SameIssuances
<1> DEFINE c == transfers[s][t]
           x == transfers'[s][t]
<1>1. TypeOK /\ IssuedWell /\ ConsumedWell /\ Settled
  BY Zenon DEF IInv
<1>2. /\ transfers' \in [Databases -> [Transfers -> TransferRow]] /\ OnlyTransfer(s, t)
      /\ x.src = c.src /\ x.dst = c.dst /\ x.amount = c.amount /\ x.epoch = c.epoch
      /\ x.key = c.key /\ x.signed = c.signed /\ x.status = "ACKNOWLEDGED"
      /\ c.status = "IN_TRANSIT"
      /\ UNCHANGED <<granted, rights, consumed, watermark, receipts, key>>
  BY <1>1, AcknowledgeWrites, Zenon
<1>3. /\ c.amount \in Nat /\ auth' = [auth EXCEPT ![s] = Lowered(auth[s], c.amount)]
      /\ auth[s].exists \in BOOLEAN /\ auth[s].total \in Nat
      /\ auth[s].unallocated \in Nat /\ auth[s].total >= c.amount
  BY <1>1, AcknowledgeWrites, Zenon
<1>4. c = transfers[s][t] /\ x = transfers'[s][t] /\ c.status # "NONE" /\ x.status # "NONE"
  BY <1>2, Zenon
<1> HIDE DEF c, x
<1>5. SameIssuances
  BY <1>1, <1>2, <1>4, OneRowSame, Zenon
<1>6. auth' \in [Databases -> [exists : BOOLEAN, total : Nat, unallocated : Nat]]
  <2>1. Lowered(auth[s], c.amount) \in [exists : BOOLEAN, total : Nat, unallocated : Nat]
    BY <1>3 DEF Lowered
  <2> QED
    BY <1>1, <1>3, <2>1, Zenon DEF TypeOK
<1>7. TypeOK'
  BY <1>1, <1>2, <1>6, Zenon DEF TypeOK
<1>8. SameConsumptions /\ \A r \in Regions : rights[r].version <= rights'[r].version
  BY <1>1, <1>2, UntouchedTables, SameVersions, Zenon
<1>9. ReceiptMatches(consumed[DbOf[transfers[s][t].dst]][t], transfers[s][t])
  <2>1. consumed[d][t].signed /\ ReceiptMatches(consumed[d][t], transfers[s][t])
    BY Zenon DEF Acknowledge, Accepted
  <2>2. d = DbOf[consumed[d][t].dst] /\ consumed[d][t].dst = transfers[s][t].dst
    <3>1. consumed[d][t] # NoConsumption
      BY <2>1, NoConsumptionNamesNone, Zenon
    <3> QED
      BY <1>1, <2>1, <3>1, Zenon DEF ConsumedWell, ReceiptMatches
  <2> QED
    BY <2>1, <2>2, Zenon
<1>10. ASSUME NEW e \in Databases, NEW u \in Transfers,
              transfers'[e][u].status = "ACKNOWLEDGED"
       PROVE  ReceiptMatches(consumed[DbOf[transfers[e][u].dst]][u], transfers[e][u])
  <2>1. CASE e = s /\ u = t
    BY <1>9, <2>1, Zenon
  <2>2. CASE e # s \/ u # t
    <3>1. transfers[e][u].status = "ACKNOWLEDGED"
      BY <1>2, <1>10, <2>2, Zenon DEF OnlyTransfer
    <3> QED
      BY <1>1, <3>1, Zenon DEF Settled
  <2> QED
    BY <2>1, <2>2, Zenon
<1> QED
  BY <1>5, <1>7, <1>8, <1>10, QuietStep, Zenon

\* Moving to the next key keeps it: no row refers to the current key.
LEMMA RotateStep ==
  ASSUME IInv, NEW r \in Regions, NEW u \in Purposes, Rotate(r, u)
  PROVE  IInv'
<1>1. TypeOK'
  BY DEF IInv, TypeOK, Rotate
<1>2. UNCHANGED <<rights, transfers, consumed>>
  BY Zenon DEF Rotate
<1> QED
  BY <1>1, <1>2, UntouchedStep, Zenon

\* A step that changes nothing keeps it.
LEMMA StutterStep == IInv /\ UNCHANGED vars => IInv'
<1> SUFFICES ASSUME IInv, UNCHANGED vars PROVE IInv'
  OBVIOUS
<1>1. TypeOK'
  BY Zenon DEF IInv, TypeOK, vars
<1>2. UNCHANGED <<rights, transfers, consumed>>
  BY Zenon DEF vars
<1> QED
  BY <1>1, <1>2, UntouchedStep, Zenon

\* Every step of the escrow services keeps the inductive invariant.
THEOREM EscrowInvariant == Spec => []IInv
<1>1. IInv /\ [Next]_vars => IInv'
  <2> SUFFICES ASSUME IInv, [Next]_vars PROVE IInv'
    OBVIOUS
  <2> QED
    BY CreateAuthorityStep, LocalEffectStep, InitiateStep, SignCertificateStep, ConsumeStep,
       SignReceiptStep, AcknowledgeStep, RotateStep, StutterStep DEF Next, LocalEffect
<1> QED
  BY InitIInv, <1>1, PTL DEF Spec

\* No column of the escrow tables leaves its range: rights and authority are never
\* overdrawn by spends, transfers and acknowledgements in any order.
THEOREM EscrowTypeOK == Spec => []TypeOK
BY EscrowInvariant, PTL DEF IInv

\* Two certificates of one region never share a source epoch (InitiateTransfer).
THEOREM EscrowIssuanceUnique == Spec => []IssuanceUnique
<1>1. IInv => IssuanceUnique
  BY DEF IInv, Unique, IssuanceUnique, Issued
<1> QED
  BY <1>1, EscrowInvariant, PTL

\* What a destination consumed was signed by a source, and what a source settled
\* was consumed by its destination (ConsumeCertificate, AcknowledgeTransfer).
THEOREM EscrowSettledMeansConsumed == Spec => []SettledMeansConsumed
<1>1. IInv => SettledMeansConsumed
  BY Zenon DEF IInv, Backed, Settled, SettledMeansConsumed, Issued, Arrived
<1> QED
  BY <1>1, EscrowInvariant, PTL

-----------------------------------------------------------------------------
(* What each step moves, and where to.                                     *)

\* A database that no authority was created in, and no right arrived in, is empty.
Untouched ==
  \A d \in Databases : ~auth[d].exists =>
    auth[d].total = 0 /\ auth[d].unallocated = 0 /\ granted[d] = 0

\* A step that changes one rights row, by n.
MovesRights(r, n) ==
  /\ \A s \in Regions : s # r => rights'[s] = rights[s]
  /\ rights'[r].available = rights[r].available + n

\* A step that changes one authority row: its total by n and what is unallocated
\* by m.
MovesAuthority(d, n, m) ==
  /\ \A e \in Databases : e # d => auth'[e] = auth[e]
  /\ auth'[d].total = auth[d].total + n
  /\ auth'[d].unallocated = auth[d].unallocated + m

\* What a transfer row has in transit.
Owed(row) == IF row.status = "IN_TRANSIT" THEN row.amount ELSE 0

\* A certificate was issued and has not arrived.
Travels(s, t) ==
  /\ transfers[s][t].status # "NONE"
  /\ ~ReceiptMatches(consumed[DbOf[transfers[s][t].dst]][t], transfers[s][t])

\* What it carries until it has.
Carried(s, t) == IF Travels(s, t) THEN transfers[s][t].amount ELSE 0

\* A step that changes at most one transfer row, and neither makes another
\* certificate arrive nor takes its arrival back.
OnlyTravels(s, t) ==
  /\ OnlyTransfer(s, t)
  /\ \A u \in Databases, v \in Transfers : u # s \/ v # t => (Travels(u, v)' <=> Travels(u, v))

\* A step on one transfer row, or on its arrival, that moves nothing.
Quiet(s, t) ==
  /\ OnlyTravels(s, t)
  /\ Owed(transfers'[s][t]) = Owed(transfers[s][t]) /\ Carried(s, t)' = Carried(s, t)
  /\ UNCHANGED <<auth, granted, rights, receipts>>

\* The update of a rights row by an amount.
LEMMA AdjustedMoves ==
  ASSUME TypeOK, NEW r \in Regions, NEW n,
         rights' = [rights EXCEPT ![r] = Adjusted(rights[r], n)]
  PROVE  MovesRights(r, n)
BY Zenon DEF MovesRights, Adjusted, TypeOK

\* The amounts in the rows are numbers.
LEMMA AmountsAreNats ==
  ASSUME TypeOK
  PROVE  /\ \A d \in Databases : auth[d].total \in Nat /\ auth[d].unallocated \in Nat
         /\ \A s \in Databases, t \in Transfers : transfers[s][t].amount \in Nat
<1>1. \A d \in Databases : auth[d].total \in Nat /\ auth[d].unallocated \in Nat
  BY Zenon DEF TypeOK
<1>2. \A s \in Databases, t \in Transfers : transfers[s][t] \in TransferRow
  BY Zenon DEF TypeOK
<1>3. \A c \in TransferRow : c.amount \in Nat
  BY DEF TransferRow
<1> QED
  BY <1>1, <1>2, <1>3, Zenon

\* The update of an authority row.
LEMMA AuthorityMoves ==
  ASSUME TypeOK, NEW d \in Databases, NEW x, NEW n, NEW m,
         auth' = [auth EXCEPT ![d] = x],
         x.total = auth[d].total + n, x.unallocated = auth[d].unallocated + m
  PROVE  MovesAuthority(d, n, m) /\ auth'[d] = x
<1>1. /\ auth'[d] = x
      /\ \A e \in Databases : e # d => auth'[e] = auth[e]
  BY Zenon DEF TypeOK
<1> QED
  BY <1>1, Zenon DEF MovesAuthority

\* An update that makes the row exist keeps the others empty.
LEMMA UntouchedKept ==
  ASSUME Untouched, NEW d \in Databases, NEW n, NEW m, MovesAuthority(d, n, m),
         \A e \in Databases : e # d => granted'[e] = granted[e],
         auth'[d].exists
  PROVE  Untouched'
BY Zenon DEF Untouched, MovesAuthority

\* So does one that takes an amount the row covers.
LEMMA UntouchedLowered ==
  ASSUME TypeOK, Untouched, NEW d \in Databases, NEW n \in Nat, NEW h \in Int, h + n = 0,
         MovesAuthority(d, h, 0), auth[d].total >= n, auth'[d].exists = auth[d].exists,
         granted' = granted
  PROVE  Untouched'
<1> SUFFICES ASSUME NEW e \in Databases, ~auth'[e].exists
             PROVE  auth'[e].total = 0 /\ auth'[e].unallocated = 0 /\ granted[e] = 0
  BY Zenon DEF Untouched
<1>1. CASE e # d
  BY <1>1, Zenon DEF Untouched, MovesAuthority
<1>2. CASE e = d
  <2>1. auth[d].total = 0 /\ auth[d].unallocated = 0 /\ granted[d] = 0
    BY <1>2, Zenon DEF Untouched
  <2>2. auth'[d].total = auth[d].total + h /\ auth'[d].unallocated = auth[d].unallocated + 0
    BY Zenon DEF MovesAuthority
  <2> QED
    BY <1>2, <2>1, <2>2
<1> QED
  BY <1>1, <1>2, Zenon

\* No database is touched at first.
LEMMA InitUntouched == Init => Untouched
BY DEF Init, Untouched, NoAuthority

\* CreateAuthority puts its grant into an empty row.
LEMMA CreateAuthorityMoves ==
  ASSUME TypeOK, Untouched, NEW d \in Databases, CreateAuthority(d)
  PROVE  /\ Grants[d] \in Int /\ MovesAuthority(d, Grants[d], Grants[d])
         /\ \A e \in Databases : e # d => granted'[e] = granted[e]
         /\ granted'[d] = granted[d] + Grants[d]
         /\ UNCHANGED <<rights, transfers, consumed, receipts>>
         /\ Untouched'
<1> DEFINE n == Grants[d]
           x == [exists |-> TRUE, total |-> n, unallocated |-> n]
<1>1. n \in Nat
  BY GrantsAssumption, Zenon
<1>2. auth' = [auth EXCEPT ![d] = x] /\ ~auth[d].exists
  BY Zenon DEF CreateAuthority
<1>3. granted' = [granted EXCEPT ![d] = n] /\ UNCHANGED <<rights, transfers, consumed, receipts>>
  BY Zenon DEF CreateAuthority
<1>4. auth[d].total = 0 /\ auth[d].unallocated = 0 /\ granted[d] = 0
  BY <1>2, Zenon DEF Untouched
<1>5. granted'[d] = n /\ \A e \in Databases : e # d => granted'[e] = granted[e]
  BY <1>3, Zenon DEF TypeOK
<1>6. x.total = n /\ x.unallocated = n /\ x.exists
  BY Zenon
<1> HIDE DEF n, x
<1>7. /\ x.total = auth[d].total + n /\ x.unallocated = auth[d].unallocated + n
      /\ n \in Int /\ n = 0 + n
  BY <1>1, <1>4, <1>6
<1>8. MovesAuthority(d, n, n) /\ auth'[d] = x
  BY <1>2, <1>7, AuthorityMoves, Zenon
<1>9. Untouched'
  BY <1>5, <1>6, <1>8, UntouchedKept, Zenon
<1> QED
  BY <1>3, <1>4, <1>5, <1>7, <1>8, <1>9, Zenon DEF n

\* Allocate moves authority into a region; Spend takes it out of region and
\* database, and Return puts it back, each under a receipt of its amount.
LEMMA LocalEffectMoves ==
  ASSUME IInv, Untouched, NEW e \in Effects, NEW r \in Regions, NEW n \in Amounts,
         Allocate(e, r, n) \/ Spend(e, r, n) \/ Return(e, r, n)
  PROVE  /\ \E k \in {"ALLOCATE", "SPEND", "RETURN"}, h \in Int, a \in Int, m \in Int :
              /\ Receipted(e, k, r, n)
              /\ MovesRights(r, h) /\ MovesAuthority(DbOf[r], a, m) /\ a = m + h
              /\ a = (IF k = "RETURN" THEN n ELSE 0) - (IF k = "SPEND" THEN n ELSE 0)
         /\ n \in Nat /\ DbOf[r] \in Databases
         /\ UNCHANGED <<granted, transfers, consumed>>
         /\ Untouched'
<1> DEFINE d == DbOf[r]
           a == auth[d]
<1>1. TypeOK /\ n \in Nat /\ d \in Databases
  BY AmountsAssumption, DbOfAssumption, Zenon DEF IInv
<1>2. a.total \in Nat /\ a.unallocated \in Nat
  BY <1>1, AmountsAreNats, Zenon
<1>3. PICK h \in Int : h + n = 0 /\ h = -n
  BY <1>1
<1>4. CASE Allocate(e, r, n)
  <2> DEFINE x == [exists |-> TRUE, total |-> a.total, unallocated |-> a.unallocated - n]
  <2>1. /\ Receipted(e, "ALLOCATE", r, n) /\ auth' = [auth EXCEPT ![d] = x]
        /\ rights' = [rights EXCEPT ![r] = Adjusted(rights[r], n)]
    BY <1>4, Zenon DEF Allocate
  <2>2. x.exists /\ x.total = a.total /\ x.unallocated = a.unallocated - n
    BY Zenon
  <2> HIDE DEF x
  <2>3. x.total = a.total + 0 /\ x.unallocated = a.unallocated + h
    BY <1>1, <1>2, <1>3, <2>2
  <2>4. MovesAuthority(d, 0, h) /\ auth'[d].exists
    BY <1>1, <2>1, <2>2, <2>3, AuthorityMoves, Zenon
  <2>5. MovesRights(r, n)
    BY <1>1, <2>1, AdjustedMoves, Zenon
  <2>6. n \in Int /\ 0 \in Int /\ 0 = h + n /\ 0 = 0 - 0
    BY <1>1, <1>3
  <2>7. UNCHANGED <<granted, transfers, consumed>>
    BY <2>1, Zenon DEF Receipted
  <2>8. Untouched'
    BY <1>1, <2>4, <2>7, UntouchedKept, Zenon
  <2> QED
    BY <1>1, <1>3, <2>1, <2>4, <2>5, <2>6, <2>7, <2>8
<1>5. CASE Spend(e, r, n)
  <2> DEFINE x == Lowered(a, n)
  <2>1. /\ Receipted(e, "SPEND", r, n) /\ a.total >= n /\ auth' = [auth EXCEPT ![d] = x]
        /\ rights' = [rights EXCEPT ![r] = Adjusted(rights[r], -n)]
    BY <1>5, Zenon DEF Spend, Covers
  <2>2. x.total = a.total - n /\ x.unallocated = a.unallocated /\ x.exists = a.exists
    BY Zenon DEF Lowered
  <2> HIDE DEF x
  <2>3. x.total = a.total + h /\ x.unallocated = a.unallocated + 0
    BY <1>1, <1>2, <1>3, <2>2
  <2>a. MovesAuthority(d, h, 0) /\ auth'[d] = x
    BY <1>1, <2>1, <2>3, AuthorityMoves, Zenon
  <2>4. MovesAuthority(d, h, 0) /\ auth'[d].exists = a.exists
    BY <2>a, <2>2, Zenon
  <2>5. MovesRights(r, h)
    BY <1>1, <1>3, <2>1, AdjustedMoves, Zenon
  <2>6. 0 \in Int /\ h = 0 + h /\ h = 0 - n
    BY <1>1, <1>3
  <2>7. UNCHANGED <<granted, transfers, consumed>>
    BY <2>1, Zenon DEF Receipted
  <2>8. Untouched'
    BY <1>1, <1>3, <2>1, <2>4, <2>7, UntouchedLowered, Zenon
  <2> QED
    BY <1>1, <1>3, <2>1, <2>4, <2>5, <2>6, <2>7, <2>8
<1>6. CASE Return(e, r, n)
  <2> DEFINE x == Raised(a, n)
  <2>1. /\ Receipted(e, "RETURN", r, n) /\ auth' = [auth EXCEPT ![d] = x]
        /\ rights' = [rights EXCEPT ![r] = Adjusted(rights[r], n)]
    BY <1>6, Zenon DEF Return
  <2>2. x.exists /\ x.total = a.total + n /\ x.unallocated = a.unallocated
    BY Zenon DEF Raised
  <2> HIDE DEF x
  <2>3. x.unallocated = a.unallocated + 0
    BY <1>2, <2>2
  <2>4. MovesAuthority(d, n, 0) /\ auth'[d].exists
    BY <1>1, <2>1, <2>2, <2>3, AuthorityMoves, Zenon
  <2>5. MovesRights(r, n)
    BY <1>1, <2>1, AdjustedMoves, Zenon
  <2>6. n \in Int /\ 0 \in Int /\ n = 0 + n /\ n = n - 0
    BY <1>1
  <2>7. UNCHANGED <<granted, transfers, consumed>>
    BY <2>1, Zenon DEF Receipted
  <2>8. Untouched'
    BY <1>1, <2>4, <2>7, UntouchedKept, Zenon
  <2> QED
    BY <1>1, <2>1, <2>4, <2>5, <2>6, <2>7, <2>8
<1> QED
  BY <1>4, <1>5, <1>6, Zenon


\* Where certificates and consumptions keep their fields, what has arrived stays so.
LEMMA TravelsStay ==
  ASSUME SameIssuances, SameConsumptions, IssuedWell, NEW u \in Databases, NEW v \in Transfers
  PROVE  Travels(u, v)' <=> Travels(u, v)
<1> DEFINE c == transfers[u][v]
<1>1. /\ transfers'[u][v].dst = c.dst
      /\ transfers'[u][v].status = "NONE" <=> c.status = "NONE"
  BY Zenon DEF SameIssuances
<1>2. CASE c.status = "NONE"
  BY <1>1, <1>2, Zenon DEF Travels
<1>3. CASE c.status # "NONE"
  <2>1. DbOf[c.dst] \in Databases
    BY <1>3, DbOfAssumption, Zenon DEF IssuedWell
  <2>2. /\ transfers'[u][v].src = c.src /\ transfers'[u][v].amount = c.amount
        /\ transfers'[u][v].epoch = c.epoch /\ transfers'[u][v].key = c.key
    BY Zenon DEF SameIssuances
  <2>3. LET x == consumed[DbOf[c.dst]][v]
            y == consumed'[DbOf[c.dst]][v]
        IN  /\ y.src = x.src /\ y.dst = x.dst /\ y.amount = x.amount
            /\ y.epoch = x.epoch /\ y.key = x.key
    BY <2>1, Zenon DEF SameConsumptions
  <2> QED
    BY <1>1, <2>2, <2>3, Zenon DEF Travels, ReceiptMatches, SameIssuance
<1> QED
  BY <1>2, <1>3, Zenon

\* Signing a certificate moves nothing.
LEMMA SignCertificateMoves ==
  ASSUME IInv, NEW d \in Databases, NEW t \in Transfers, SignCertificate(d, t)
  PROVE  Quiet(d, t)
<1> DEFINE c == transfers[d][t]
           x == transfers'[d][t]
<1>1. TypeOK /\ IssuedWell /\ SameIssuances
  BY SignCertificateStep, Zenon DEF IInv
<1>2. /\ OnlyTransfer(d, t) /\ x.amount = c.amount /\ x.status = c.status
      /\ UNCHANGED <<auth, granted, rights, consumed, receipts>>
  BY <1>1, SignCertificateWrites, Zenon
<1>3. SameConsumptions
  BY <1>1, <1>2, UntouchedTables, Zenon
<1>4. \A u \in Databases, v \in Transfers : Travels(u, v)' <=> Travels(u, v)
  BY <1>1, <1>3, TravelsStay, Zenon
<1>5. Owed(x) = Owed(c) /\ Carried(d, t)' = Carried(d, t)
  BY <1>2, <1>4, Zenon DEF Owed, Carried
<1> QED
  BY <1>2, <1>4, <1>5, Zenon DEF Quiet, OnlyTravels

\* Signing a receipt moves nothing.
LEMMA SignReceiptMoves ==
  ASSUME IInv, NEW d \in Databases, NEW t \in Transfers, SignReceipt(d, t)
  PROVE  Quiet(d, t)
<1>1. /\ TypeOK /\ IssuedWell /\ SameConsumptions
      /\ UNCHANGED <<auth, granted, rights, transfers, receipts>>
  BY SignReceiptStep, Zenon DEF IInv
<1>2. SameIssuances
  BY <1>1, UntouchedTables, Zenon
<1>3. \A u \in Databases, v \in Transfers : Travels(u, v)' <=> Travels(u, v)
  BY <1>1, <1>2, TravelsStay, Zenon
<1>4. Owed(transfers'[d][t]) = Owed(transfers[d][t]) /\ Carried(d, t)' = Carried(d, t)
  BY <1>1, <1>3, Zenon DEF Carried
<1> QED
  BY <1>1, <1>3, <1>4, Zenon DEF Quiet, OnlyTravels, OnlyTransfer

\* InitiateTransfer burns rights into a certificate that nobody can have consumed:
\* a consumption of its identifier from this source would be of a signed row.
LEMMA InitiateMoves ==
  ASSUME IInv, NEW q \in Requests, Initiate(q)
  PROVE  LET d == DbOf[q.src]
             t == q.id
             n == q.amount
         IN  /\ q.src \in Regions /\ d \in Databases /\ t \in Transfers /\ n \in Nat
             /\ MovesRights(q.src, -n)
             /\ OnlyTravels(d, t) /\ Carried(d, t)' = n /\ Carried(d, t) = 0
             /\ Owed(transfers'[d][t]) = n /\ Owed(transfers[d][t]) = 0
             /\ UNCHANGED <<auth, granted, receipts>>
<1> DEFINE d == DbOf[q.src]
           t == q.id
           n == q.amount
<1>1. /\ q.src \in Regions /\ q.dst \in Regions /\ d \in Databases /\ t \in Transfers
      /\ n \in Nat /\ DbOf[q.dst] \in Databases /\ TypeOK /\ IssuedWell /\ Backed
  BY RequestFacts, DbOfAssumption, Zenon DEF IInv
<1>2. /\ transfers[d][t].status = "NONE"
      /\ rights' = [rights EXCEPT ![q.src] = Adjusted(rights[q.src], -n)]
      /\ UNCHANGED <<auth, granted, consumed, receipts>>
  BY Zenon DEF Initiate
<1>3. MovesRights(q.src, -n)
  BY <1>1, <1>2, AdjustedMoves, Zenon
<1>4. /\ OnlyTransfer(d, t)
      /\ transfers'[d][t].src = q.src /\ transfers'[d][t].dst = q.dst
      /\ transfers'[d][t].amount = n /\ transfers'[d][t].status = "IN_TRANSIT"
  BY <1>1, Zenon DEF TypeOK, Initiate, OnlyTransfer
<1>5. ~ReceiptMatches(consumed[DbOf[q.dst]][t], transfers'[d][t])
  <2> DEFINE row == consumed[DbOf[q.dst]][t]
  <2> SUFFICES ASSUME row.src = q.src PROVE FALSE
    BY <1>4, Zenon DEF ReceiptMatches, SameIssuance
  <2>1. row # NoConsumption
    BY <1>1, NoneIsNoRegion, NoConsumptionNamesNone, Zenon
  <2>2. PICK s \in Databases : transfers[s][t].signed /\ ReceiptMatches(row, transfers[s][t])
    BY <1>1, <2>1, Zenon DEF Backed
  <2>3. transfers[s][t].src = q.src
    BY <2>2, Zenon DEF ReceiptMatches, SameIssuance
  <2>4. transfers[s][t].status # "NONE" /\ s = DbOf[transfers[s][t].src]
    BY <1>1, <2>2, Zenon DEF IssuedWell
  <2> QED
    BY <1>2, <2>3, <2>4, Zenon
<1> HIDE DEF d, t, n
<1>6. Travels(d, t)' /\ ~Travels(d, t)
  BY <1>2, <1>4, <1>5, Zenon DEF Travels
<1>7. OnlyTravels(d, t)
  BY <1>2, <1>4, Zenon DEF OnlyTravels, OnlyTransfer, Travels
<1>8. /\ Carried(d, t)' = n /\ Carried(d, t) = 0
      /\ Owed(transfers'[d][t]) = n /\ Owed(transfers[d][t]) = 0
  BY <1>2, <1>4, <1>6, Zenon DEF Carried, Owed
<1> QED
  BY <1>1, <1>2, <1>3, <1>7, <1>8, Zenon DEF d, t, n

\* What ConsumeCertificate writes into the tables of the destination.
LEMMA ConsumeWrites ==
  ASSUME IInv, NEW s \in Databases, NEW t \in Transfers, Consume(s, t)
  PROVE  LET c == transfers[s][t]
             d == DbOf[c.dst]
         IN  /\ c.status # "NONE" /\ c.src \in Regions /\ c.dst \in Regions /\ d \in Databases
             /\ consumed[d][t] = NoConsumption
             /\ consumed'[d][t].dst = c.dst
             /\ consumed'[d][t].watermark = watermark[c.dst] + 1
             /\ ReceiptMatches(consumed'[d][t], c)
             /\ \A e \in Databases, u \in Transfers :
                  e # d \/ u # t => consumed'[e][u] = consumed[e][u]
             /\ watermark' = [watermark EXCEPT ![c.dst] = watermark[c.dst] + 1]
             /\ UNCHANGED <<granted, transfers, receipts>>
<1> DEFINE c == transfers[s][t]
           d == DbOf[c.dst]
           row == [src |-> c.src, dst |-> c.dst, amount |-> c.amount, epoch |-> c.epoch,
                   key |-> c.key, watermark |-> NextWatermark(c.dst),
                   receiptKey |-> key[c.dst]["receipt"], signed |-> FALSE]
<1>1. TypeOK /\ IssuedWell /\ c.signed
  BY Zenon DEF IInv, Consume
<1>2. c.status # "NONE" /\ c.src \in Regions /\ c.dst \in Regions /\ d \in Databases
  BY <1>1, DbOfAssumption, Zenon DEF IssuedWell
<1>3. consumed[d][t] = NoConsumption /\ consumed' = [consumed EXCEPT ![d][t] = row]
  BY Zenon DEF Consume, Unconsumed
<1>4. /\ watermark' = [watermark EXCEPT ![c.dst] = watermark[c.dst] + 1]
      /\ UNCHANGED <<granted, transfers, receipts>>
  BY Zenon DEF Consume, NextWatermark
<1>5. ReceiptMatches(row, c) /\ row.dst = c.dst /\ row.watermark = watermark[c.dst] + 1
  BY Zenon DEF ReceiptMatches, SameIssuance, NextWatermark
<1> HIDE DEF row
<1>6. /\ consumed'[d][t] = row
      /\ \A e \in Databases, u \in Transfers : e # d \/ u # t => consumed'[e][u] = consumed[e][u]
  BY <1>1, <1>2, <1>3, Zenon DEF TypeOK
<1> QED
  BY <1>2, <1>3, <1>4, <1>5, <1>6, Zenon

\* It takes one certificate out of transit: no other certificate has arrived with it,
\* since no other has its source and epoch.
LEMMA ConsumeArrives ==
  ASSUME IInv, NEW s \in Databases, NEW t \in Transfers, Consume(s, t)
  PROVE  Travels(s, t) /\ ~Travels(s, t)' /\ OnlyTravels(s, t)
<1> DEFINE c == transfers[s][t]
           d == DbOf[c.dst]
<1>1. IssuedWell /\ Unique
  BY Zenon DEF IInv
<1>2. /\ c.status # "NONE" /\ c.src \in Regions /\ d \in Databases
      /\ consumed[d][t] = NoConsumption /\ ReceiptMatches(consumed'[d][t], c)
      /\ \A e \in Databases, u \in Transfers : e # d \/ u # t => consumed'[e][u] = consumed[e][u]
      /\ transfers' = transfers
  BY ConsumeWrites, Zenon
<1>3. \A x : x.src \in Regions => ~ReceiptMatches(consumed[d][t], x)
  BY <1>2, NoneIsNoRegion, NoConsumptionNamesNone, Zenon DEF ReceiptMatches, SameIssuance
<1>4. Travels(s, t) /\ ~Travels(s, t)'
  BY <1>2, <1>3, Zenon DEF Travels
<1>5. c = transfers[s][t]
  OBVIOUS
<1> HIDE DEF c, d
<1>6. ASSUME NEW u \in Databases, NEW v \in Transfers, u # s \/ v # t
      PROVE  Travels(u, v)' <=> Travels(u, v)
  <2> DEFINE x == transfers[u][v]
  <2>1. CASE x.status = "NONE"
    BY <1>2, <2>1, Zenon DEF Travels
  <2>2. CASE x.status # "NONE"
    <3>1. x.src \in Regions /\ DbOf[x.dst] \in Databases
      BY <1>1, <2>2, DbOfAssumption, Zenon DEF IssuedWell
    <3>2. CASE DbOf[x.dst] = d /\ v = t
      <4>1. ~ReceiptMatches(consumed[DbOf[x.dst]][v], x)
        BY <1>3, <3>1, <3>2, Zenon
      <4>2. ~ReceiptMatches(consumed'[DbOf[x.dst]][v], x)
        <5> SUFFICES ASSUME ReceiptMatches(consumed'[d][t], x) PROVE FALSE
          BY <3>2, Zenon
        <5>1. x.src = c.src /\ x.epoch = c.epoch
          BY <1>2, Zenon DEF ReceiptMatches, SameIssuance
        <5>2. u = s /\ v = t
          BY <1>1, <1>2, <1>5, <2>2, <5>1 DEF Unique
        <5> QED
          BY <1>6, <5>2, Zenon
      <4> QED
        BY <1>2, <2>2, <4>1, <4>2, Zenon DEF Travels
    <3>3. CASE DbOf[x.dst] # d \/ v # t
      <4>1. consumed'[DbOf[x.dst]][v] = consumed[DbOf[x.dst]][v]
        BY <1>2, <3>1, <3>3, Zenon
      <4> QED
        BY <1>2, <4>1, Zenon DEF Travels
    <3> QED
      BY <3>2, <3>3, Zenon
  <2> QED
    BY <2>1, <2>2, Zenon
<1> QED
  BY <1>2, <1>4, <1>6, Zenon DEF OnlyTravels, OnlyTransfer

\* ConsumeCertificate credits the destination with what the certificate carried.
LEMMA ConsumeMoves ==
  ASSUME IInv, Untouched, NEW s \in Databases, NEW t \in Transfers, Consume(s, t)
  PROVE  LET r == transfers[s][t].dst
             n == transfers[s][t].amount
         IN  /\ r \in Regions /\ DbOf[r] \in Databases /\ n \in Nat
             /\ MovesRights(r, n) /\ MovesAuthority(DbOf[r], n, 0)
             /\ OnlyTravels(s, t) /\ Carried(s, t) = n /\ Carried(s, t)' = 0
             /\ UNCHANGED <<granted, transfers, receipts>>
             /\ Untouched'
<1> DEFINE r == transfers[s][t].dst
           n == transfers[s][t].amount
           d == DbOf[r]
           x == Raised(auth[d], n)
<1>1. /\ r \in Regions /\ d \in Databases /\ UNCHANGED <<granted, transfers, receipts>>
      /\ Travels(s, t) /\ ~Travels(s, t)' /\ OnlyTravels(s, t)
  BY ConsumeWrites, ConsumeArrives, Zenon
<1>2. TypeOK
  BY Zenon DEF IInv
<1>3. n \in Nat /\ auth[d].total \in Nat /\ auth[d].unallocated \in Nat
  BY <1>1, <1>2, AmountsAreNats, Zenon
<1>4. /\ auth' = [auth EXCEPT ![d] = x]
      /\ rights' = [rights EXCEPT ![r] = Adjusted(rights[r], n)]
  BY Zenon DEF Consume
<1>5. Carried(s, t) = n /\ Carried(s, t)' = 0
  BY <1>1, Zenon DEF Carried
<1>6. x.exists /\ x.total = auth[d].total + n /\ x.unallocated = auth[d].unallocated
  BY Zenon DEF Raised
<1> HIDE DEF r, n, d, x
<1>7. x.unallocated = auth[d].unallocated + 0
  BY <1>3, <1>6
<1>8. MovesAuthority(d, n, 0) /\ auth'[d].exists
  BY <1>1, <1>2, <1>4, <1>6, <1>7, AuthorityMoves, Zenon
<1>9. MovesRights(r, n)
  BY <1>1, <1>2, <1>4, AdjustedMoves, Zenon
<1>10. Untouched'
  BY <1>1, <1>8, UntouchedKept, Zenon
<1> QED
  BY <1>1, <1>3, <1>5, <1>8, <1>9, <1>10, Zenon DEF r, n, d

\* AcknowledgeTransfer lets the amount go from the source's total and transit
\* together; whether the certificate has arrived is not its doing.
LEMMA AcknowledgeMoves ==
  ASSUME IInv, Untouched, NEW s \in Databases, NEW t \in Transfers, NEW d \in Databases,
         Acknowledge(s, t, d)
  PROVE  LET n == transfers[s][t].amount
         IN  /\ n \in Nat /\ MovesAuthority(s, -n, 0)
             /\ OnlyTravels(s, t) /\ Carried(s, t)' = Carried(s, t)
             /\ Owed(transfers'[s][t]) = 0 /\ Owed(transfers[s][t]) = n
             /\ UNCHANGED <<granted, rights, receipts>>
             /\ Untouched'
<1> DEFINE c == transfers[s][t]
           n == c.amount
           a == auth[s]
           x == Lowered(a, n)
<1>1. TypeOK /\ IssuedWell /\ SameIssuances
  BY AcknowledgeStep, Zenon DEF IInv
<1>2. /\ OnlyTransfer(s, t) /\ transfers'[s][t].amount = n
      /\ transfers'[s][t].status = "ACKNOWLEDGED" /\ c.status = "IN_TRANSIT"
      /\ UNCHANGED <<granted, rights, consumed, receipts>>
  BY <1>1, AcknowledgeWrites, Zenon
<1>3. /\ n \in Nat /\ auth' = [auth EXCEPT ![s] = x] /\ a.total \in Nat
      /\ a.unallocated \in Nat /\ a.total >= n
  BY <1>1, AcknowledgeWrites, Zenon
<1>4. \A u \in Databases, v \in Transfers : Travels(u, v)' <=> Travels(u, v)
  BY <1>1, <1>2, UntouchedTables, TravelsStay, Zenon
<1>5. OnlyTravels(s, t)
  BY <1>2, <1>4, Zenon DEF OnlyTravels
<1>6. /\ Carried(s, t)' = Carried(s, t)
      /\ Owed(transfers'[s][t]) = 0 /\ Owed(transfers[s][t]) = n
  BY <1>2, <1>4, Zenon DEF Carried, Owed
<1>7. x.exists = a.exists /\ x.total = a.total - n /\ x.unallocated = a.unallocated
  BY Zenon DEF Lowered
<1> HIDE DEF n, x
<1>8. PICK h \in Int : h + n = 0 /\ h = -n
  BY <1>3
<1>9. x.total = a.total + h /\ x.unallocated = a.unallocated + 0
  BY <1>3, <1>7, <1>8
<1>10. MovesAuthority(s, h, 0) /\ auth'[s] = x
  BY <1>1, <1>3, <1>9, AuthorityMoves, Zenon
<1>11. auth'[s].exists = a.exists
  BY <1>7, <1>10, Zenon
<1>12. Untouched'
  BY <1>1, <1>2, <1>3, <1>8, <1>10, <1>11, UntouchedLowered, Zenon
<1> QED
  BY <1>2, <1>3, <1>5, <1>6, <1>8, <1>10, <1>12, Zenon DEF n

=============================================================================
