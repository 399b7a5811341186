--------------------------- MODULE EscrowTransfer ---------------------------
(***************************************************************************)
(* Escrow rights and their transfer between regions (internal/escrow,      *)
(* migrations 003, 012 and 013): authority in a database, rights in a      *)
(* region, and the protocol issue - sign - consume - sign - acknowledge    *)
(* between databases that never read each other.                           *)
(*                                                                         *)
(* One account, one asset.  A region is also its legal entity.  Every      *)
(* action is one SERIALIZABLE transaction of one database; a crash falls   *)
(* between two actions and every call may be made again.  Certificates and *)
(* receipts travel outside the databases: a signed one can arrive late,    *)
(* repeatedly, or never.                                                   *)
(***************************************************************************)
EXTENDS Integers, FiniteSetsExt

CONSTANTS
  Databases,   \* sovereign databases
  Regions,     \* regions
  DbOf,        \* DbOf[r]: the database of region r
  Requests,    \* transfer requests callers make
  Effects,     \* effect identifiers of Allocate, Spend and Return
  Amounts,     \* amounts of those effects
  Grants,      \* Grants[d]: what CreateAuthority asks for in database d
  MaxEpoch     \* MaxEpoch[r]: bound on the key epochs of region r

ASSUME DbOfAssumption == DbOf \in [Regions -> Databases]
ASSUME RequestsAssumption ==
  \A q \in Requests : /\ q.src \in Regions /\ q.dst \in Regions /\ q.src # q.dst
                      /\ q.amount \in Nat \ {0}
ASSUME AmountsAssumption == Amounts \subseteq Nat \ {0}
ASSUME GrantsAssumption == Grants \in [Databases -> Nat]
ASSUME NoneIsNoRegion == "none" \notin Regions
ASSUME MaxEpochAssumption == MaxEpoch \in [Regions -> Nat]

Transfers == {q.id : q \in Requests}

ASSUME FiniteAssumption == /\ IsFiniteSet(Databases) /\ IsFiniteSet(Regions)
                           /\ IsFiniteSet(Transfers) /\ IsFiniteSet(Effects)

Purposes == {"certificate", "receipt"}

VARIABLES
  auth,       \* escrow_authorities, one row per database
  granted,    \* what CreateAuthority put into each database
  rights,     \* escrow_regional_rights, one row per region
  transfers,  \* escrow_transfers of each database
  consumed,   \* escrow_consumed_certificates of each database
  watermark,  \* escrow_consumption_watermarks of each region
  receipts,   \* escrow_effect_receipts of each database
  key         \* the signing key epoch of each region and purpose

vars == <<auth, granted, rights, transfers, consumed, watermark, receipts, key>>

\* An absent rights row has version -1: inserting it gives version 0.
NoRights == [available |-> 0, version |-> -1]

NoAuthority == [exists |-> FALSE, total |-> 0, unallocated |-> 0]

NoTransfer == [src |-> "none", dst |-> "none", amount |-> 0, epoch |-> 0, key |-> 0,
               signed |-> FALSE, status |-> "NONE"]

NoConsumption == [src |-> "none", dst |-> "none", amount |-> 0, epoch |-> 0, key |-> 0,
                  watermark |-> 0, receiptKey |-> 0, signed |-> FALSE]

NoReceipt == [kind |-> "NONE", region |-> "none", amount |-> 0]

Init ==
  /\ auth = [d \in Databases |-> NoAuthority]
  /\ granted = [d \in Databases |-> 0]
  /\ rights = [r \in Regions |-> NoRights]
  /\ transfers = [d \in Databases |-> [t \in Transfers |-> NoTransfer]]
  /\ consumed = [d \in Databases |-> [t \in Transfers |-> NoConsumption]]
  /\ watermark = [r \in Regions |-> 0]
  /\ receipts = [d \in Databases |-> [e \in Effects |-> NoReceipt]]
  /\ key = [r \in Regions |-> [u \in Purposes |-> 1]]

-----------------------------------------------------------------------------
(* Authority and local effects.                                            *)

\* A second call inserts nothing: it succeeds or conflicts.
CreateAuthority(d) ==
  /\ ~auth[d].exists
  /\ auth' = [auth EXCEPT ![d] = [exists |-> TRUE, total |-> Grants[d],
                                  unallocated |-> Grants[d]]]
  /\ granted' = [granted EXCEPT ![d] = Grants[d]]
  /\ UNCHANGED <<rights, transfers, consumed, watermark, receipts, key>>

\* A rights row after an upsert or update.
Adjusted(row, n) == [available |-> row.available + n, version |-> row.version + 1]

Enough(row, n) == row.version >= 0 /\ row.available >= n

\* An authority row after rights arrived in, or left, its database.
Raised(a, n) ==
  [exists |-> TRUE, total |-> a.total + n, unallocated |-> a.unallocated]

\* Fault: total_authority is left alone.
LoweredNothing(a, n) == a

Lowered(a, n) ==
  [exists |-> a.exists, total |-> a.total - n, unallocated |-> a.unallocated]

\* Fault: the last authority of a database cannot leave it.
CoversMore(a, n) == a.total > n

Covers(a, n) == a.total >= n

\* applyEffect: an effect identifier that is already there changes nothing.
Receipted(e, kind, r, n) ==
  /\ receipts[DbOf[r]][e] = NoReceipt
  /\ receipts' = [receipts EXCEPT ![DbOf[r]][e] =
                    [kind |-> kind, region |-> r, amount |-> n]]
  /\ UNCHANGED <<granted, transfers, consumed, watermark, key>>

Allocate(e, r, n) ==
  LET d == DbOf[r]
  IN  /\ Receipted(e, "ALLOCATE", r, n)
      /\ auth[d].exists /\ auth[d].unallocated >= n
      /\ auth' = [auth EXCEPT ![d] = [exists |-> TRUE, total |-> auth[d].total,
                                      unallocated |-> auth[d].unallocated - n]]
      /\ rights' = [rights EXCEPT ![r] = Adjusted(rights[r], n)]

Spend(e, r, n) ==
  LET d == DbOf[r]
  IN  /\ Receipted(e, "SPEND", r, n)
      /\ Enough(rights[r], n)
      /\ Covers(auth[d], n)
      /\ rights' = [rights EXCEPT ![r] = Adjusted(rights[r], -n)]
      /\ auth' = [auth EXCEPT ![d] = Lowered(auth[d], n)]

Return(e, r, n) ==
  LET d == DbOf[r]
  IN  /\ Receipted(e, "RETURN", r, n)
      /\ rights[r].version >= 0
      /\ rights' = [rights EXCEPT ![r] = Adjusted(rights[r], n)]
      /\ auth' = [auth EXCEPT ![d] = Raised(auth[d], n)]

-----------------------------------------------------------------------------
(* The source: InitiateTransfer.                                           *)

\* The transaction that burns the rights and stores the unsigned draft.  With a
\* row of the same TransferID there is nothing to do (or a conflict).
Initiate(q) ==
  LET d == DbOf[q.src]
      epoch == rights[q.src].version + 1
  IN  /\ transfers[d][q.id].status = "NONE"
      /\ Enough(rights[q.src], q.amount)
      /\ rights' = [rights EXCEPT ![q.src] = Adjusted(rights[q.src], -q.amount)]
      /\ transfers' = [transfers EXCEPT ![d][q.id] =
           [src |-> q.src, dst |-> q.dst, amount |-> q.amount, epoch |-> epoch,
            key |-> key[q.src]["certificate"], signed |-> FALSE,
            status |-> "IN_TRANSIT"]]
      /\ UNCHANGED <<auth, granted, consumed, watermark, receipts, key>>

\* Sign refuses a draft of another key epoch; attachCertificateSignature stores
\* the first signature.
SignCertificate(d, t) ==
  /\ transfers[d][t].status = "IN_TRANSIT"
  /\ ~transfers[d][t].signed
  /\ transfers[d][t].key = key[transfers[d][t].src]["certificate"]
  /\ transfers' = [transfers EXCEPT ![d][t].signed = TRUE]
  /\ UNCHANGED <<auth, granted, rights, consumed, watermark, receipts, key>>

-----------------------------------------------------------------------------
(* The destination: ConsumeCertificate.                                    *)

\* Same issuance tuple: source region, key epoch, source epoch.
SameIssuance(row, c) == row.src = c.src /\ row.key = c.key /\ row.epoch = c.epoch

\* Fault: a certificate is consumed whenever it arrives.
AlwaysUnconsumed(d, t, c) == TRUE

\* Neither the transfer nor the issuance was consumed before.
Unconsumed(d, t, c) ==
  /\ consumed[d][t] = NoConsumption
  /\ \A u \in Transfers : ~SameIssuance(consumed[d][u], c)

\* Fault: the watermark is not advanced.
SameWatermark(r) == watermark[r]

NextWatermark(r) == watermark[r] + 1

\* The transaction that credits the destination; c is the signed certificate that
\* database s issued for transfer t.
Consume(s, t) ==
  LET c == transfers[s][t]
      d == DbOf[c.dst]
  IN  /\ c.signed
      /\ Unconsumed(d, t, c)
      /\ watermark' = [watermark EXCEPT ![c.dst] = NextWatermark(c.dst)]
      /\ consumed' = [consumed EXCEPT ![d][t] =
           [src |-> c.src, dst |-> c.dst, amount |-> c.amount, epoch |-> c.epoch,
            key |-> c.key, watermark |-> NextWatermark(c.dst),
            receiptKey |-> key[c.dst]["receipt"], signed |-> FALSE]]
      /\ auth' = [auth EXCEPT ![d] = Raised(auth[d], c.amount)]
      /\ rights' = [rights EXCEPT ![c.dst] = Adjusted(rights[c.dst], c.amount)]
      /\ UNCHANGED <<granted, transfers, receipts, key>>

\* attachReceiptSignature, under the key epoch of the draft.
SignReceipt(d, t) ==
  /\ consumed[d][t] # NoConsumption
  /\ ~consumed[d][t].signed
  /\ consumed[d][t].receiptKey = key[consumed[d][t].dst]["receipt"]
  /\ consumed' = [consumed EXCEPT ![d][t].signed = TRUE]
  /\ UNCHANGED <<auth, granted, rights, transfers, watermark, receipts, key>>

-----------------------------------------------------------------------------
(* The source again: AcknowledgeTransfer.                                  *)

\* VerifyConsumptionReceipt: the receipt repeats every field of the certificate.
ReceiptMatches(row, c) ==
  /\ SameIssuance(row, c)
  /\ row.dst = c.dst /\ row.amount = c.amount

Accepted(row, c) == row.signed /\ ReceiptMatches(row, c)

\* The source reads no table of the destination: d is where the receipt is from.
Acknowledge(s, t, d) ==
  LET c == transfers[s][t]
  IN  /\ c.status = "IN_TRANSIT" /\ c.signed
      /\ Accepted(consumed[d][t], c)
      /\ Covers(auth[s], c.amount)
      /\ auth' = [auth EXCEPT ![s] = Lowered(auth[s], c.amount)]
      /\ transfers' = [transfers EXCEPT ![s][t].status = "ACKNOWLEDGED"]
      /\ UNCHANGED <<granted, rights, consumed, watermark, receipts, key>>

\* A region's signing service is redeployed with the next key of a purpose.
Rotate(r, u) ==
  /\ key[r][u] < MaxEpoch[r]
  /\ key' = [key EXCEPT ![r][u] = @ + 1]
  /\ UNCHANGED <<auth, granted, rights, transfers, consumed, watermark, receipts>>

-----------------------------------------------------------------------------
LocalEffect == \E e \in Effects, r \in Regions, n \in Amounts :
                 Allocate(e, r, n) \/ Spend(e, r, n) \/ Return(e, r, n)

Next ==
  \/ \E d \in Databases : CreateAuthority(d)
  \/ LocalEffect
  \/ \E q \in Requests : Initiate(q)
  \/ \E d \in Databases, t \in Transfers :
       SignCertificate(d, t) \/ Consume(d, t) \/ SignReceipt(d, t)
  \/ \E s \in Databases, d \in Databases, t \in Transfers : Acknowledge(s, t, d)
  \/ \E r \in Regions, u \in Purposes : Rotate(r, u)

Spec == Init /\ [][Next]_vars

\* Callers repeat a transfer until it is through: signatures are asked for again,
\* certificates and receipts are delivered again.
FairSpec ==
  /\ Spec
  /\ \A d \in Databases, t \in Transfers :
       /\ WF_vars(SignCertificate(d, t))
       /\ WF_vars(Consume(d, t))
       /\ WF_vars(SignReceipt(d, t))
       /\ WF_vars(\E e \in Databases : Acknowledge(d, t, e))

-----------------------------------------------------------------------------
TransferRow ==
  [src : Regions \cup {"none"}, dst : Regions \cup {"none"}, amount : Nat, epoch : Nat,
   key : Nat, signed : BOOLEAN, status : {"NONE", "IN_TRANSIT", "ACKNOWLEDGED"}]

ConsumedRow ==
  [src : Regions \cup {"none"}, dst : Regions \cup {"none"}, amount : Nat, epoch : Nat,
   key : Nat, watermark : Nat, receiptKey : Nat, signed : BOOLEAN]

ReceiptRow ==
  [kind : {"NONE", "ALLOCATE", "SPEND", "RETURN"}, region : Regions \cup {"none"},
   amount : Nat]

\* Rows have their columns' types and no authority, right or watermark is below
\* zero.
TypeOK ==
  /\ auth \in [Databases -> [exists : BOOLEAN, total : Nat, unallocated : Nat]]
  /\ granted \in [Databases -> Nat]
  /\ rights \in [Regions -> [available : Nat, version : Nat \cup {-1}]]
  /\ transfers \in [Databases -> [Transfers -> TransferRow]]
  /\ consumed \in [Databases -> [Transfers -> ConsumedRow]]
  /\ watermark \in [Regions -> Nat]
  /\ receipts \in [Databases -> [Effects -> ReceiptRow]]
  /\ key \in [Regions -> [Purposes -> Nat]]

RegionsOf(d) == {r \in Regions : DbOf[r] = d}

InTransit(d) == {t \in Transfers : transfers[d][t].status = "IN_TRANSIT"}

Available == [r \in Regions |-> rights[r].available]

\* What the regions of a database have, and what left them and is not acknowledged.
Held(d) == SumFunctionOnSet(Available, RegionsOf(d))

Outgoing(d) ==
  SumFunctionOnSet([t \in Transfers |-> transfers[d][t].amount], InTransit(d))

\* Authority.Conserved: in every database the total is what is unallocated, in
\* regions and in transit, after every local transaction and at every crash point.
Conserved ==
  \A d \in Databases : auth[d].total = auth[d].unallocated + Held(d) + Outgoing(d)

Issued == {p \in Databases \X Transfers : transfers[p[1]][p[2]].status # "NONE"}

\* The destination has consumed exactly this certificate.
Arrived(p) ==
  LET c == transfers[p[1]][p[2]]
  IN  ReceiptMatches(consumed[DbOf[c.dst]][p[2]], c)

EffectsOf(kind) == {p \in Databases \X Effects : receipts[p[1]][p[2]].kind = kind}

\* Certificates that their destination has not consumed, and what they carry.
Travelling == {p \in Issued : ~Arrived(p)}

Underway ==
  SumFunctionOnSet([p \in Databases \X Transfers |-> transfers[p[1]][p[2]].amount], Travelling)

InRegions == SumFunctionOnSet(Available, Regions)

Granted == SumFunctionOnSet(granted, Databases)

Unallocated == SumFunctionOnSet([d \in Databases |-> auth[d].unallocated], Databases)

Recorded(kind) ==
  SumFunctionOnSet([p \in Databases \X Effects |-> receipts[p[1]][p[2]].amount],
                   EffectsOf(kind))

\* Over all databases a right is in exactly one place: unallocated, in a region,
\* or in a certificate that has not been consumed.  Lost, repeated and reordered
\* certificates and receipts create and destroy nothing.
OnePlace ==
  Unallocated + InRegions + Underway = Granted + Recorded("RETURN") - Recorded("SPEND")

\* Every consumption is of a certificate its source signed, and no source settles
\* a transfer its destination has not consumed: AcknowledgeTransfer is never fooled
\* by the receipt of another transfer with the same identifier.
SettledMeansConsumed ==
  /\ \A d \in Databases, t \in Transfers : consumed[d][t] # NoConsumption =>
       \E s \in Databases : /\ transfers[s][t].signed
                            /\ ReceiptMatches(consumed[d][t], transfers[s][t])
  /\ \A p \in Issued : transfers[p[1]][p[2]].status = "ACKNOWLEDGED" => Arrived(p)

\* The source issuance sequence never repeats: two certificates of one region
\* always differ in source_epoch, whatever else moved the rights row in between.
IssuanceUnique ==
  \A p \in Issued, q \in Issued :
    LET c == transfers[p[1]][p[2]]
        e == transfers[q[1]][q[2]]
    IN  c.src = e.src /\ c.epoch = e.epoch => p = q

ConsumedBy(r) == {p \in Databases \X Transfers : consumed[p[1]][p[2]].dst = r}

\* The watermarks a region signed are 1, 2, ... without a gap or a repetition, so
\* a receipt shows a committed prefix of its consumptions.
WatermarksDense ==
  \A r \in Regions :
    /\ {consumed[p[1]][p[2]].watermark : p \in ConsumedBy(r)} = 1 .. watermark[r]
    /\ Cardinality(ConsumedBy(r)) = watermark[r]

\* The certificate, or its receipt, is an unsigned draft of a key its region gave
\* up, or the destination has the identifier from another transfer.
Abandoned(d, t) ==
  LET c == transfers[d][t]
      row == consumed[DbOf[c.dst]][t]
  IN  /\ c.status = "IN_TRANSIT"
      /\ \/ ~c.signed /\ c.key # key[c.src]["certificate"]
         \/ ~row.signed /\ row # NoConsumption /\ row.receiptKey # key[c.dst]["receipt"]
         \/ row # NoConsumption /\ ~ReceiptMatches(row, c)

\* A transfer that was issued is settled in the end, unless a key rotation found it
\* with a signature still to be made or its identifier was not unique.
Settles ==
  \A d \in Databases, t \in Transfers :
    transfers[d][t].status = "IN_TRANSIT" ~>
      transfers[d][t].status = "ACKNOWLEDGED" \/ Abandoned(d, t)

\* What service.go says of a crash between issuing and signing: the retry of the
\* same TransferID signs the draft.
DraftsGetSigned ==
  \A d \in Databases, t \in Transfers :
    transfers[d][t].status = "IN_TRANSIT" ~> transfers[d][t].signed

=============================================================================
