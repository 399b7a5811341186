------------------------------- MODULE Offline -------------------------------
(***************************************************************************)
(* Offline allowances (internal/offline and the procedures of migration    *)
(* 023 it calls): authority of one region that a device may spend at a     *)
(* merchant with nobody online.  An allowance is prepared, signed outside  *)
(* the transaction, and issued; then it is redeemed once, or returned      *)
(* after every acceptance domain has signed that it has closed everything  *)
(* up to a watermark that covers it.                                       *)
(*                                                                         *)
(* One device and one region.  Signatures and hashes always verify, so the *)
(* message is the thing itself.  What is outside the repository - the      *)
(* device presents an allowance once, a domain signs a closure only when   *)
(* every presentation below it is dealt with - is taken from the comments  *)
(* on PresentationVerifier and DomainClosure.  The fence version, which is *)
(* only counted, is left out.                                              *)
(***************************************************************************)
EXTENDS Integers, Sequences, FiniteSets, FiniteSetsExt

CONSTANTS
  Allowances,
  AmountOf,       \* the amount of each allowance
  Domains,        \* acceptance domains
  FirstEpoch,     \* where the coverage of a domain begins ...
  LastEpoch,      \* ... and ends
  MaxEpoch,
  Fences,         \* the counters that a closure may go up to
  MaxClosures,
  InitialRights

ASSUME DomainsAssumption ==
  /\ "none" \notin Domains
  /\ FirstEpoch \in [Domains -> Nat] /\ LastEpoch \in [Domains -> Nat]
  /\ MaxEpoch \in Nat /\ Fences \subseteq Nat

VARIABLES
  device,         \* offline_device_counters: [epoch, counter]
  allowance,      \* offline_allowances
  rights,         \* authority: available in the region, offline_issued, total
  windows,        \* key activations and terminations of each domain, in order
  links,          \* closure evidence that ended each allowance, by domain
  posted,         \* the ledger's redemptions of each allowance
  accepted,       \* the domain where each allowance was presented
  closures        \* the closures that domains have signed

offlineVars == <<device, allowance, rights, windows, links, posted, accepted, closures>>

NoDevice == [epoch |-> 0, counter |-> 0]

NoAllowance == [state |-> "NONE", epoch |-> 0, counter |-> 0]

InitOffline ==
  /\ device = NoDevice
  /\ allowance = [a \in Allowances |-> NoAllowance]
  /\ rights = [available |-> InitialRights, issued |-> 0, total |-> InitialRights]
  /\ windows = [d \in Domains |-> <<>>]
  /\ links = [a \in Allowances |-> {}]
  /\ posted = [a \in Allowances |-> 0]
  /\ accepted = [a \in Allowances |-> "none"]
  /\ closures = {}

-----------------------------------------------------------------------------
(* The control plane.                                                      *)

ConfigureAcceptanceDomain(d) ==
  /\ windows[d] = <<>>
  /\ windows' = [windows EXCEPT ![d] = <<[from |-> FirstEpoch[d], to |-> 0]>>]
  /\ UNCHANGED <<device, allowance, rights, links, posted, accepted, closures>>

\* The epochs that evidence on record was closed at, with the k-th key of a domain.
EvidenceEpochs(d, k) ==
  {c.epoch : c \in {c \in UNION {links[a] : a \in Allowances} : c.domain = d /\ c.key = k}}

\* The window guards: the domain's last key is open and began earlier, and it has
\* signed no evidence at or after the boundary.
MayEndKey(d, epoch) ==
  /\ epoch > windows[d][Len(windows[d])].from
  /\ \A e \in EvidenceEpochs(d, Len(windows[d])) : epoch > e

Ended(d, epoch) == [windows[d] EXCEPT ![Len(windows[d])].to = epoch]

HasOpenKey(d) == windows[d] # <<>> /\ windows[d][Len(windows[d])].to = 0

RotateAcceptanceDomainKey(d, epoch) ==
  /\ HasOpenKey(d) /\ MayEndKey(d, epoch)
  /\ epoch <= LastEpoch[d]
  /\ windows' = [windows EXCEPT ![d] = Append(Ended(d, epoch), [from |-> epoch, to |-> 0])]
  /\ UNCHANGED <<device, allowance, rights, links, posted, accepted, closures>>

TerminateAcceptanceDomainKey(d, epoch) ==
  /\ HasOpenKey(d) /\ MayEndKey(d, epoch)
  /\ epoch <= LastEpoch[d] + 1
  /\ windows' = [windows EXCEPT ![d] = Ended(d, epoch)]
  /\ UNCHANGED <<device, allowance, rights, links, posted, accepted, closures>>

EnrollDevice ==
  /\ device = NoDevice
  /\ device' = [epoch |-> 1, counter |-> 0]
  /\ UNCHANGED <<allowance, rights, windows, links, posted, accepted, closures>>

AdvanceIssuerEpoch ==
  /\ device # NoDevice /\ device.epoch < MaxEpoch
  /\ device' = [epoch |-> device.epoch + 1, counter |-> 0]
  /\ UNCHANGED <<allowance, rights, windows, links, posted, accepted, closures>>

-----------------------------------------------------------------------------
(* Issue.                                                                  *)

CoveringDomains(epoch) == {d \in Domains : windows[d] # <<>> /\ FirstEpoch[d] <= epoch /\ epoch <= LastEpoch[d]}

KeyValidAt(d, k, epoch) ==
  /\ k \in DOMAIN windows[d]
  /\ windows[d][k].from <= epoch
  /\ windows[d][k].to = 0 \/ windows[d][k].to > epoch

\* prepare_offline_allowance: every domain that covers the device's epoch has a key for it.
MayPrepare(a) ==
  /\ allowance[a] = NoAllowance
  /\ device # NoDevice
  /\ CoveringDomains(device.epoch) # {}
  /\ \A d \in CoveringDomains(device.epoch) : \E k \in DOMAIN windows[d] : KeyValidAt(d, k, device.epoch)

\* prepare: a counter of the device is reserved and no authority moves.
Prepare(a) ==
  /\ MayPrepare(a)
  /\ device' = [device EXCEPT !.counter = @ + 1]
  /\ allowance' = [allowance EXCEPT ![a] =
       [state |-> "PREPARED", epoch |-> device.epoch, counter |-> device.counter + 1]]
  /\ UNCHANGED <<rights, windows, links, posted, accepted, closures>>

\* activate_offline_allowance: the device is still in the epoch, and the region has
\* the rights.
MayActivate(a) ==
  /\ allowance[a].state = "PREPARED"
  /\ device.epoch = allowance[a].epoch
  /\ rights.available >= AmountOf[a]

Activate(a) ==
  /\ MayActivate(a)
  /\ rights' = [rights EXCEPT !.available = @ - AmountOf[a], !.issued = @ + AmountOf[a]]
  /\ allowance' = [allowance EXCEPT ![a].state = "ISSUED"]
  /\ UNCHANGED <<device, windows, links, posted, accepted, closures>>

\* Issue: two transactions with the signature between them, by one call or by a retry
\* that finds the allowance prepared.
Issue(a) == Prepare(a) \/ Activate(a)

\* A payment in the region spends the same rights (Spend of the escrow).
SpendOnline ==
  /\ rights.available > 0
  /\ rights' = [rights EXCEPT !.available = @ - 1, !.total = @ - 1]
  /\ UNCHANGED <<device, allowance, windows, links, posted, accepted, closures>>

-----------------------------------------------------------------------------
(* The offline world.                                                      *)

Reaches(epoch, fence, a) ==
  \/ epoch > allowance[a].epoch
  \/ epoch = allowance[a].epoch /\ fence >= allowance[a].counter

\* The device presents an allowance that it was issued, once, where it is covered and
\* not closed.  It does not know what has become of the allowance since.
Present(a, d) ==
  /\ allowance[a].state \notin {"NONE", "PREPARED"} /\ accepted[a] = "none"
  /\ d \in CoveringDomains(allowance[a].epoch)
  /\ \A c \in closures : c.domain = d => ~Reaches(c.epoch, c.fence, a)
  /\ accepted' = [accepted EXCEPT ![a] = d]
  /\ UNCHANGED <<device, allowance, rights, windows, links, posted, closures>>

\* A domain signs the closure of everything up to a watermark, when nothing that it
\* accepted below is waiting.
Close(d, epoch, fence) ==
  /\ Cardinality(closures) < MaxClosures
  /\ \A a \in Allowances : accepted[a] = d /\ Reaches(epoch, fence, a) => allowance[a].state # "ISSUED"
  /\ \E k \in DOMAIN windows[d] :
       /\ KeyValidAt(d, k, epoch)
       /\ closures' = closures \cup {[domain |-> d, epoch |-> epoch, fence |-> fence, key |-> k]}
  /\ UNCHANGED <<device, allowance, rights, windows, links, posted, accepted>>

-----------------------------------------------------------------------------
(* Redemption and return.                                                  *)

\* Fault: what was paid offline stays in the total.
RedeemedFromIssued(amount) == [rights EXCEPT !.issued = @ - amount]

Redeemed(amount) == [rights EXCEPT !.issued = @ - amount, !.total = @ - amount]

\* redeem_offline_presentation: an issued allowance, in a domain that covers it.
MayRedeem(a) ==
  /\ accepted[a] \in CoveringDomains(allowance[a].epoch)
  /\ allowance[a].state = "ISSUED"
  /\ rights.issued >= AmountOf[a] /\ rights.total >= AmountOf[a]

RedeemPresentationInTx(a) ==
  /\ MayRedeem(a)
  /\ rights' = Redeemed(AmountOf[a])
  /\ allowance' = [allowance EXCEPT ![a].state = "REDEEMED"]

\* RedeemAndPost: the posting, the receipt and the consumption in one transaction.  A
\* second upload finds the receipt: it changes nothing, or takes its posting back.
RedeemAndPost(a) ==
  /\ posted' = [posted EXCEPT ![a] = @ + 1]
  /\ RedeemPresentationInTx(a)
  /\ UNCHANGED <<device, windows, links, accepted, closures>>

\* Fault: a closure of the epoch counts, however far it goes.
CoversEpoch(c, a) == c.epoch >= allowance[a].epoch

\* A closure covers an allowance: a later epoch, or this one up to its counter.
Covers(c, a) == c.epoch > allowance[a].epoch \/ (c.epoch = allowance[a].epoch /\ c.fence >= allowance[a].counter)

\* validateAndPersistClosures, record_offline_domain_closure: one valid closure of
\* each domain that covers the epoch, and of no other.
CompleteClosure(a, set) ==
  /\ CoveringDomains(allowance[a].epoch) # {}
  /\ {c.domain : c \in set} = CoveringDomains(allowance[a].epoch)
  /\ Cardinality(set) = Cardinality(CoveringDomains(allowance[a].epoch))
  /\ \A c \in set : Covers(c, a) /\ KeyValidAt(c.domain, c.key, c.epoch)

\* The fence of terminate_offline_allowance.
FencePasses(a) == device.epoch >= allowance[a].epoch /\ device.counter >= allowance[a].counter

Returned(amount) == [rights EXCEPT !.issued = @ - amount, !.available = @ + amount]

terminateVerifiedInTx(a, kind, set) ==
  /\ allowance[a].state = "ISSUED"
  /\ CompleteClosure(a, set)
  /\ FencePasses(a)
  /\ rights' = Returned(AmountOf[a])
  /\ allowance' = [allowance EXCEPT ![a].state = kind]
  /\ links' = [links EXCEPT ![a] = set]

\* Terminate: with a proof on record it changes nothing.
Terminate(a, kind, set) ==
  /\ terminateVerifiedInTx(a, kind, set)
  /\ UNCHANGED <<device, windows, posted, accepted, closures>>

OfflineNext ==
  \/ EnrollDevice \/ AdvanceIssuerEpoch \/ SpendOnline
  \/ \E d \in Domains :
       \/ ConfigureAcceptanceDomain(d)
       \/ \E e \in 1 .. MaxEpoch :
            \/ RotateAcceptanceDomainKey(d, e) \/ TerminateAcceptanceDomainKey(d, e)
            \/ \E f \in Fences : Close(d, e, f)
  \/ \E a \in Allowances :
       \/ Issue(a) \/ RedeemAndPost(a)
       \/ \E d \in Domains : Present(a, d)
       \/ \E kind \in {"REVOKED", "EXPIRED"}, set \in SUBSET closures : Terminate(a, kind, set)

-----------------------------------------------------------------------------
(* The conservation check.                                                 *)

\* The fold of the allowances that are outstanding, which Snapshot reads.
FoldedOutstanding ==
  FoldSet(LAMBDA a, sum : sum + AmountOf[a], 0, {a \in Allowances : allowance[a].state = "ISSUED"})

Conserved ==
  /\ \A bucket \in DOMAIN rights : rights[bucket] >= 0
  /\ rights.issued = FoldedOutstanding
  /\ rights.available + rights.issued = rights.total

-----------------------------------------------------------------------------
(* Properties.                                                             *)

\* CheckConservation never fails: in every state the buckets add up to the total
\* authority, none is negative, and what is offline is the fold of the allowances that
\* are issued and neither redeemed nor returned.
AuthorityConserved == Conserved

\* A merchant who accepted an allowance can be paid, once: no allowance is returned to the region
\* after a domain that its return relied on has accepted it, however late the upload
\* is, whatever keys were rotated and whenever the epoch advanced; and the evidence of
\* a return stays valid under the history of keys.
AcceptedIsNotReturned ==
  \A a \in Allowances :
    /\ posted[a] = IF allowance[a].state = "REDEEMED" THEN 1 ELSE 0
    /\ allowance[a].state \in {"REVOKED", "EXPIRED"} => accepted[a] \notin {c.domain : c \in links[a]}
    /\ \A c \in links[a] : KeyValidAt(c.domain, c.key, c.epoch)

\* "Existing signed allowances retain their old epoch and remain governed by their
\* individual durable state" (AdvanceIssuerEpoch): an issued allowance whose closure is
\* complete can be returned, whatever epoch the device is in by now.
ReturnableWhenClosed ==
  \A a \in Allowances :
    allowance[a].state = "ISSUED" /\ (\E set \in SUBSET closures : CompleteClosure(a, set)) => FencePasses(a)
=============================================================================
