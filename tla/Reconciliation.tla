---------------------------- MODULE Reconciliation ----------------------------
(***************************************************************************)
(* The reconciliation checks on the ledger, the escrow rows, the outbox    *)
(* and the records of calls (internal/reconciliation).  A check is the set *)
(* of its findings over one snapshot; checks on payments are in            *)
(* PaymentReconciliation and CashbackRepair.                               *)
(***************************************************************************)
EXTENDS Calls

Finding(category, subject) == [category |-> category, severity |-> "P0", subject |-> subject]

\* Posted transactions balance by asset.
checkLedgerBalance ==
  {Finding("UNBALANCED_TRANSACTION", r.effect) : r \in {s \in ledger.journal : ~Balanced(s)}}

\* The balances are what the journal gives again.
checkMaterializedBalances ==
  {Finding("JOURNAL_REPLAY_MISMATCH", a) :
     a \in {b \in Accounts : ledger.balances[b].current # FoldBalance(ledger, b)}}

\* The number of posted rows and the last sequence are both the book's watermark.
checkSequences ==
  LET Gap(b) == \/ Cardinality(Rows(ledger, b)) # ledger.books[b].next - 1
                \/ Max({0} \cup {r.seq : r \in Rows(ledger, b)}) # ledger.books[b].next - 1
  IN  {Finding("JOURNAL_SEQUENCE_GAP", b) : b \in {c \in Books : Gap(c)}}

\* escrow_authority_conservation, where nothing is in transit or offline.
checkEscrow(rows) ==
  {Finding("ESCROW_NOT_CONSERVED", a) : a \in {b \in DOMAIN rows : rows[b].total # rows[b].available}}

\* A record of success names a posted transaction of its own request, and a payment
\* event one that is posted.
checkDurableProofs(records) ==
  LET Proved(i) == \E r \in ledger.journal : r.tx = i.tx /\ r.hash = i.request
      Orphan(e) == e.topic = "payment-events" /\ \A r \in ledger.journal : r.tx # e.parent
  IN  {Finding("SUCCESS_WITHOUT_PROOF", i) : i \in {j \in records : ~Proved(j)}}
        \cup {Finding("OUTBOX_WITHOUT_PARENT", e) : e \in {f \in outbox : Orphan(f)}}

ledgerFindings == checkLedgerBalance \cup checkMaterializedBalances \cup checkSequences

\* Report.Safe.
Safe(findings) == \A f \in findings : f.severity # "P0"

Watermarks == [b \in Books |-> ledger.books[b].next - 1]

Status(findings) == IF Safe(findings) THEN "PASSED" ELSE "FAILED"
=============================================================================
