----------------------------- MODULE AuditExport -----------------------------
(***************************************************************************)
(* The audit checkpointer: workers that close ranges of each book's hash   *)
(* chain with signed Merkle checkpoints and copy a manifest of each to two *)
(* WORM stores (internal/audit, internal/auditexport, migration 025),      *)
(* while the ledger keeps posting.                                         *)
(*                                                                         *)
(* Every write is a step, so a worker acts on what it read some steps ago. *)
(* Reads in a row are one step where they cannot tell: the tables and the  *)
(* stores only grow.  Two workers meet on a book while a shard changes     *)
(* hands.  Statements and sinks fail and workers die, at most MaxFaults    *)
(* times.                                                                  *)
(***************************************************************************)
EXTENDS Ledger, SequencesExt

CONSTANTS
  Requests,           \* posting requests
  Workers,
  Sinks,              \* the two sinks, in the order of the exporter
  MaxRangeEntries,    \* WorkerConfig
  MaxPendingPerBook,
  MaxReadyBacklog,
  MaxFaults

ASSUME AuditAssumption ==
  /\ Sinks \in Seq(STRING) /\ MaxRangeEntries \in Nat \ {0}
  /\ MaxPendingPerBook \in Nat \ {0} /\ MaxReadyBacklog \in Nat /\ MaxFaults \in Nat

VARIABLES
  ledger,
  checkpoints,   \* audit.merkle_checkpoints
  manifests,     \* audit.checkpoint_manifests, by book and last sequence
  receipts,      \* audit.worm_export_receipts
  objects,       \* what the WORM stores hold
  worker,        \* phase, readiness and what observeLagAndGate listed
  job,           \* processBook, by worker and book
  faults

auditVars == <<checkpoints, manifests, receipts, objects>>

vars == <<ledger, checkpoints, manifests, receipts, objects, worker, job, faults>>

SinkIds == {Sinks[i] : i \in DOMAIN Sinks}

None == [book |-> "none", first |-> 0, last |-> 0, root |-> <<>>, entry |-> <<>>, previous |-> <<>>]

NoJob ==
  [pc |-> "idle", closed |-> 0, todo |-> <<>>, pending |-> FALSE, created |-> FALSE,
   failed |-> FALSE, sink |-> 1, latest |-> 0, draft |-> None, before |-> None, scrub |-> 0]

NoWorker == [phase |-> "idle", ready |-> FALSE, listed |-> [b \in Books |-> 0]]

-----------------------------------------------------------------------------
(* audit.SQLReader, VerifyRange and the checkpoint queries.                *)

Closed(b) == ledger.books[b].next - 1

RowAt(b, n) == CHOOSE r \in Rows(ledger, b) : r.seq = n

In(b) == {c \in checkpoints : c.book = b}

Lasts(b) == {0} \cup {c.last : c \in In(b)}

\* latestQuery: the last checkpoint of the book, or None.
Latest(b) ==
  IF In(b) = {} THEN None ELSE CHOOSE c \in In(b) : \A d \in In(b) : d.last <= c.last

CheckpointAt(b, n) == CHOOSE c \in In(b) : c.last = n

\* The range is there in full and its chain recomputes from the entry before it.
VerifyRange(b, first, last, previous) ==
  /\ {r.seq : r \in Rows(ledger, b)} \cap (first .. last) = first .. last
  /\ \A n \in first .. last :
       LET p == IF n = first THEN previous ELSE RowAt(b, n - 1).entry
       IN  RowAt(b, n).prev = p /\ RowAt(b, n).entry = HashEntry(p, n, RowAt(b, n))

MerkleRoot(b, first, last) == [i \in 1 .. (last - first + 1) |-> RowAt(b, first + i - 1).entry]

\* The entry hash a checkpoint starts from.
EntryBefore(b, c) == IF c = None THEN GenesisHash(b) ELSE c.entry

Draft(b, first, last, before) ==
  [book |-> b, first |-> first, last |-> last, root |-> MerkleRoot(b, first, last),
   entry |-> RowAt(b, last).entry, previous |-> before.root]

\* VerifyStored: the checkpoint is what its predecessor and the journal give again.
VerifyStored(c) ==
  LET before == IF c.first = 1 THEN None ELSE CheckpointAt(c.book, c.first - 1)
  IN  /\ c.first > 1 => \E p \in In(c.book) : p.last = c.first - 1
      /\ VerifyRange(c.book, c.first, c.last, EntryBefore(c.book, before))
      /\ c = Draft(c.book, c.first, c.last, before)

-----------------------------------------------------------------------------
(* The repository.                                                         *)

HasReceipt(s, b, n) == [sink |-> s, book |-> b, last |-> n] \in receipts

\* Fault: a checkpoint counts as pending only while both sinks miss it.
MissingInBoth(b) == {n \in Lasts(b) \ {0} : \A s \in SinkIds : ~HasReceipt(s, b, n)}

Pending(b) == {n \in Lasts(b) \ {0} : \E s \in SinkIds : ~HasReceipt(s, b, n)}

\* The first MaxPendingPerBook of them, in order.
PendingCheckpoints(b) ==
  LET ordered == SetToSortSeq(Pending(b), <)
  IN  SubSeq(ordered, 1, Min({MaxPendingPerBook, Len(ordered)}))

\* Fault: the receipt trigger does not look at the receipt before.
ManifestOnly(s, c) == <<c.book, c.last>> \in manifests

\* enforce_worm_receipt_insert.
ReceiptAllowed(s, c) ==
  /\ <<c.book, c.last>> \in manifests
  /\ c.first > 1 => HasReceipt(s, c.book, c.first - 1)

ExportedLast(s, b) == Max({0} \cup {r.last : r \in {q \in receipts : q.sink = s /\ q.book = b}})

\* verifyOne: the receipt and the object are both there.
Anchored(s, c) == HasReceipt(s, c.book, c.last) /\ [sink |-> s, checkpoint |-> c] \in objects

\* NextHistoricalCheckpoint: the first one after the cursor, else the oldest.
Historical(b, after, latest) ==
  LET from(m) == {n \in Lasts(b) : n > m /\ n < latest}
  IN  IF from(after) # {} THEN Min(from(after))
      ELSE IF from(0) # {} THEN Min(from(0)) ELSE 0

-----------------------------------------------------------------------------
Init ==
  /\ ledger = EmptyLedger
  /\ checkpoints = {} /\ manifests = {} /\ receipts = {} /\ objects = {}
  /\ worker = [w \in Workers |-> NoWorker]
  /\ job = [w \in Workers |-> [b \in Books |-> NoJob]]
  /\ faults = 0

\* A financial operation posts (ledger.Service.Post).
Post(q) ==
  /\ CanPost(ledger, q)
  /\ ledger' = PostTo(ledger, q)
  /\ UNCHANGED <<auditVars, worker, job, faults>>

Set(w, b, j) == job' = [job EXCEPT ![w][b] = j]

\* RunCycle: the worker is not ready while it works, and takes one look at the books.
StartCycle(w) ==
  /\ worker[w].phase = "idle"
  /\ worker' = [worker EXCEPT ![w].phase = "books", ![w].ready = FALSE]
  /\ job' = [job EXCEPT ![w] = [b \in Books |->
               [NoJob EXCEPT !.pc = "listed", !.closed = Closed(b), !.scrub = job[w][b].scrub]]]
  /\ UNCHANGED <<ledger, auditVars, faults>>

\* processBook first exports what earlier cycles left behind.
ReadPending(w, b) ==
  LET todo == PendingCheckpoints(b)
  IN  /\ job[w][b].pc = "listed"
      /\ Set(w, b, [job[w][b] EXCEPT !.todo = todo, !.pending = (todo # <<>>),
                                     !.pc = IF todo = <<>> THEN "latest" ELSE "prepare"])
      /\ UNCHANGED <<ledger, auditVars, worker, faults>>

\* verifiedArtifact: the stored checkpoint is verified again, its manifest stored.
Prepare(w, b) ==
  LET c == CheckpointAt(b, Head(job[w][b].todo))
  IN  /\ job[w][b].pc = "prepare"
      /\ manifests' = manifests \cup (IF VerifyStored(c) THEN {<<b, c.last>>} ELSE {})
      /\ Set(w, b, [job[w][b] EXCEPT !.sink = 1, !.pc = IF VerifyStored(c) THEN "put" ELSE "failed"])
      /\ UNCHANGED <<ledger, checkpoints, receipts, objects, worker, faults>>

\* Export goes on with the next sink whatever happened at this one; its errors
\* end processBook after the last.
AfterSink(j, failed) ==
  IF j.sink < Len(Sinks) THEN [j EXCEPT !.sink = j.sink + 1, !.failed = failed, !.pc = "put"]
  ELSE IF failed THEN [j EXCEPT !.pc = "failed"]
  ELSE IF j.created THEN [j EXCEPT !.latest = Head(j.todo), !.pc = "verify"]
  ELSE [j EXCEPT !.todo = Tail(j.todo), !.pc = IF Len(j.todo) = 1 THEN "latest" ELSE "prepare"]

\* Sink.Ensure: the object is stored unless it is there.  With a receipt it is
\* only verified.
Put(w, b) ==
  LET j == job[w][b]
      c == CheckpointAt(b, Head(j.todo))
      s == Sinks[j.sink]
  IN  /\ j.pc = "put"
      /\ IF HasReceipt(s, b, c.last)
         THEN /\ Set(w, b, AfterSink(j, j.failed \/ ~Anchored(s, c)))
              /\ UNCHANGED objects
         ELSE /\ objects' = objects \cup {[sink |-> s, checkpoint |-> c]}
              /\ Set(w, b, [j EXCEPT !.pc = "receipt"])
      /\ UNCHANGED <<ledger, checkpoints, manifests, receipts, worker, faults>>

RecordReceipt(w, b) ==
  LET j == job[w][b]
      c == CheckpointAt(b, Head(j.todo))
      s == Sinks[j.sink]
  IN  /\ j.pc = "receipt"
      /\ receipts' = receipts \cup
           (IF ReceiptAllowed(s, c) THEN {[sink |-> s, book |-> b, last |-> c.last]} ELSE {})
      /\ Set(w, b, AfterSink(j, j.failed \/ ~ReceiptAllowed(s, c)))
      /\ UNCHANGED <<ledger, checkpoints, manifests, objects, worker, faults>>

\* A call to a sink fails, its object stored or not, or a receipt's statement does,
\* the receipt stored or not.
SinkFails(w, b) ==
  LET j == job[w][b]
      c == CheckpointAt(b, Head(j.todo))
  IN  /\ j.pc \in {"put", "receipt"}
      /\ faults < MaxFaults
      /\ faults' = faults + 1
      /\ objects' \in {objects, objects \cup {[sink |-> Sinks[j.sink], checkpoint |-> c]}}
      /\ receipts' \in {receipts} \cup
           (IF j.pc = "receipt" /\ ReceiptAllowed(Sinks[j.sink], c)
            THEN {receipts \cup {[sink |-> Sinks[j.sink], book |-> b, last |-> c.last]}} ELSE {})
      /\ Set(w, b, AfterSink(j, TRUE))
      /\ UNCHANGED <<ledger, checkpoints, manifests, worker>>

\* A new checkpoint only when nothing was pending, up to what the cycle listed.
ReadLatest(w, b) ==
  LET j == job[w][b]
      last == Latest(b).last
  IN  /\ j.pc = "latest"
      /\ Set(w, b, [j EXCEPT !.latest = last,
                             !.pc = IF ~j.pending /\ last < j.closed THEN "create"
                                    ELSE IF last = 0 THEN "done" ELSE "verify"])
      /\ UNCHANGED <<ledger, auditVars, worker, faults>>

RangeEnd(j) == Min({j.closed, j.latest + MaxRangeEntries})

\* Checkpointer.Create up to the signature: an existing checkpoint is taken if it
\* covers the same range, else the range must follow the latest checkpoint.
CreateDraft(w, b) ==
  LET j == job[w][b]
      first == j.latest + 1
      last == RangeEnd(j)
      before == Latest(b)
      present == last \in Lasts(b)
  IN  /\ j.pc = "create"
      /\ Set(w, b,
           IF present /\ CheckpointAt(b, last).first = first
           THEN [j EXCEPT !.todo = <<last>>, !.created = TRUE, !.pc = "prepare"]
           ELSE IF present \/ before.last # j.latest
                     \/ ~VerifyRange(b, first, last, EntryBefore(b, before))
           THEN [j EXCEPT !.pc = "failed"]
           ELSE [j EXCEPT !.draft = Draft(b, first, last, before), !.before = before,
                          !.pc = "insert"])
      /\ UNCHANGED <<ledger, auditVars, worker, faults>>

\* Fault: the predecessor is not read again.
PredecessorTrusted(j, b) == TRUE

\* ErrCheckpointRace otherwise.
PredecessorUnchanged(j, b) == Latest(b) = j.before

InsertAllowed(j, b) ==
  /\ PredecessorUnchanged(j, b)
  /\ (\A c \in In(b) : c.last # j.draft.last) \/ j.draft \in checkpoints

\* The transaction that stores the signed draft.
InsertCheckpoint(w, b) ==
  LET j == job[w][b]
  IN  /\ j.pc = "insert"
      /\ IF InsertAllowed(j, b)
         THEN /\ checkpoints' = checkpoints \cup {j.draft}
              /\ Set(w, b, [j EXCEPT !.todo = <<j.draft.last>>, !.created = TRUE,
                                     !.draft = None, !.before = None, !.pc = "prepare"])
         ELSE /\ Set(w, b, [j EXCEPT !.draft = None, !.before = None, !.pc = "failed"])
              /\ UNCHANGED checkpoints
      /\ UNCHANGED <<ledger, manifests, receipts, objects, worker, faults>>

\* The latest anchor and then one older one are verified at both sinks.
Verify(w, b) ==
  LET j == job[w][b]
      good(n) == VerifyStored(CheckpointAt(b, n))
                 /\ \A s \in SinkIds : Anchored(s, CheckpointAt(b, n))
      old == IF good(j.latest) THEN Historical(b, j.scrub, j.latest) ELSE 0
      looked == {j.latest, old} \ {0}
      allGood == \A n \in looked : good(n)
  IN  /\ j.pc = "verify"
      /\ manifests' = manifests \cup
           {<<b, n>> : n \in {k \in looked : VerifyStored(CheckpointAt(b, k))}}
      /\ Set(w, b, [j EXCEPT !.scrub = IF allGood /\ old # 0 THEN old ELSE j.scrub,
                             !.pc = IF allGood THEN "done" ELSE "failed"])
      /\ UNCHANGED <<ledger, checkpoints, receipts, objects, worker, faults>>

\* A statement fails, or its answer is lost: the book fails, and what the statement
\* was to write is there or not.
StatementFails(w, b) ==
  LET j == job[w][b]
  IN  /\ j.pc \in {"listed", "prepare", "latest", "create", "insert", "verify"}
      /\ faults < MaxFaults
      /\ faults' = faults + 1
      /\ checkpoints' \in {checkpoints} \cup
           (IF j.pc = "insert" /\ InsertAllowed(j, b) THEN {checkpoints \cup {j.draft}} ELSE {})
      /\ manifests' \in {manifests} \cup
           (IF j.pc = "prepare" /\ VerifyStored(CheckpointAt(b, Head(j.todo)))
            THEN {manifests \cup {<<b, Head(j.todo)>>}} ELSE {})
      /\ Set(w, b, [j EXCEPT !.draft = None, !.before = None, !.pc = "failed"])
      /\ UNCHANGED <<ledger, receipts, objects, worker>>

Finished(w) == \A b \in Books : job[w][b].pc \in {"done", "failed"}

Rest(w) ==
  job' = [job EXCEPT ![w] = [b \in Books |-> [NoJob EXCEPT !.scrub = job[w][b].scrub]]]

\* A book failed: the cycle fails.
CycleFails(w) ==
  /\ worker[w].phase = "books" /\ Finished(w)
  /\ \E b \in Books : job[w][b].pc = "failed"
  /\ worker' = [worker EXCEPT ![w].phase = "idle"]
  /\ Rest(w)
  /\ UNCHANGED <<ledger, auditVars, faults>>

\* observeLagAndGate lists the books again; too long a backlog fails the cycle ...
GateList(w) ==
  /\ worker[w].phase = "books"
  /\ \A b \in Books : job[w][b].pc = "done"
  /\ worker' = [worker EXCEPT
       ![w].listed = [b \in Books |-> Latest(b).last],
       ![w].phase = IF \A b \in Books : Closed(b) - Latest(b).last <= MaxReadyBacklog
                    THEN "gate" ELSE "idle"]
  /\ Rest(w)
  /\ UNCHANGED <<ledger, auditVars, faults>>

\* Fault: one sink is enough.
ExportedToOne(w, b) == \E s \in SinkIds : ExportedLast(s, b) = worker[w].listed[b]

ExportedToAll(w, b) == \A s \in SinkIds : ExportedLast(s, b) = worker[w].listed[b]

\* ... and so does a sink that is behind, or ahead, of that list.
GateCheck(w) ==
  LET ok == \A b \in Books : ExportedToAll(w, b)
  IN  /\ worker[w].phase = "gate"
      /\ worker' = [worker EXCEPT ![w].phase = "idle", ![w].ready = ok]
      /\ UNCHANGED <<ledger, auditVars, job, faults>>

\* The process dies, wherever it is.  (A gate or a listing that fails ends the cycle
\* in the same way and keeps the scrub cursor.)
Crash(w) ==
  /\ faults < MaxFaults
  /\ faults' = faults + 1
  /\ worker' = [worker EXCEPT ![w] = NoWorker]
  /\ job' = [job EXCEPT ![w] = [b \in Books |-> NoJob]]
  /\ UNCHANGED <<ledger, auditVars>>

JobStep(w, b) ==
  \/ ReadPending(w, b) \/ Prepare(w, b) \/ Put(w, b) \/ RecordReceipt(w, b)
  \/ ReadLatest(w, b) \/ CreateDraft(w, b) \/ InsertCheckpoint(w, b) \/ Verify(w, b)

CycleStep(w) == StartCycle(w) \/ CycleFails(w) \/ GateList(w) \/ GateCheck(w)

Next ==
  \/ \E q \in Requests : Post(q)
  \/ \E w \in Workers : CycleStep(w) \/ Crash(w)
  \/ \E w \in Workers, b \in Books : JobStep(w, b) \/ SinkFails(w, b) \/ StatementFails(w, b)

Spec == Init /\ [][Next]_vars

\* A worker runs its cycles one after the other and a cycle ends; faults are not fair.
FairSpec ==
  Spec /\ \A w \in Workers : WF_vars(CycleStep(w) \/ \E b \in Books : JobStep(w, b))

-----------------------------------------------------------------------------
\* Checkpoints tile the journal: the ranges of a book follow each other from the
\* first entry without gap or overlap, each commits to the entries it covers and
\* to the checkpoint before it, however many workers created them at once.
CheckpointsTile ==
  \A c \in checkpoints :
    /\ VerifyStored(c)
    /\ \A d \in checkpoints : c.book = d.book /\ c # d => c.last < d.first \/ d.last < c.first

\* The receipts of a sink are a prefix of the checkpoints, and each stands for an
\* object in the store with a stored manifest.
ReceiptsArePrefix ==
  \A r \in receipts :
    /\ \A n \in Lasts(r.book) : 0 < n /\ n < r.last => HasReceipt(r.sink, r.book, n)
    /\ <<r.book, r.last>> \in manifests
    /\ \E c \in In(r.book) : c.last = r.last /\ [sink |-> r.sink, checkpoint |-> c] \in objects

\* What the stores prove without the database: the entries covered by objects.
Covered(s, b) ==
  UNION {c.first .. c.last : c \in {o.checkpoint : o \in {p \in objects : p.sink = s /\ p.checkpoint.book = b}}}

\* A worker that reports ready saw no more checkpoints than both stores prove, from
\* the first entry on.
ReadyMeansAnchored ==
  \A w \in Workers, b \in Books, s \in SinkIds :
    worker[w].ready => (1 .. worker[w].listed[b]) \subseteq Covered(s, b)

\* Every posted entry is eventually proved by both stores: again and again (postings
\* are finitely many) there is nothing they lack.
EveryEntryAnchored ==
  []<>(\A b \in Books, s \in SinkIds : (1 .. Closed(b)) \subseteq Covered(s, b))
=============================================================================
