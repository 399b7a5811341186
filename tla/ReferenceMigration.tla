-------------------------- MODULE ReferenceMigration --------------------------
(***************************************************************************)
(* The online change of the reference field (internal/schemamigration):    *)
(* postings go on while the references of the posted headers are copied    *)
(* to a shadow table, compared, published to readers and, when every       *)
(* required reader has agreed, made the only contract.                     *)
(*                                                                         *)
(* An operator names the state version it has seen; a call that names      *)
(* another one, or that repeats a step already taken, changes nothing.     *)
(***************************************************************************)
EXTENDS Calls

CONSTANTS
  Postings,     \* transactions to come: name, book and reference
  Sides,        \* Sides[b]: the two accounts that postings of book b move
  FirstBooks,   \* books that are there from the start
  Readers,
  BatchSize

VARIABLES
  created,      \* rows of books
  control,      \* reference_migration_control
  marks,        \* watermarks of the generation, by book: sequence, head, cursor
  verified,     \* the digest stored by Verify
  shadow,       \* ledger_transaction_references_shadow
  readers       \* reference_migration_consumers

migrationVars == <<created, control, marks, verified, shadow, readers>>

Phases == <<"EXPANDED", "SHADOWING", "VERIFIED", "CUTOVER", "CONTRACTED">>

phaseAtLeast(phase, target) ==
  \E i, j \in DOMAIN Phases : Phases[i] = phase /\ Phases[j] = target /\ i >= j

NoReader == [required |-> FALSE, acknowledged |-> -1]

InitMigration ==
  /\ created = FirstBooks
  /\ control = [generation |-> 0, reading |-> 0, phase |-> "EXPANDED", version |-> 0]
  /\ marks = <<>>
  /\ verified = {}
  /\ shadow = {}
  /\ readers = [c \in Readers |-> NoReader]

-----------------------------------------------------------------------------
(* The ledger, meanwhile.                                                  *)

CreateBook(b) ==
  /\ b \notin created
  /\ created' = created \cup {b}
  /\ UNCHANGED <<callVars, control, marks, verified, shadow, readers>>

\* The rows that project a set of posted headers.
Projected(rows) == {[tx |-> r.tx, reference |-> r.hash.reference] : r \in {s \in rows : s.hash.reference # "none"}}

\* Fault: the projection ends with the migration.
ShadowedUntilCutover == control.phase \in {"SHADOWING", "VERIFIED"}

\* The finalizer writes the shadow row with the header in every phase but the first.
Shadowed == phaseAtLeast(control.phase, "SHADOWING")

PostReference(p) ==
  LET q == [tx |-> p.tx, effect |-> p.tx, book |-> p.book, hash |-> p,
            lines |-> <<Line(Sides[p.book][1], "DEBIT", 1), Line(Sides[p.book][2], "CREDIT", 1)>>]
  IN  /\ p.book \in created
      /\ CanPost(ledger, q)
      /\ ledger' = PostTo(ledger, q)
      /\ shadow' = shadow \cup (IF Shadowed THEN Projected({q}) ELSE {})
      /\ UNCHANGED <<outbox, answers, calls, faults, issuer, cache>>
      /\ UNCHANGED <<created, control, marks, verified, readers>>

-----------------------------------------------------------------------------
(* The workflow.                                                           *)

\* The compare-and-swap on the control row.
Move(expected, phase, to) ==
  /\ control.phase = phase /\ control.version = expected
  /\ control' = [to EXCEPT !.version = @ + 1]

\* Watermarks of all books in the commit that starts the shadow writes.
Start(expected) ==
  /\ Move(expected, "EXPANDED", [control EXCEPT !.generation = @ + 1, !.phase = "SHADOWING"])
  /\ marks' = [b \in created |-> [sequence |-> ledger.books[b].next - 1, head |-> ledger.books[b].head,
                                  cursor |-> 1]]
  /\ UNCHANGED <<callVars, created, verified, shadow, readers>>

Complete(b) == marks[b].cursor = marks[b].sequence + 1

\* BackfillOnce: the next headers of a book that no other worker has locked.
BackfillOnce(b) ==
  LET end   == Min({marks[b].sequence, marks[b].cursor + BatchSize - 1})
      batch == {r \in Rows(ledger, b) : r.seq \in marks[b].cursor .. end}
  IN  /\ control.phase = "SHADOWING"
      /\ ~Complete(b)
      /\ {r.seq : r \in batch} = marks[b].cursor .. end
      /\ shadow' = shadow \cup Projected(batch)
      /\ marks' = [marks EXCEPT ![b].cursor = end + 1]
      /\ UNCHANGED <<callVars, created, control, verified, readers>>

\* verifyWatermarkHeads.
HeadsHold ==
  \A b \in DOMAIN marks :
    marks[b].head = IF marks[b].sequence = 0 THEN GenesisHash(b)
                    ELSE (CHOOSE r \in Rows(ledger, b) : r.seq = marks[b].sequence).entry

\* The posted headers up to the watermarks; source and target are compared as sets.
ClosedRows == {r \in ledger.journal : r.book \in DOMAIN marks /\ r.seq <= marks[r.book].sequence}

Target == {p \in shadow : \E r \in ClosedRows : r.tx = p.tx}

verifySnapshot ==
  /\ \A b \in DOMAIN marks : Complete(b)
  /\ HeadsHold
  /\ Projected(ClosedRows) = Target

Verify(expected) ==
  /\ Move(expected, "SHADOWING", [control EXCEPT !.phase = "VERIFIED"])
  /\ verifySnapshot
  /\ verified' = Target
  /\ UNCHANGED <<callVars, created, marks, shadow, readers>>

Required == {c \in Readers : readers[c].required}

Cutover(expected) ==
  /\ Move(expected, "VERIFIED", [control EXCEPT !.phase = "CUTOVER", !.reading = control.generation])
  /\ verifySnapshot /\ verified = Target
  /\ Required # {}
  /\ UNCHANGED <<callVars, created, marks, verified, shadow, readers>>

RegisterConsumer(c, required) ==
  /\ ~phaseAtLeast(control.phase, "CUTOVER")
  /\ readers[c] = NoReader
  /\ readers' = [readers EXCEPT ![c] = [required |-> required, acknowledged |-> 0]]
  /\ UNCHANGED <<callVars, created, control, marks, verified, shadow>>

AcknowledgeConsumer(c) ==
  /\ readers[c] # NoReader
  /\ readers[c].acknowledged < control.generation
  /\ readers' = [readers EXCEPT ![c].acknowledged = control.generation]
  /\ UNCHANGED <<callVars, created, control, marks, verified, shadow>>

Contract(expected) ==
  /\ Move(expected, "CUTOVER", [control EXCEPT !.phase = "CONTRACTED"])
  /\ Required # {}
  /\ \A c \in Required : readers[c].acknowledged >= control.generation
  /\ UNCHANGED <<callVars, created, marks, verified, shadow, readers>>

MigrationNext ==
  \/ \E b \in Books : CreateBook(b)
  \/ \E p \in Postings : PostReference(p)
  \/ \E v \in 0 .. control.version : Start(v) \/ Verify(v) \/ Cutover(v) \/ Contract(v)
  \/ \E b \in DOMAIN marks : BackfillOnce(b)
  \/ \E c \in Readers : AcknowledgeConsumer(c) \/ \E required \in BOOLEAN : RegisterConsumer(c, required)

-----------------------------------------------------------------------------
(* Properties.                                                             *)

\* ReadReference: the header before cutover, the shadow row after it.
ReadReference(r) ==
  IF control.reading = 0 THEN r.hash.reference
  ELSE IF \E p \in shadow : p.tx = r.tx THEN (CHOOSE p \in shadow : p.tx = r.tx).reference
  ELSE "none"

\* Readers never notice the change: in every phase, ReadReference returns for every
\* posted transaction the reference of its header, whether it was posted before the
\* start, between start and cutover or after it, and in a book that is older or
\* younger than the watermarks; and the old contract ends only when every required
\* reader has acknowledged the generation they read.
ReadsAgree ==
  /\ \A r \in {t \in ledger.journal : t.hash \in Postings} : ReadReference(r) = r.hash.reference
  /\ control.phase = "CONTRACTED" =>
       Required # {} /\ \A c \in Required : readers[c].acknowledged = control.reading
=============================================================================
