------------------------------ MODULE Migrator ------------------------------
(***************************************************************************)
(* The schema migrator (cmd/schema-migrator): statements that cannot be    *)
(* undone and cannot share a transaction with their own record, run by     *)
(* processes of which several may start at once and any may die.  The      *)
(* attempt and each step are recorded before the statement is sent, and    *)
(* whatever is not known to be complete stays for an operator.             *)
(*                                                                         *)
(* The files of an image are numbered 1, 2, ...; a checksum stands for the *)
(* content.                                                                *)
(***************************************************************************)
EXTENDS Integers, FiniteSets, Sequences

CONSTANTS
  Runs,           \* the run ids of the processes
  Image,          \* the checksums of the migrations each run finds in its directory
  Target,         \* the version each run is to stop at, 0 when none is set
  Acknowledged,   \* the runs that acknowledge applying everything
  Statements      \* the number of statements of each migration

ASSUME ImageAssumption ==
  /\ Statements \in Seq(Nat \ {0})
  /\ Image \in [Runs -> Seq(STRING \ {"none"})]
  /\ Target \in [Runs -> Nat]
  /\ \A r \in Runs : Len(Image[r]) <= Len(Statements)

VARIABLES
  applied,        \* schema_migrations: the checksum of each applied version
  tries,          \* schema_migration_attempts
  steps,          \* schema_migration_steps
  proc,           \* what each run is doing
  executed        \* history: how often each statement took effect

migratorVars == <<applied, tries, steps, proc, executed>>

Versions == 1 .. Len(Statements)

\* A target that is not in the image, or a missing one that is not acknowledged, selects
\* nothing and the run stops.
migrationsThrough(r) ==
  IF Target[r] = 0 THEN IF r \in Acknowledged THEN Image[r] ELSE <<>>
  ELSE IF Target[r] \in DOMAIN Image[r] THEN SubSeq(Image[r], 1, Target[r])
  ELSE <<>>

Files == [r \in Runs |-> migrationsThrough(r)]

Idle == [stage |-> "new", version |-> 1, ordinal |-> 1]

NoTry == [status |-> "NONE", owner |-> "none", checksum |-> "none"]

InitMigrator ==
  /\ applied = [v \in Versions |-> "none"]
  /\ tries = [v \in Versions |-> NoTry]
  /\ steps = [v \in Versions |-> [k \in 1 .. Statements[v] |-> "NONE"]]
  /\ proc = [r \in Runs |-> Idle]
  /\ executed = [v \in Versions |-> [k \in 1 .. Statements[v] |-> 0]]

Go(r, stage) == proc' = [proc EXCEPT ![r].stage = stage]

-----------------------------------------------------------------------------

\* verifyDatabaseCatalog, in two reads: what is applied begins the files of this
\* image, unchanged ...
AppliedIsPrefix(r) == \A v \in Versions : applied[v] # "none" => v <= Len(Files[r]) /\ applied[v] = Files[r][v]

\* ... and no attempt is beyond them, or at odds with its receipt.
AttemptsAgree(r) ==
  \A v \in Versions :
    tries[v] # NoTry => v <= Len(Files[r]) /\ ((tries[v].status = "APPLIED") <=> (applied[v] # "none"))

Begin(r) ==
  /\ \/ proc[r].stage = "new" /\ Go(r, IF Files[r] # <<>> /\ AppliedIsPrefix(r) THEN "check" ELSE "refused")
     \/ proc[r].stage = "check" /\ Go(r, IF AttemptsAgree(r) THEN "claim" ELSE "refused")
  /\ UNCHANGED <<applied, tries, steps, executed>>

\* The next file, or the end of them.
Following(r) ==
  IF proc[r].version < Len(Files[r])
  THEN [stage |-> "claim", version |-> proc[r].version + 1, ordinal |-> 1]
  ELSE [proc[r] EXCEPT !.stage = "done"]

\* The claim's transaction conflicts after it has inserted, and is run again.
RepeatClaim(r) ==
  /\ proc[r].stage = "claim"
  /\ applied[proc[r].version] = "none" /\ tries[proc[r].version] = NoTry
  /\ Go(r, "reclaim")
  /\ UNCHANGED <<applied, tries, steps, executed>>

\* claimMigration: an applied version is skipped when the content is the same, an
\* attempt of anybody stops the run, and otherwise this run owns the attempt.  A
\* claim that is run again still counts as made when it finds the version applied.
Claim(r) ==
  /\ proc[r].stage \in {"claim", "reclaim"}
  /\ LET v == proc[r].version
     IN  IF applied[v] = "none" /\ tries[v] = NoTry
         THEN /\ tries' = [tries EXCEPT ![v] = [status |-> "ACTIVE", owner |-> r, checksum |-> Files[r][v]]]
              /\ Go(r, "start")
         ELSE /\ proc' = [proc EXCEPT ![r] = IF applied[v] # Files[r][v] THEN [@ EXCEPT !.stage = "refused"]
                                             ELSE IF @.stage = "claim" THEN Following(r)
                                             ELSE [@ EXCEPT !.stage = "start"]]
              /\ UNCHANGED tries
  /\ UNCHANGED <<applied, steps, executed>>

\* lockOwnedAttempt.
Owned(r, v) == tries[v].status = "ACTIVE" /\ tries[v].owner = r /\ tries[v].checksum = Files[r][v]

\* startMigrationStep: a step is started once.
StartStep(r) ==
  /\ proc[r].stage = "start"
  /\ LET v == proc[r].version
         k == proc[r].ordinal
     IN  IF Owned(r, v) /\ steps[v][k] = "NONE"
         THEN steps' = [steps EXCEPT ![v][k] = "ACTIVE"] /\ Go(r, "execute")
         ELSE Go(r, "refused") /\ UNCHANGED steps
  /\ UNCHANGED <<applied, tries, executed>>

\* Fault: a statement that returned an error is sent again.
TryAgain == "execute"

\* A statement that returned an error is recorded as failed.
AfterError == "fail"

\* The statement takes effect or not, and its answer arrives or not.
Execute(r) ==
  /\ proc[r].stage = "execute"
  /\ LET done == [executed EXCEPT ![proc[r].version][proc[r].ordinal] = @ + 1]
     IN  \/ executed' = done /\ Go(r, "complete")
         \/ executed' \in {done, executed} /\ Go(r, AfterError)
  /\ UNCHANGED <<applied, tries, steps>>

\* markMigrationFailed: the step, and the attempt if this run still owns it.
MarkFailed(r) ==
  /\ proc[r].stage = "fail"
  /\ LET v == proc[r].version
     IN  /\ steps' = [steps EXCEPT ![v][proc[r].ordinal] = IF @ = "ACTIVE" THEN "FAILED" ELSE @]
         /\ tries' = [tries EXCEPT ![v].status = IF @ = "ACTIVE" /\ tries[v].owner = r THEN "FAILED" ELSE @]
  /\ Go(r, "refused")
  /\ UNCHANGED <<applied, executed>>

CompleteStep(r) ==
  /\ proc[r].stage = "complete"
  /\ LET v == proc[r].version
         k == proc[r].ordinal
     IN  IF Owned(r, v) /\ steps[v][k] = "ACTIVE"
         THEN /\ steps' = [steps EXCEPT ![v][k] = "APPLIED"]
              /\ proc' = [proc EXCEPT ![r] = IF k < Statements[v] THEN [@ EXCEPT !.stage = "start", !.ordinal = k + 1]
                                             ELSE [@ EXCEPT !.stage = "finalize"]]
         ELSE Go(r, "refused") /\ UNCHANGED steps
  /\ UNCHANGED <<applied, tries, executed>>

\* finalizeMigration: the receipt and the end of the attempt, when every step is applied.
Finalize(r) ==
  /\ proc[r].stage = "finalize"
  /\ LET v == proc[r].version
     IN  IF Owned(r, v) /\ \A k \in DOMAIN steps[v] : steps[v][k] = "APPLIED"
         THEN /\ applied' = [applied EXCEPT ![v] = Files[r][v]]
              /\ tries' = [tries EXCEPT ![v].status = "APPLIED"]
              /\ proc' = [proc EXCEPT ![r] = Following(r)]
         ELSE Go(r, "refused") /\ UNCHANGED <<applied, tries>>
  /\ UNCHANGED <<steps, executed>>

\* The process dies, or a transaction fails that is not followed by another.
Die(r) ==
  /\ proc[r].stage \notin {"new", "done", "refused"}
  /\ Go(r, "refused")
  /\ UNCHANGED <<applied, tries, steps, executed>>

MigratorNext ==
  \E r \in Runs :
    \/ Begin(r) \/ RepeatClaim(r) \/ Claim(r) \/ StartStep(r) \/ Execute(r) \/ MarkFailed(r)
    \/ CompleteStep(r) \/ Finalize(r) \/ Die(r)

-----------------------------------------------------------------------------
(* Properties.                                                             *)

\* Migrations run once and in order, whichever processes race, die or lose an answer:
\* no statement takes effect twice, or before the statements and versions that it
\* follows are complete; an applied version has had all its statements; a run that
\* reports success has every one of its files applied as it is in its image.
RunOnce ==
  /\ \A v \in Versions : \A k \in DOMAIN executed[v] :
       /\ executed[v][k] <= 1
       /\ executed[v][k] = 1 => (\A j \in 1 .. k - 1 : executed[v][j] = 1) /\ (\A u \in 1 .. v - 1 : applied[u] # "none")
       /\ applied[v] # "none" => executed[v][k] = 1
  /\ \A r \in Runs : proc[r].stage = "done" => \A v \in 1 .. Len(Files[r]) : applied[v] = Files[r][v]
=============================================================================
