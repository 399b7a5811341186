-------------------------- MODULE LifecycleProofs --------------------------
(***************************************************************************)
(* Proofs about the components that take their records through states in   *)
(* order: Migrator (migrations run once and in order), Saga (steps are     *)
(* done and undone in order, and all of them or none) and Offline (an      *)
(* allowance that was accepted is not returned).  They hold for any number *)
(* of processes, images, versions and statements; of coordinators and      *)
(* steps; for any allowances, domains, epochs, keys and closures.          *)
(***************************************************************************)
EXTENDS Migrator, Saga, Offline, TLAPS

-----------------------------------------------------------------------------
(* Migrations.                                                             *)

MigratorSpec == InitMigrator /\ [][MigratorNext]_migratorVars

Stages == {"new", "check", "claim", "reclaim", "start", "execute", "fail", "complete", "finalize", "done", "refused"}

Contents == STRING \cup {"none"}

TryRow == [status : {"NONE", "ACTIVE", "FAILED", "APPLIED"}, owner : Runs \cup {"none"}, checksum : Contents]

ProcRow == [stage : Stages, version : Nat \ {0}, ordinal : Nat \ {0}]

MigratorTypeOK ==
  /\ applied \in [Versions -> Contents]
  /\ tries \in [Versions -> TryRow]
  /\ proc \in [Runs -> ProcRow]
  /\ DOMAIN steps = Versions /\ steps = [v \in Versions |-> steps[v]]
  /\ DOMAIN executed = Versions /\ executed = [v \in Versions |-> executed[v]]
  /\ \A v \in Versions :
       /\ steps[v] \in [1 .. Statements[v] -> {"NONE", "ACTIVE", "FAILED", "APPLIED"}]
       /\ executed[v] \in [1 .. Statements[v] -> Nat]

\* Receipts and attempts: a version is applied when its attempt is, and attempted only
\* when the versions before it are applied.
AttemptsInOrder ==
  \A v \in Versions :
    /\ tries[v].status = "NONE" => tries[v] = NoTry
    /\ applied[v] # "none" <=> tries[v].status = "APPLIED"
    /\ tries[v].status # "NONE" => \A u \in 1 .. v - 1 : applied[u] # "none"

\* Steps: a step is begun under an attempt and after the steps before it are applied, it
\* takes effect after it is begun and at most once, and an applied step has.
StepsOf(v) ==
  /\ \A k \in 1 .. Statements[v] :
       /\ executed[v][k] <= 1
       /\ steps[v][k] = "NONE" => executed[v][k] = 0
       /\ steps[v][k] = "APPLIED" => executed[v][k] = 1
       /\ steps[v][k] # "NONE" =>
            tries[v].status # "NONE" /\ \A j \in 1 .. k - 1 : steps[v][j] = "APPLIED"
  /\ applied[v] # "none" => \A k \in 1 .. Statements[v] : steps[v][k] = "APPLIED"

StepsInOrder == \A v \in Versions : StepsOf(v)

Working == Stages \ {"new", "refused"}

Stepping == {"start", "execute", "complete", "fail"}

\* What a run may rely on: its versions up to where it is are applied as in its image, the
\* steps up to where it is are applied, and between the begin and the end of a step
\* the attempt is its own, so that nobody else has sent the statement.
Sure(r) ==
  LET v == proc[r].version
      k == proc[r].ordinal
      s == proc[r].stage
  IN  /\ s = "new" => v = 1 /\ k = 1
      /\ s \in Working => v <= Len(Files[r]) /\ \A u \in 1 .. v - 1 : applied[u] = Files[r][u]
      /\ s \in {"check", "claim", "reclaim"} => k = 1
      /\ s = "check" => v = 1
      /\ s \in Stepping => k <= Statements[v] /\ \A j \in 1 .. k - 1 : steps[v][j] = "APPLIED"
      /\ s \in {"execute", "complete", "fail"} => steps[v][k] = "ACTIVE" /\ tries[v].owner = r /\ tries[v].status = "ACTIVE"
      /\ s = "execute" => executed[v][k] = 0
      /\ s = "complete" => executed[v][k] = 1
      /\ s = "done" => \A u \in 1 .. Len(Files[r]) : applied[u] = Files[r][u]

MigratorInv == MigratorTypeOK /\ AttemptsInOrder /\ StepsInOrder /\ \A r \in Runs : Sure(r)

-----------------------------------------------------------------------------
\* The files that a run selects are versions, and none is the sentinel.
LEMMA FilesOfImage ==
  ASSUME NEW r \in Runs
  PROVE  /\ Len(Files[r]) \in Nat /\ Len(Files[r]) <= Len(Statements)
         /\ \A v \in 1 .. Len(Files[r]) : v \in Versions /\ Files[r][v] \in STRING /\ Files[r][v] # "none"
         /\ Files[r] # <<>> => 1 <= Len(Files[r])
<1>1. Files[r] = migrationsThrough(r)
  BY DEF Files
<1>2. Image[r] \in Seq(STRING \ {"none"}) /\ Target[r] \in Nat /\ Len(Image[r]) <= Len(Statements) /\ Len(Statements) \in Nat
  BY ImageAssumption
<1>3. Files[r] \in Seq(STRING \ {"none"}) /\ Len(Files[r]) <= Len(Image[r])
  <2>1. CASE Files[r] = <<>>
    BY <1>2, <2>1
  <2>2. CASE Files[r] = Image[r]
    BY <1>2, <2>2
  <2>3. CASE Target[r] \in DOMAIN Image[r] /\ Files[r] = SubSeq(Image[r], 1, Target[r])
    <3>1. Target[r] \in 1 .. Len(Image[r])
      BY <1>2, <2>3
    <3> QED  BY <1>2, <2>3, <3>1
  <2> QED  BY <1>1, <2>1, <2>2, <2>3, Zenon DEF migrationsThrough
<1> QED  BY <1>2, <1>3 DEF Versions

\* Nothing is applied and nobody has begun.
LEMMA MigratorInitial == InitMigrator => MigratorInv
<1> SUFFICES ASSUME InitMigrator PROVE MigratorInv
  OBVIOUS
<1>1. Len(Statements) \in Nat /\ \A v \in Versions : Statements[v] \in Nat \ {0}
  BY ImageAssumption DEF Versions
<1>2. MigratorTypeOK
  <2>1. applied \in [Versions -> Contents] /\ tries \in [Versions -> TryRow]
    <3>1. "none" \in Contents
      BY DEF Contents
    <3>2. NoTry \in TryRow
      BY <3>1 DEF TryRow, NoTry
    <3> QED  BY <3>1, <3>2 DEF InitMigrator
  <2>2. proc \in [Runs -> ProcRow]
    BY DEF InitMigrator, ProcRow, Stages, Idle
  <2>3. /\ DOMAIN steps = Versions /\ steps = [v \in Versions |-> steps[v]]
        /\ \A v \in Versions : steps[v] \in [1 .. Statements[v] -> {"NONE", "ACTIVE", "FAILED", "APPLIED"}]
    BY DEF InitMigrator
  <2>4. /\ DOMAIN executed = Versions /\ executed = [v \in Versions |-> executed[v]]
        /\ \A v \in Versions : executed[v] \in [1 .. Statements[v] -> Nat]
    BY DEF InitMigrator
  <2> QED  BY <2>1, <2>2, <2>3, <2>4, Zenon DEF MigratorTypeOK
<1>3. AttemptsInOrder /\ StepsInOrder
  BY <1>1 DEF InitMigrator, AttemptsInOrder, StepsInOrder, StepsOf, NoTry
<1>4. \A r \in Runs : Sure(r)
  BY Zenon DEF InitMigrator, Sure, Idle, Working, Stepping
<1> QED  BY <1>2, <1>3, <1>4 DEF MigratorInv

\* The invariant contains the property.
LEMMA SureIsRunOnce == MigratorInv => RunOnce
<1> SUFFICES ASSUME MigratorInv PROVE RunOnce
  OBVIOUS
<1>1. ASSUME NEW v \in Versions, NEW k \in DOMAIN executed[v]
      PROVE  /\ executed[v][k] <= 1
             /\ executed[v][k] = 1 =>
                  (\A j \in 1 .. k - 1 : executed[v][j] = 1) /\ (\A u \in 1 .. v - 1 : applied[u] # "none")
             /\ applied[v] # "none" => executed[v][k] = 1
  <2>1. k \in 1 .. Statements[v] /\ Statements[v] \in Nat
    BY <1>1, ImageAssumption DEF MigratorInv, MigratorTypeOK, Versions
  <2>2. executed[v][k] = 1 => steps[v][k] # "NONE"
    BY <2>1 DEF MigratorInv, StepsInOrder, StepsOf
  <2>3. executed[v][k] = 1 => \A j \in 1 .. k - 1 : executed[v][j] = 1
    BY <2>1, <2>2 DEF MigratorInv, StepsInOrder, StepsOf
  <2>4. executed[v][k] = 1 => \A u \in 1 .. v - 1 : applied[u] # "none"
    BY <2>1, <2>2, Zenon DEF MigratorInv, StepsInOrder, StepsOf, AttemptsInOrder
  <2> QED  BY <2>1, <2>3, <2>4, Zenon DEF MigratorInv, StepsInOrder, StepsOf
<1>2. \A r \in Runs : proc[r].stage = "done" => \A v \in 1 .. Len(Files[r]) : applied[v] = Files[r][v]
  BY Zenon DEF MigratorInv, Sure
<1> QED  BY <1>1, <1>2, Zenon DEF RunOnce

-----------------------------------------------------------------------------
\* A run at work is at a version that exists.
LEMMA InRange ==
  ASSUME MigratorInv, NEW r \in Runs, proc[r].stage \in Working
  PROVE  /\ proc[r] \in ProcRow
         /\ proc[r].version \in Versions /\ proc[r].version \in 1 .. Len(Files[r])
         /\ Statements[proc[r].version] \in Nat \ {0}
         /\ Files[r][proc[r].version] \in STRING /\ Files[r][proc[r].version] # "none"
<1>1. proc[r] \in ProcRow
  BY DEF MigratorInv, MigratorTypeOK
<1>2. proc[r].version \in Nat \ {0} /\ proc[r].version <= Len(Files[r]) /\ Len(Files[r]) \in Nat
  BY <1>1, FilesOfImage, Zenon DEF MigratorInv, Sure, ProcRow
<1>3. proc[r].version \in 1 .. Len(Files[r])
  BY <1>2
<1>4. proc[r].version \in Versions
  BY <1>3, FilesOfImage
<1>5. Statements[proc[r].version] \in Nat \ {0}
  BY <1>4, ImageAssumption DEF Versions
<1> QED  BY <1>1, <1>3, <1>4, <1>5, FilesOfImage, Zenon

\* A step of one run keeps what the others rely on, when receipts and applied steps stay
\* and an attempt of somebody else is not touched.
LEMMA OthersSure ==
  ASSUME MigratorInv, NEW r \in Runs, NEW p, proc' = [proc EXCEPT ![r] = p],
         \A u \in Versions :
           /\ applied[u] # "none" => applied'[u] = applied[u]
           /\ \A k \in 1 .. Statements[u] : steps[u][k] = "APPLIED" => steps'[u][k] = "APPLIED"
           /\ tries[u].status = "ACTIVE" /\ tries[u].owner # r =>
                tries'[u] = tries[u] /\ steps'[u] = steps[u] /\ executed'[u] = executed[u]
  PROVE  proc'[r] = p /\ \A d \in Runs \ {r} : Sure(d)'
<1>1. proc'[r] = p /\ \A d \in Runs \ {r} : proc'[d] = proc[d]
  BY Zenon DEF MigratorInv, MigratorTypeOK
<1>2. ASSUME NEW d \in Runs \ {r}
      PROVE  Sure(d)'
  <2>1. Sure(d) /\ proc'[d] = proc[d]
    BY <1>1, Zenon DEF MigratorInv
  <2>2. CASE proc[d].stage \notin Working
    <3>1. proc[d].stage \in Stages
      BY Zenon DEF MigratorInv, MigratorTypeOK, ProcRow
    <3>2. proc[d].stage \in {"new", "refused"}
      BY <2>2, <3>1, Zenon DEF Working
    <3>3. /\ proc[d].stage \notin Stepping /\ proc[d].stage \notin {"check", "claim", "reclaim"}
          /\ proc[d].stage \notin {"execute", "complete", "fail"} /\ proc[d].stage # "done"
      BY <3>2, Zenon DEF Stepping
    <3> QED  BY <2>1, <2>2, <3>3, Zenon DEF Sure
  <2>3. CASE proc[d].stage \in Working
    <3> DEFINE v == proc[d].version
               k == proc[d].ordinal
    <3>1. v \in Versions /\ v \in 1 .. Len(Files[d]) /\ Statements[v] \in Nat \ {0} /\ k \in Nat \ {0} /\ Len(Files[d]) \in Nat
      BY <2>3, InRange, FilesOfImage, Zenon DEF ProcRow
    <3>2. \A u \in 1 .. Len(Files[d]) : u \in Versions /\ (applied[u] = Files[d][u] => applied'[u] = Files[d][u])
      BY FilesOfImage, Zenon
    <3>3. \A u \in 1 .. v - 1 : applied'[u] = Files[d][u]
      <4>1. \A u \in 1 .. v - 1 : u \in 1 .. Len(Files[d])
        BY <3>1
      <4> QED  BY <2>1, <2>3, <3>2, <4>1, Zenon DEF Sure
    <3>4. proc[d].stage = "done" => \A u \in 1 .. Len(Files[d]) : applied'[u] = Files[d][u]
      BY <2>1, <3>2, Zenon DEF Sure
    <3>5. proc[d].stage \in Stepping => k <= Statements[v] /\ \A j \in 1 .. k - 1 : steps'[v][j] = "APPLIED"
      <4>1. proc[d].stage \in Stepping => k <= Statements[v] /\ \A j \in 1 .. k - 1 : steps[v][j] = "APPLIED"
        BY <2>1, Zenon DEF Sure
      <4>2. k <= Statements[v] => \A j \in 1 .. k - 1 : j \in 1 .. Statements[v]
        BY <3>1
      <4> QED  BY <3>1, <4>1, <4>2, Zenon
    <3>6. proc[d].stage \in {"execute", "complete", "fail"} =>
            /\ tries'[v] = tries[v] /\ steps'[v] = steps[v] /\ executed'[v] = executed[v]
      BY <2>1, <3>1, Zenon DEF Sure
    <3>7. /\ proc[d].stage \in {"execute", "complete", "fail"} =>
               steps'[v][k] = "ACTIVE" /\ tries'[v].owner = d /\ tries'[v].status = "ACTIVE"
          /\ proc[d].stage = "execute" => executed'[v][k] = 0
          /\ proc[d].stage = "complete" => executed'[v][k] = 1
      BY <2>1, <3>6, Zenon DEF Sure
    <3>8. /\ proc[d].stage = "new" => v = 1 /\ k = 1
          /\ proc[d].stage \in {"check", "claim", "reclaim"} => k = 1
          /\ proc[d].stage = "check" => v = 1
          /\ proc[d].stage \in Working => v <= Len(Files[d])
      BY <2>1, Zenon DEF Sure
    <3>9. proc'[d].stage = proc[d].stage /\ proc'[d].version = v /\ proc'[d].ordinal = k
      BY <2>1, Zenon
    <3> HIDE DEF v, k
    <3> QED  BY <3>3, <3>4, <3>5, <3>7, <3>8, <3>9, ZenonT(40) DEF Sure
  <2> QED  BY <2>2, <2>3, Zenon
<1> QED  BY <1>1, <1>2, Zenon

\* A step of a run that changes nothing but where the run is.
LEMMA MovingKeeps ==
  ASSUME MigratorInv, NEW r \in Runs, NEW p \in ProcRow, proc' = [proc EXCEPT ![r] = p],
         UNCHANGED <<applied, tries, steps, executed>>,
         Sure(r)'
  PROVE  MigratorInv'
<1>1. MigratorTypeOK'
  BY Zenon DEF MigratorInv, MigratorTypeOK
<1>2. AttemptsInOrder' /\ StepsInOrder'
  BY DEF MigratorInv, AttemptsInOrder, StepsInOrder, StepsOf
<1>3. \A d \in Runs \ {r} : Sure(d)'
  BY OthersSure, Zenon
<1> QED  BY <1>1, <1>2, <1>3 DEF MigratorInv

\* A run that stops relies on nothing.
LEMMA StoppingKeeps ==
  ASSUME MigratorInv, NEW r \in Runs, Go(r, "refused"), UNCHANGED <<applied, tries, steps, executed>>
  PROVE  MigratorInv'
<1> DEFINE p == [proc[r] EXCEPT !.stage = "refused"]
<1>1. proc' = [proc EXCEPT ![r] = p] /\ proc[r] \in ProcRow
  BY DEF Go, MigratorInv, MigratorTypeOK
<1>2. p \in ProcRow /\ p.stage = "refused"
  BY <1>1 DEF ProcRow, Stages
<1>3. proc'[r].stage = "refused"
  BY <1>1, <1>2, Zenon DEF MigratorInv, MigratorTypeOK
<1>4. Sure(r)'
  BY <1>3, Zenon DEF Sure, Working, Stepping
<1> HIDE DEF p
<1> QED  BY <1>1, <1>2, <1>4, MovingKeeps, Zenon

\* A run goes on to the next version, or is done, when it knows its version to be applied.
LEMMA FollowingSure ==
  ASSUME NEW r \in Runs, proc[r] \in ProcRow, proc[r].version \in 1 .. Len(Files[r]),
         \A u \in 1 .. proc[r].version : applied'[u] = Files[r][u],
         proc'[r] = Following(r)
  PROVE  Following(r) \in ProcRow /\ Sure(r)'
<1>1. Len(Files[r]) \in Nat
  BY FilesOfImage
<1>2. CASE proc[r].version < Len(Files[r])
  <2>1. Following(r) = [stage |-> "claim", version |-> proc[r].version + 1, ordinal |-> 1]
    BY <1>2 DEF Following
  <2>2. Following(r) \in ProcRow
    BY <1>1, <2>1 DEF ProcRow, Stages
  <2>3. proc'[r].stage = "claim" /\ proc'[r].version = proc[r].version + 1 /\ proc'[r].ordinal = 1
    BY <2>1
  <2>4. proc'[r].version <= Len(Files[r]) /\ \A u \in 1 .. proc'[r].version - 1 : applied'[u] = Files[r][u]
    BY <1>1, <1>2, <2>3
  <2> QED  BY <2>2, <2>3, <2>4, Zenon DEF Sure, Stepping
<1>3. CASE ~(proc[r].version < Len(Files[r]))
  <2>1. Following(r) = [proc[r] EXCEPT !.stage = "done"]
    BY <1>3 DEF Following
  <2>2. Following(r) \in ProcRow
    BY <2>1, Zenon DEF ProcRow, Stages
  <2>3. proc'[r].stage = "done" /\ proc'[r].version = Len(Files[r])
    BY <1>1, <1>3, <2>1 DEF ProcRow
  <2> QED  BY <1>1, <1>3, <2>2, <2>3 DEF Sure, Stepping
<1> QED  BY <1>2, <1>3

\* Where a run is after it goes to another stage of the same version and step.
LEMMA Going ==
  ASSUME MigratorInv, NEW r \in Runs, NEW stage \in Stages, Go(r, stage)
  PROVE  \E p \in ProcRow :
           /\ proc' = [proc EXCEPT ![r] = p] /\ proc'[r] = p
           /\ p.stage = stage /\ p.version = proc[r].version /\ p.ordinal = proc[r].ordinal
<1> DEFINE p == [proc[r] EXCEPT !.stage = stage]
<1>1. proc[r] \in ProcRow
  BY DEF MigratorInv, MigratorTypeOK
<1>2. p \in ProcRow /\ p.stage = stage /\ p.version = proc[r].version /\ p.ordinal = proc[r].ordinal
  BY <1>1 DEF ProcRow
<1>3. proc' = [proc EXCEPT ![r] = p]
  BY DEF Go
<1> HIDE DEF p
<1>4. proc'[r] = p
  BY <1>3, Zenon DEF MigratorInv, MigratorTypeOK
<1> QED  BY <1>2, <1>3, <1>4, Zenon

\* A run reads the catalogue and stops, or goes to its first version.
LEMMA BeginKeeps ==
  ASSUME MigratorInv, NEW r \in Runs, Begin(r) \/ RepeatClaim(r)
  PROVE  MigratorInv'
<1>1. UNCHANGED <<applied, tries, steps, executed>>
  BY DEF Begin, RepeatClaim
<1>2. Sure(r) /\ Len(Files[r]) \in Nat
  BY FilesOfImage DEF MigratorInv
<1>3. CASE Go(r, "refused")
  BY <1>1, <1>3, StoppingKeeps
<1>4. CASE proc[r].stage = "new" /\ Files[r] # <<>> /\ Go(r, "check")
  <2>1. PICK p \in ProcRow :
          /\ proc' = [proc EXCEPT ![r] = p] /\ proc'[r] = p
          /\ p.stage = "check" /\ p.version = proc[r].version /\ p.ordinal = proc[r].ordinal
    BY <1>4, Going DEF Stages
  <2>2. p.version = 1 /\ p.ordinal = 1 /\ 1 <= Len(Files[r])
    BY <1>2, <1>4, <2>1, FilesOfImage, Zenon DEF Sure
  <2>3. Sure(r)'
    BY <2>1, <2>2 DEF Sure, Stepping
  <2> QED  BY <1>1, <2>1, <2>3, MovingKeeps, Zenon
<1>5. ASSUME NEW stage \in {"claim", "reclaim"}, proc[r].stage \in {"check", "claim"}, Go(r, stage)
      PROVE  MigratorInv'
  <2>1. PICK p \in ProcRow :
          /\ proc' = [proc EXCEPT ![r] = p] /\ proc'[r] = p
          /\ p.stage = stage /\ p.version = proc[r].version /\ p.ordinal = proc[r].ordinal
    BY <1>5, Going DEF Stages
  <2>2. Sure(r)'
    <3>1. proc[r].stage \in Working /\ proc[r].stage \in {"check", "claim", "reclaim"}
      BY <1>5, Zenon DEF Working, Stages
    <3>2. /\ p.ordinal = 1 /\ p.version <= Len(Files[r])
          /\ \A u \in 1 .. p.version - 1 : applied'[u] = Files[r][u]
      BY <1>1, <1>2, <2>1, <3>1, Zenon DEF Sure
    <3>3. /\ p.stage \notin Stepping /\ p.stage \notin {"execute", "complete", "fail"}
          /\ p.stage \notin {"new", "check", "done"}
      BY <1>5, <2>1, Zenon DEF Stepping
    <3> QED  BY <2>1, <3>2, <3>3, Zenon DEF Sure
  <2> QED  BY <1>1, <2>1, <2>2, MovingKeeps, Zenon
<1> QED  BY <1>3, <1>4, <1>5, Zenon DEF Begin, RepeatClaim

\* A run claims its version, finds it applied, or is refused.
LEMMA ClaimKeeps ==
  ASSUME MigratorInv, NEW r \in Runs, Claim(r)
  PROVE  MigratorInv'
<1>1. proc[r].stage \in {"claim", "reclaim"} /\ proc[r].stage \in Working
  BY Zenon DEF Claim, Working, Stages
<1>2. PICK v \in Versions :
        /\ v = proc[r].version /\ v \in 1 .. Len(Files[r]) /\ Statements[v] \in Nat \ {0} /\ proc[r] \in ProcRow
        /\ Files[r][v] \in STRING /\ Files[r][v] # "none"
  BY <1>1, InRange, Zenon
<1>3. Sure(r) /\ proc[r].ordinal = 1 /\ \A u \in 1 .. v - 1 : applied[u] = Files[r][u]
  BY <1>1, <1>2, Zenon DEF MigratorInv, Sure
<1>4. UNCHANGED <<applied, steps, executed>>
  BY Zenon DEF Claim
<1>5. CASE /\ applied[v] = "none" /\ tries[v] = NoTry /\ Go(r, "start")
           /\ tries' = [tries EXCEPT ![v] = [status |-> "ACTIVE", owner |-> r, checksum |-> Files[r][v]]]
  <2>1. PICK p \in ProcRow :
          /\ proc' = [proc EXCEPT ![r] = p] /\ proc'[r] = p
          /\ p.stage = "start" /\ p.version = v /\ p.ordinal = 1
    <3>1. Go(r, "start") /\ "start" \in Stages
      BY <1>5, Zenon DEF Stages
    <3>2. proc[r].version = v /\ proc[r].ordinal = 1
      BY <1>2, <1>3, Zenon
    <3>3. \E p \in ProcRow :
            /\ proc' = [proc EXCEPT ![r] = p] /\ proc'[r] = p
            /\ p.stage = "start" /\ p.version = proc[r].version /\ p.ordinal = proc[r].ordinal
      BY <3>1, Going, Zenon
    <3> QED  BY <3>2, <3>3, Zenon
  <2>2. /\ tries'[v].status = "ACTIVE" /\ \A u \in Versions \ {v} : tries'[u] = tries[u]
        /\ tries' \in [Versions -> TryRow]
    BY <1>2, <1>5, Zenon DEF MigratorInv, MigratorTypeOK, TryRow, Contents
  <2>3. tries[v].status = "NONE"
    BY <1>5 DEF NoTry
  <2>4. MigratorTypeOK'
    BY <1>4, <2>1, <2>2, Zenon DEF MigratorInv, MigratorTypeOK
  <2>5. \A u \in 1 .. v - 1 : applied[u] # "none"
    BY <1>2, <1>3, FilesOfImage, SMTT(30)
  <2>6. AttemptsInOrder'
    BY <1>4, <1>5, <2>2, <2>5 DEF MigratorInv, AttemptsInOrder
  <2>7. StepsInOrder'
    BY <1>4, <2>2 DEF MigratorInv, StepsInOrder, StepsOf
  <2>8. \A d \in Runs \ {r} : Sure(d)'
    BY <1>4, <2>1, <2>2, <2>3, OthersSure, ZenonT(30)
  <2>9. Sure(r)'
    <3>1. \A j \in 1 .. 1 - 1 : steps'[v][j] = "APPLIED"
      OBVIOUS
    <3>2. 1 <= Statements[v] /\ v <= Len(Files[r])
      BY <1>2
    <3>3. \A u \in 1 .. v - 1 : applied'[u] = Files[r][u]
      BY <1>3, <1>4, Zenon
    <3> QED  BY <2>1, <3>1, <3>2, <3>3, Zenon DEF Sure
  <2> QED  BY <2>4, <2>6, <2>7, <2>8, <2>9, Zenon DEF MigratorInv
<1>6. CASE UNCHANGED tries
  <2>1. CASE Go(r, "refused")
    BY <1>4, <1>6, <2>1, StoppingKeeps
  <2>2. CASE applied[v] = Files[r][v] /\ proc' = [proc EXCEPT ![r] = Following(r)]
    <3>1. proc'[r] = Following(r)
      BY <2>2, Zenon DEF MigratorInv, MigratorTypeOK
    <3>2. \A u \in 1 .. v : applied'[u] = Files[r][u]
      BY <1>2, <1>3, <1>4, <2>2
    <3> QED  BY <1>2, <1>4, <1>6, <2>2, <3>1, <3>2, FollowingSure, MovingKeeps, Zenon
  <2>3. CASE Go(r, "start")
    <3>1. PICK p \in ProcRow :
            /\ proc' = [proc EXCEPT ![r] = p] /\ proc'[r] = p
            /\ p.stage = "start" /\ p.version = v /\ p.ordinal = 1
      BY <1>2, <1>3, <2>3, Going DEF Stages
    <3>2. Sure(r)'
      <4>1. \A j \in 1 .. 1 - 1 : steps'[v][j] = "APPLIED"
        OBVIOUS
      <4>2. 1 <= Statements[v] /\ v <= Len(Files[r])
        BY <1>2
      <4>3. \A u \in 1 .. v - 1 : applied'[u] = Files[r][u]
        BY <1>3, <1>4, Zenon
      <4> QED  BY <3>1, <4>1, <4>2, <4>3, Zenon DEF Sure
    <3> QED  BY <1>4, <1>6, <3>1, <3>2, MovingKeeps, Zenon
  <2>4. \/ Go(r, "refused")
        \/ applied[v] = Files[r][v] /\ proc' = [proc EXCEPT ![r] = Following(r)]
        \/ Go(r, "start")
    BY <1>2, <1>6, Zenon DEF Claim, Go
  <2> QED  BY <2>1, <2>2, <2>3, <2>4, Zenon
<1> QED  BY <1>2, <1>5, <1>6, Zenon DEF Claim

StepStatuses == {"NONE", "ACTIVE", "FAILED", "APPLIED"}

WithStep(v, k, x) == [steps EXCEPT ![v][k] = x]

WithCount(v, k, x) == [executed EXCEPT ![v][k] = x]

\* One step of one version is set.
LEMMA StepSet ==
  ASSUME MigratorInv, NEW v \in Versions, NEW k \in 1 .. Statements[v], NEW x \in StepStatuses,
         steps' = WithStep(v, k, x)
  PROVE  /\ DOMAIN steps' = Versions /\ steps' = [u \in Versions |-> steps'[u]]
         /\ \A u \in Versions : steps'[u] \in [1 .. Statements[u] -> StepStatuses]
         /\ steps'[v][k] = x
         /\ \A u \in Versions \ {v} : steps'[u] = steps[u]
         /\ \A j \in 1 .. Statements[v] : j # k => steps'[v][j] = steps[v][j]
<1>1. /\ DOMAIN steps = Versions /\ steps = [u \in Versions |-> steps[u]]
      /\ \A u \in Versions : steps[u] \in [1 .. Statements[u] -> StepStatuses]
  BY Zenon DEF MigratorInv, MigratorTypeOK, StepStatuses
<1>2. steps' = [u \in Versions |-> IF u = v THEN [steps[v] EXCEPT ![k] = x] ELSE steps[u]]
  BY <1>1, Zenon DEF WithStep
<1>3. PICK row \in [1 .. Statements[v] -> StepStatuses] : row = steps[v]
  BY <1>1
<1>4. steps'[v] = [row EXCEPT ![k] = x] /\ \A u \in Versions \ {v} : steps'[u] = steps[u]
  BY <1>2, <1>3, Zenon
<1>5. /\ steps'[v] \in [1 .. Statements[v] -> StepStatuses] /\ steps'[v][k] = x
      /\ \A j \in 1 .. Statements[v] : j # k => steps'[v][j] = row[j]
  BY <1>4
<1>6. DOMAIN steps' = Versions /\ steps' = [u \in Versions |-> steps'[u]]
  BY <1>2
<1> QED  BY <1>1, <1>3, <1>4, <1>5, <1>6, Zenon

\* The count of one statement is set.
LEMMA ExecutedSet ==
  ASSUME MigratorInv, NEW v \in Versions, NEW k \in 1 .. Statements[v], NEW x \in Nat,
         executed' = WithCount(v, k, x)
  PROVE  /\ DOMAIN executed' = Versions /\ executed' = [u \in Versions |-> executed'[u]]
         /\ \A u \in Versions : executed'[u] \in [1 .. Statements[u] -> Nat]
         /\ executed'[v][k] = x
         /\ \A u \in Versions \ {v} : executed'[u] = executed[u]
         /\ \A j \in 1 .. Statements[v] : j # k => executed'[v][j] = executed[v][j]
<1>1. /\ DOMAIN executed = Versions /\ executed = [u \in Versions |-> executed[u]]
      /\ \A u \in Versions : executed[u] \in [1 .. Statements[u] -> Nat]
  BY Zenon DEF MigratorInv, MigratorTypeOK, StepStatuses
<1>2. executed' = [u \in Versions |-> IF u = v THEN [executed[v] EXCEPT ![k] = x] ELSE executed[u]]
  BY <1>1, Zenon DEF WithCount
<1>3. PICK row \in [1 .. Statements[v] -> Nat] : row = executed[v]
  BY <1>1
<1>4. executed'[v] = [row EXCEPT ![k] = x] /\ \A u \in Versions \ {v} : executed'[u] = executed[u]
  BY <1>2, <1>3, Zenon
<1>5. /\ executed'[v] \in [1 .. Statements[v] -> Nat] /\ executed'[v][k] = x
      /\ \A j \in 1 .. Statements[v] : j # k => executed'[v][j] = row[j]
  BY <1>4
<1>6. DOMAIN executed' = Versions /\ executed' = [u \in Versions |-> executed'[u]]
  BY <1>2, Zenon
<1> QED  BY <1>1, <1>3, <1>4, <1>5, <1>6, Zenon

\* What a run that has begun a step may rely on, collected.
LEMMA BegunIsSure ==
  ASSUME NEW r, NEW v, NEW k, proc'[r].version = v, proc'[r].ordinal = k,
         proc'[r].stage \in {"execute", "complete", "fail"},
         v <= Len(Files[r]), \A u \in 1 .. v - 1 : applied'[u] = Files[r][u],
         k <= Statements[v], \A j \in 1 .. k - 1 : steps'[v][j] = "APPLIED",
         steps'[v][k] = "ACTIVE", tries'[v].owner = r, tries'[v].status = "ACTIVE",
         proc'[r].stage = "execute" => executed'[v][k] = 0,
         proc'[r].stage = "complete" => executed'[v][k] = 1
  PROVE  Sure(r)'
<1>1. proc'[r].stage \notin {"new", "check", "claim", "reclaim", "done"}
  BY Zenon
<1> QED  BY <1>1, Zenon DEF Sure

\* The record of a step comes before its statement.
LEMMA StartStepKeeps ==
  ASSUME MigratorInv, NEW r \in Runs, StartStep(r)
  PROVE  MigratorInv'
<1>1. proc[r].stage = "start" /\ proc[r].stage \in Working
  BY Zenon DEF StartStep, Working, Stages
<1>2. PICK v \in Versions :
        /\ v = proc[r].version /\ v \in 1 .. Len(Files[r]) /\ Statements[v] \in Nat \ {0} /\ proc[r] \in ProcRow
  BY <1>1, InRange, Zenon
<1>3. PICK k \in 1 .. Statements[v] : k = proc[r].ordinal /\ \A j \in 1 .. k - 1 : steps[v][j] = "APPLIED"
  <2>1. Sure(r) /\ proc[r].stage \in Stepping
    BY <1>1, Zenon DEF MigratorInv, Stepping
  <2>2. /\ proc[r].ordinal <= Statements[v]
        /\ \A j \in 1 .. proc[r].ordinal - 1 : steps[v][j] = "APPLIED"
    BY <1>2, <2>1, Zenon DEF Sure
  <2>3. proc[r].ordinal \in Nat \ {0}
    BY <1>2, SMT DEF ProcRow
  <2> QED  BY <1>2, <2>2, <2>3, SMT, Zenon
<1>4. UNCHANGED <<applied, tries, executed>> /\ Sure(r)
  BY Zenon DEF StartStep, MigratorInv
<1>5. CASE Go(r, "refused") /\ UNCHANGED steps
  BY <1>4, <1>5, StoppingKeeps, Zenon
<1>6. CASE /\ Owned(r, v) /\ steps[v][k] = "NONE"
           /\ steps' = [steps EXCEPT ![v][k] = "ACTIVE"] /\ Go(r, "execute")
  <2>1. PICK p \in ProcRow :
          /\ proc' = [proc EXCEPT ![r] = p] /\ proc'[r] = p
          /\ p.stage = "execute" /\ p.version = v /\ p.ordinal = k
    <3>1. Go(r, "execute") /\ "execute" \in Stages
      BY <1>6, Zenon DEF Stages
    <3>2. proc[r].version = v /\ proc[r].ordinal = k
      BY <1>2, <1>3, Zenon
    <3>3. \E p \in ProcRow :
            /\ proc' = [proc EXCEPT ![r] = p] /\ proc'[r] = p
            /\ p.stage = "execute" /\ p.version = proc[r].version /\ p.ordinal = proc[r].ordinal
      BY <3>1, Going, Zenon
    <3> QED  BY <3>2, <3>3, Zenon
  <2>2. /\ DOMAIN steps' = Versions /\ steps' = [u \in Versions |-> steps'[u]]
        /\ \A u \in Versions : steps'[u] \in [1 .. Statements[u] -> StepStatuses]
        /\ steps'[v][k] = "ACTIVE"
        /\ \A u \in Versions \ {v} : steps'[u] = steps[u]
        /\ \A j \in 1 .. Statements[v] : j # k => steps'[v][j] = steps[v][j]
    <3>1. steps' = WithStep(v, k, "ACTIVE") /\ "ACTIVE" \in StepStatuses
      BY <1>6 DEF WithStep, StepStatuses
    <3> QED  BY <3>1, StepSet, Zenon
  <2>3. MigratorTypeOK'
    BY <1>4, <2>1, <2>2, Zenon DEF MigratorInv, MigratorTypeOK, StepStatuses
  <2>4. AttemptsInOrder'
    BY <1>4, Zenon DEF MigratorInv, AttemptsInOrder
  <2>5. tries[v].status = "ACTIVE" /\ tries[v].owner = r
    BY <1>6 DEF Owned
  <2>6. applied[v] = "none" /\ executed[v][k] = 0
    BY <1>6, <2>5, Zenon DEF MigratorInv, AttemptsInOrder, StepsInOrder, StepsOf
  <2>7. ASSUME NEW j \in 1 .. Statements[v], steps'[v][j] # "NONE"
        PROVE  \A i \in 1 .. j - 1 : steps'[v][i] = "APPLIED"
    <3>1. \A i \in 1 .. j - 1 : steps[v][i] = "APPLIED"
      BY <1>3, <2>2, <2>7 DEF MigratorInv, StepsInOrder, StepsOf
    <3>2. \A i \in 1 .. j - 1 : i \in 1 .. Statements[v]
      BY <1>2
    <3> QED  BY <1>6, <2>2, <3>1, <3>2
  <2>8. StepsInOrder'
    <3>1. ASSUME NEW u \in Versions \ {v}
          PROVE  StepsOf(u)'
      BY <1>4, <2>2 DEF MigratorInv, StepsInOrder, StepsOf
    <3>2. StepsOf(v)'
      BY <1>3, <1>4, <2>2, <2>5, <2>6, <2>7 DEF MigratorInv, StepsInOrder, StepsOf
    <3> QED  BY <3>1, <3>2 DEF StepsInOrder, StepsOf
  <2>9. \A d \in Runs \ {r} : Sure(d)'
    <3>1. \A u \in Versions : \A j \in 1 .. Statements[u] : steps[u][j] = "APPLIED" => steps'[u][j] = "APPLIED"
      BY <1>6, <2>2
    <3>2. \A u \in Versions : tries[u].status = "ACTIVE" /\ tries[u].owner # r =>
            tries'[u] = tries[u] /\ steps'[u] = steps[u] /\ executed'[u] = executed[u]
      BY <1>4, <2>2, <2>5, Zenon
    <3> QED  BY <1>4, <2>1, <3>1, <3>2, OthersSure, ZenonT(60)
  <2>10. Sure(r)'
    <3>1. \A j \in 1 .. k - 1 : steps'[v][j] = "APPLIED"
      <4>1. \A j \in 1 .. k - 1 : j \in 1 .. Statements[v] /\ j # k
        BY <1>2
      <4> QED  BY <1>3, <2>2, <4>1, Zenon
    <3>2. v <= Len(Files[r])
      BY <1>1, <1>2, <1>4, Zenon DEF Sure
    <3>3. \A u \in 1 .. v - 1 : applied'[u] = Files[r][u]
      BY <1>1, <1>2, <1>4, Zenon DEF Sure
    <3>4. k <= Statements[v]
      BY <1>2
    <3>5. steps'[v][k] = "ACTIVE" /\ tries'[v].owner = r /\ tries'[v].status = "ACTIVE" /\ executed'[v][k] = 0
      BY <1>4, <2>2, <2>5, <2>6, Zenon
    <3>6. proc'[r].stage = "execute" /\ proc'[r].version = v /\ proc'[r].ordinal = k
      BY <2>1, Zenon
    <3>7. /\ proc'[r].stage = "execute" => executed'[v][k] = 0
          /\ proc'[r].stage = "complete" => executed'[v][k] = 1
          /\ proc'[r].stage \in {"execute", "complete", "fail"}
      BY <3>5, <3>6, Zenon
    <3> QED  BY <3>1, <3>2, <3>3, <3>4, <3>5, <3>6, <3>7, BegunIsSure, Zenon
  <2> QED  BY <2>3, <2>4, <2>8, <2>9, <2>10, Zenon DEF MigratorInv
<1> QED  BY <1>2, <1>3, <1>5, <1>6, Zenon DEF StartStep

\* A run between the begin and the end of a step: the attempt is its own, and no later
\* step was begun.
AtStep(r, v, k) ==
  /\ v = proc[r].version /\ v \in 1 .. Len(Files[r]) /\ Statements[v] \in Nat \ {0} /\ k = proc[r].ordinal
  /\ steps[v][k] = "ACTIVE" /\ tries[v].status = "ACTIVE" /\ tries[v].owner = r /\ applied[v] = "none"
  /\ \A j \in 1 .. k - 1 : steps[v][j] = "APPLIED"
  /\ \A j \in 1 .. Statements[v] : j > k => steps[v][j] = "NONE"
  /\ \A u \in 1 .. v - 1 : applied[u] = Files[r][u]
  /\ Sure(r) /\ StepsOf(v)

\* A run that has begun a step is at a step that exists, under its own attempt.
LEMMA RunAtStep ==
  ASSUME MigratorInv, NEW r \in Runs, proc[r].stage \in {"execute", "complete", "fail"}
  PROVE  \E v \in Versions : \E k \in 1 .. Statements[v] : AtStep(r, v, k)
<1>1. proc[r].stage \in Working /\ proc[r].stage \in Stepping
  BY DEF Working, Stages, Stepping
<1>2. PICK v \in Versions :
        /\ v = proc[r].version /\ v \in 1 .. Len(Files[r]) /\ Statements[v] \in Nat \ {0} /\ proc[r] \in ProcRow
  BY <1>1, InRange, Zenon
<1>3. Sure(r) /\ StepsOf(v)
  BY DEF MigratorInv, StepsInOrder
<1>4. PICK k \in 1 .. Statements[v] :
        /\ k = proc[r].ordinal /\ \A j \in 1 .. k - 1 : steps[v][j] = "APPLIED"
        /\ steps[v][k] = "ACTIVE" /\ tries[v].status = "ACTIVE" /\ tries[v].owner = r
  <2>1. /\ proc[r].ordinal <= Statements[v]
        /\ \A j \in 1 .. proc[r].ordinal - 1 : steps[v][j] = "APPLIED"
        /\ steps[v][proc[r].ordinal] = "ACTIVE" /\ tries[v].status = "ACTIVE" /\ tries[v].owner = r
    BY <1>1, <1>2, <1>3, Zenon DEF Sure
  <2>2. proc[r].ordinal \in Nat \ {0}
    BY <1>2, SMT DEF ProcRow
  <2>3. proc[r].ordinal \in 1 .. Statements[v]
    BY <1>2, <2>1, <2>2
  <2> QED  BY <2>1, <2>3, Zenon
<1>5. applied[v] = "none"
  BY <1>4, Zenon DEF MigratorInv, AttemptsInOrder
<1>6. \A j \in 1 .. Statements[v] : j > k => steps[v][j] = "NONE"
  <2> SUFFICES ASSUME NEW j \in 1 .. Statements[v], j > k, steps[v][j] # "NONE"
               PROVE  FALSE
    OBVIOUS
  <2>1. k \in 1 .. j - 1
    BY <1>2
  <2>2. steps[v][k] = "APPLIED"
    BY <1>3, <2>1, Zenon DEF StepsOf
  <2> QED  BY <1>4, <2>2, Zenon
<1>7. \A u \in 1 .. v - 1 : applied[u] = Files[r][u]
  BY <1>1, <1>2, <1>3, Zenon DEF Sure
<1> QED  BY <1>2, <1>3, <1>4, <1>5, <1>6, <1>7, Zenon DEF AtStep

\* The statement takes effect or not, and its answer may be lost.
LEMMA ExecuteKeeps ==
  ASSUME MigratorInv, NEW r \in Runs, Execute(r)
  PROVE  MigratorInv'
<1>1. proc[r].stage = "execute"
  BY Zenon DEF Execute
<1>2. PICK v \in Versions : \E k \in 1 .. Statements[v] : AtStep(r, v, k)
  BY <1>1, RunAtStep
<1>3. PICK k \in 1 .. Statements[v] : AtStep(r, v, k)
  BY <1>2, Zenon
<1>4. executed[v][k] = 0
  BY <1>1, <1>3, Zenon DEF AtStep, Sure
<1>5. UNCHANGED <<applied, tries, steps>>
  BY Zenon DEF Execute
<1>6. PICK stage \in {"complete", "fail"}, x \in {0, 1} :
        Go(r, stage) /\ executed' = [executed EXCEPT ![v][k] = x] /\ (stage = "complete" => x = 1)
  <2>1. v = proc[r].version /\ k = proc[r].ordinal
    BY <1>3, Zenon DEF AtStep
  <2>2. [executed EXCEPT ![v][k] = @ + 1] = [executed EXCEPT ![v][k] = 1]
    BY <1>4
  <2>3. executed = [executed EXCEPT ![v][k] = 0]
    <3>1. PICK row \in [1 .. Statements[v] -> Nat] : row = executed[v]
      BY Zenon DEF MigratorInv, MigratorTypeOK
    <3>2. [row EXCEPT ![k] = 0] = row
      BY <1>4, <3>1, Zenon
    <3>3. [executed EXCEPT ![v] = row] = executed
      BY <3>1, Zenon DEF MigratorInv, MigratorTypeOK
    <3> QED  BY <3>1, <3>2, <3>3, Zenon
  <2> QED  BY <2>1, <2>2, <2>3, Zenon DEF Execute, AfterError
<1>7. PICK p \in ProcRow :
        /\ proc' = [proc EXCEPT ![r] = p] /\ proc'[r] = p
        /\ p.stage = stage /\ p.version = v /\ p.ordinal = k
  <2>1. v = proc[r].version /\ k = proc[r].ordinal /\ stage \in Stages
    BY <1>3, <1>6, Zenon DEF AtStep, Stages
  <2> QED  BY <1>6, <2>1, Going
<1>8. /\ DOMAIN executed' = Versions /\ executed' = [u \in Versions |-> executed'[u]]
      /\ \A u \in Versions : executed'[u] \in [1 .. Statements[u] -> Nat]
      /\ executed'[v][k] = x
      /\ \A u \in Versions \ {v} : executed'[u] = executed[u]
      /\ \A j \in 1 .. Statements[v] : j # k => executed'[v][j] = executed[v][j]
  <2>1. x \in Nat /\ executed' = WithCount(v, k, x)
    BY <1>6 DEF WithCount
  <2> QED  BY <2>1, ExecutedSet
<1>9. MigratorTypeOK'
  BY <1>5, <1>7, <1>8, Zenon DEF MigratorInv, MigratorTypeOK
<1>10. AttemptsInOrder'
  BY <1>5, Zenon DEF MigratorInv, AttemptsInOrder
<1>11. StepsInOrder'
  <2>1. StepsOf(v)'
    <3>1. steps[v][k] = "ACTIVE" /\ StepsOf(v)
      BY <1>3, Zenon DEF AtStep
    <3>2. ASSUME NEW j \in 1 .. Statements[v], j # k
          PROVE  executed'[v][j] = executed[v][j] /\ steps'[v][j] = steps[v][j]
      BY <1>5, <1>8, <3>2, Zenon
    <3>3. executed'[v][k] \in {0, 1}
      BY <1>8, Zenon
    <3> QED  BY <1>5, <3>1, <3>2, <3>3, SMTT(30) DEF StepsOf
  <2>2. ASSUME NEW u \in Versions \ {v}
        PROVE  StepsOf(u)'
    BY <1>5, <1>8 DEF MigratorInv, StepsInOrder, StepsOf
  <2> QED  BY <2>1, <2>2 DEF StepsInOrder
<1>12. \A d \in Runs \ {r} : Sure(d)'
  <2>1. \A u \in Versions : tries[u].status = "ACTIVE" /\ tries[u].owner # r =>
          tries'[u] = tries[u] /\ steps'[u] = steps[u] /\ executed'[u] = executed[u]
    BY <1>3, <1>5, <1>8, Zenon DEF AtStep
  <2> QED  BY <1>5, <1>7, <2>1, OthersSure, ZenonT(30)
<1>13. Sure(r)'
  <2>1. /\ v <= Len(Files[r]) /\ \A u \in 1 .. v - 1 : applied'[u] = Files[r][u]
        /\ k <= Statements[v] /\ \A j \in 1 .. k - 1 : steps'[v][j] = "APPLIED"
        /\ steps'[v][k] = "ACTIVE" /\ tries'[v].owner = r /\ tries'[v].status = "ACTIVE"
    <3>1. /\ v <= Len(Files[r]) /\ \A u \in 1 .. v - 1 : applied[u] = Files[r][u]
          /\ \A j \in 1 .. k - 1 : steps[v][j] = "APPLIED"
          /\ steps[v][k] = "ACTIVE" /\ tries[v].owner = r /\ tries[v].status = "ACTIVE"
      <4>1. v \in 1 .. Len(Files[r])
        BY <1>3, Zenon DEF AtStep
      <4>2. v <= Len(Files[r])
        BY <4>1
      <4> QED  BY <1>3, <4>2, Zenon DEF AtStep
    <3>2. k <= Statements[v]
      <4>1. Statements[v] \in Nat
        BY <1>3, Zenon DEF AtStep
      <4> QED  BY <4>1
    <3> QED  BY <1>5, <3>1, <3>2, Zenon
  <2>2. /\ proc'[r].stage = "execute" => executed'[v][k] = 0
        /\ proc'[r].stage = "complete" => executed'[v][k] = 1
        /\ proc'[r].stage \in {"execute", "complete", "fail"}
    BY <1>6, <1>7, <1>8, Zenon
  <2>3. proc'[r].version = v /\ proc'[r].ordinal = k
    BY <1>7, Zenon
  <2> QED  BY <2>1, <2>2, <2>3, BegunIsSure, Zenon
<1> QED  BY <1>9, <1>10, <1>11, <1>12, <1>13, Zenon DEF MigratorInv

\* The end of a step, applied or failed: the step and the attempt are the run's own.
LEMMA StepEndKeeps ==
  ASSUME MigratorInv, NEW r \in Runs, NEW v \in Versions, NEW k \in 1 .. Statements[v], AtStep(r, v, k),
         NEW x \in {"FAILED", "APPLIED"}, steps' = WithStep(v, k, x), x = "APPLIED" => executed[v][k] = 1,
         tries' \in [Versions -> TryRow],
         tries'[v].status \in {"ACTIVE", "FAILED"},
         \A u \in Versions \ {v} : tries'[u] = tries[u],
         NEW p \in ProcRow, proc' = [proc EXCEPT ![r] = p],
         UNCHANGED <<applied, executed>>,
         Sure(r)'
  PROVE  MigratorInv'
<1>1. /\ DOMAIN steps' = Versions /\ steps' = [u \in Versions |-> steps'[u]]
      /\ \A u \in Versions : steps'[u] \in [1 .. Statements[u] -> StepStatuses]
      /\ steps'[v][k] = x
      /\ \A u \in Versions \ {v} : steps'[u] = steps[u]
      /\ \A j \in 1 .. Statements[v] : j # k => steps'[v][j] = steps[v][j]
  <2>1. x \in StepStatuses
    BY Zenon DEF StepStatuses
  <2> QED  BY <2>1, StepSet, Zenon
<1>2. /\ steps[v][k] = "ACTIVE" /\ StepsOf(v) /\ applied[v] = "none" /\ tries[v].owner = r /\ tries[v].status = "ACTIVE"
      /\ Statements[v] \in Nat /\ \A j \in 1 .. Statements[v] : j > k => steps[v][j] = "NONE"
  BY Zenon DEF AtStep
<1>3. MigratorTypeOK'
  BY <1>1, Zenon DEF MigratorInv, MigratorTypeOK, StepStatuses
<1>4. AttemptsInOrder'
  BY <1>2, SMTT(30) DEF MigratorInv, AttemptsInOrder
<1>5. StepsInOrder'
  <2>1. ASSUME NEW j \in 1 .. Statements[v], steps'[v][j] # "NONE"
        PROVE  \A i \in 1 .. j - 1 : steps'[v][i] = "APPLIED"
    <3>1. j <= k /\ steps[v][j] # "NONE"
      BY <1>1, <1>2, <2>1, SMTT(30)
    <3>2. \A i \in 1 .. j - 1 : i \in 1 .. Statements[v] /\ i # k /\ steps[v][i] = "APPLIED"
      BY <1>2, <3>1 DEF StepsOf
    <3> QED  BY <1>1, <3>2
  <2>2. ASSUME NEW j \in 1 .. Statements[v]
        PROVE  /\ executed'[v][j] <= 1
               /\ steps'[v][j] = "NONE" => executed'[v][j] = 0
               /\ steps'[v][j] = "APPLIED" => executed'[v][j] = 1
    BY <1>1, <1>2, SMTT(30) DEF StepsOf
  <2>3. StepsOf(v)'
    BY <1>2, <2>1, <2>2, Zenon DEF StepsOf
  <2>4. ASSUME NEW u \in Versions \ {v}
        PROVE  StepsOf(u)'
    BY <1>1 DEF MigratorInv, StepsInOrder, StepsOf
  <2> QED  BY <2>3, <2>4, Zenon DEF StepsInOrder
<1>6. \A d \in Runs \ {r} : Sure(d)'
  <2>1. \A u \in Versions : tries[u].status = "ACTIVE" /\ tries[u].owner # r =>
          tries'[u] = tries[u] /\ steps'[u] = steps[u] /\ executed'[u] = executed[u]
    BY <1>1, <1>2
  <2>2. \A u \in Versions : \A j \in 1 .. Statements[u] : steps[u][j] = "APPLIED" => steps'[u][j] = "APPLIED"
    <3>1. \A j \in 1 .. Statements[v] : steps[v][j] = "APPLIED" => j # k
      BY <1>2, Zenon
    <3> QED  BY <1>1, <3>1
  <2> QED  BY <2>1, <2>2, OthersSure, ZenonT(60)
<1> QED  BY <1>3, <1>4, <1>5, <1>6, Zenon DEF MigratorInv

\* A failed statement ends step and attempt.
LEMMA MarkFailedKeeps ==
  ASSUME MigratorInv, NEW r \in Runs, MarkFailed(r)
  PROVE  MigratorInv'
<1>1. proc[r].stage = "fail"
  BY Zenon DEF MarkFailed
<1>2. PICK v \in Versions : \E k \in 1 .. Statements[v] : AtStep(r, v, k)
  BY <1>1, RunAtStep, Zenon
<1>3. PICK k \in 1 .. Statements[v] : AtStep(r, v, k)
  BY <1>2
<1>4. v = proc[r].version /\ k = proc[r].ordinal /\ steps[v][k] = "ACTIVE" /\ tries[v].owner = r /\ tries[v].status = "ACTIVE"
  BY <1>3, Zenon DEF AtStep
<1>5. steps' = WithStep(v, k, "FAILED")
  BY <1>4, Zenon DEF MarkFailed, WithStep
<1>6. tries' = [tries EXCEPT ![v].status = "FAILED"]
  BY <1>4, Zenon DEF MarkFailed
<1>7. /\ tries' \in [Versions -> TryRow] /\ tries'[v].status = "FAILED"
      /\ \A u \in Versions \ {v} : tries'[u] = tries[u]
  BY <1>6, SMTT(30) DEF MigratorInv, MigratorTypeOK, TryRow
<1>8. PICK p \in ProcRow : proc' = [proc EXCEPT ![r] = p] /\ proc'[r] = p /\ p.stage = "refused"
  <2>1. Go(r, "refused") /\ "refused" \in Stages
    BY Zenon DEF MarkFailed, Stages
  <2> QED  BY <2>1, Going, Zenon
<1>9. Sure(r)'
  BY <1>8, Zenon DEF Sure, Working, Stepping
<1>10. UNCHANGED <<applied, executed>>
  BY Zenon DEF MarkFailed
<1> QED  BY <1>3, <1>5, <1>7, <1>8, <1>9, <1>10, StepEndKeeps, Zenon

\* A step that took effect is recorded, and the run goes on to the next.
LEMMA CompleteStepKeeps ==
  ASSUME MigratorInv, NEW r \in Runs, CompleteStep(r)
  PROVE  MigratorInv'
<1>1. proc[r].stage = "complete"
  BY Zenon DEF CompleteStep
<1>2. PICK v \in Versions : \E k \in 1 .. Statements[v] : AtStep(r, v, k)
  BY <1>1, RunAtStep, Zenon
<1>3. PICK k \in 1 .. Statements[v] : AtStep(r, v, k)
  BY <1>2
<1>4. /\ v = proc[r].version /\ k = proc[r].ordinal /\ Statements[v] \in Nat /\ v <= Len(Files[r])
      /\ \A j \in 1 .. k - 1 : steps[v][j] = "APPLIED"
      /\ \A u \in 1 .. v - 1 : applied[u] = Files[r][u]
      /\ tries[v].status = "ACTIVE" /\ Sure(r)
  BY <1>3 DEF AtStep
<1>5. UNCHANGED <<applied, tries, executed>> /\ executed[v][k] = 1
  BY <1>1, <1>4, Zenon DEF CompleteStep, Sure
<1>6. CASE Go(r, "refused") /\ UNCHANGED steps
  BY <1>5, <1>6, StoppingKeeps, Zenon
<1> DEFINE next == IF k < Statements[v] THEN [proc[r] EXCEPT !.stage = "start", !.ordinal = k + 1]
                   ELSE [proc[r] EXCEPT !.stage = "finalize"]
<1>7. CASE steps' = WithStep(v, k, "APPLIED") /\ proc' = [proc EXCEPT ![r] = next]
  <2>1. proc[r] \in ProcRow
    BY Zenon DEF MigratorInv, MigratorTypeOK
  <2>2. /\ next \in ProcRow /\ next.version = v
        /\ k < Statements[v] => next.stage = "start" /\ next.ordinal = k + 1
        /\ ~(k < Statements[v]) => next.stage = "finalize"
    <3>1. CASE k < Statements[v]
      <4>1. next = [proc[r] EXCEPT !.stage = "start", !.ordinal = k + 1]
        BY <3>1
      <4>2. k + 1 \in Nat \ {0}
        BY <1>4
      <4> HIDE DEF next
      <4>3. next.stage = "start" /\ next.version = v /\ next.ordinal = k + 1
        BY <1>4, <2>1, <4>1, Zenon DEF ProcRow
      <4>4. next \in ProcRow
        BY <2>1, <4>1, <4>2, Zenon DEF ProcRow, Stages
      <4> QED  BY <3>1, <4>3, <4>4, Zenon
    <3>2. CASE ~(k < Statements[v])
      <4>1. next = [proc[r] EXCEPT !.stage = "finalize"]
        BY <3>2
      <4> HIDE DEF next
      <4> QED  BY <1>4, <2>1, <3>2, <4>1, Zenon DEF ProcRow, Stages
    <3> QED  BY <3>1, <3>2, Zenon
  <2> HIDE DEF next
  <2>3. proc'[r] = next
    BY <1>7, Zenon DEF MigratorInv, MigratorTypeOK
  <2>4. steps'[v][k] = "APPLIED" /\ \A j \in 1 .. Statements[v] : j # k => steps'[v][j] = steps[v][j]
    <3>1. "APPLIED" \in StepStatuses
      BY Zenon DEF StepStatuses
    <3> QED  BY <1>7, <3>1, StepSet
  <2>5. \A j \in 1 .. k : steps'[v][j] = "APPLIED"
    BY <1>4, <2>4, SMTT(30)
  <2>6. Sure(r)'
    <3>1. CASE k < Statements[v]
      <4>1. proc'[r].stage = "start" /\ proc'[r].version = v /\ proc'[r].ordinal = k + 1
        BY <2>2, <2>3, <3>1, Zenon
      <4>2. k = (k + 1) - 1 /\ k + 1 <= Statements[v]
        BY <1>4, <3>1
      <4>3. \A j \in 1 .. proc'[r].ordinal - 1 : steps'[v][j] = "APPLIED"
        BY <2>5, <4>1, <4>2, Zenon
      <4>4. v <= Len(Files[r]) /\ \A u \in 1 .. v - 1 : applied'[u] = Files[r][u]
        BY <1>4, <1>5, Zenon
      <4> QED  BY <4>1, <4>2, <4>3, <4>4, Zenon DEF Sure
    <3>2. CASE ~(k < Statements[v])
      BY <1>4, <1>5, <2>2, <2>3, <3>2, Zenon DEF Sure, Stepping
    <3> QED  BY <3>1, <3>2
  <2>7. tries' \in [Versions -> TryRow] /\ tries'[v].status = "ACTIVE" /\ \A u \in Versions \ {v} : tries'[u] = tries[u]
    BY <1>4, <1>5, Zenon DEF MigratorInv, MigratorTypeOK
  <2> QED  BY <1>3, <1>5, <1>7, <2>2, <2>6, <2>7, StepEndKeeps, Zenon
<1> QED  BY <1>4, <1>6, <1>7, Zenon DEF CompleteStep, WithStep

\* The receipt of a version whose steps are all recorded.
LEMMA FinalizeKeeps ==
  ASSUME MigratorInv, NEW r \in Runs, Finalize(r)
  PROVE  MigratorInv'
<1>1. proc[r].stage = "finalize" /\ proc[r].stage \in Working
  BY Zenon DEF Finalize, Working, Stages
<1>2. PICK v \in Versions :
        /\ v = proc[r].version /\ v \in 1 .. Len(Files[r]) /\ Statements[v] \in Nat \ {0} /\ proc[r] \in ProcRow
        /\ Files[r][v] \in STRING /\ Files[r][v] # "none"
  BY <1>1, InRange, Zenon
<1>3. \A u \in 1 .. v - 1 : applied[u] = Files[r][u]
  BY <1>1, <1>2, Zenon DEF MigratorInv, Sure
<1>4. UNCHANGED <<steps, executed>>
  BY Zenon DEF Finalize
<1>5. CASE Go(r, "refused") /\ UNCHANGED <<applied, tries>>
  BY <1>4, <1>5, StoppingKeeps
<1>6. CASE /\ Owned(r, v) /\ \A k \in DOMAIN steps[v] : steps[v][k] = "APPLIED"
           /\ applied' = [applied EXCEPT ![v] = Files[r][v]]
           /\ tries' = [tries EXCEPT ![v].status = "APPLIED"]
           /\ proc' = [proc EXCEPT ![r] = Following(r)]
  <2>1. tries[v].status = "ACTIVE" /\ tries[v].owner = r /\ applied[v] = "none"
    BY <1>6, Zenon DEF Owned, MigratorInv, AttemptsInOrder
  <2>2. applied'[v] = Files[r][v] /\ \A u \in Versions \ {v} : applied'[u] = applied[u]
    BY <1>6, Zenon DEF MigratorInv, MigratorTypeOK
  <2>3. tries'[v].status = "APPLIED" /\ tries' \in [Versions -> TryRow] /\ \A u \in Versions \ {v} : tries'[u] = tries[u]
    BY <1>6, ZenonT(30) DEF MigratorInv, MigratorTypeOK, TryRow
  <2>4. proc'[r] = Following(r)
    BY <1>6, Zenon DEF MigratorInv, MigratorTypeOK
  <2>5. \A u \in 1 .. v - 1 : u \in Versions \ {v}
    <3>1. Len(Statements) \in Nat /\ v \in 1 .. Len(Statements)
      BY ImageAssumption DEF Versions
    <3> QED  BY <3>1 DEF Versions
  <2>6. \A u \in 1 .. v : applied'[u] = Files[r][u]
    BY <1>2, <1>3, <2>2, <2>5
  <2>7. Following(r) \in ProcRow /\ Sure(r)'
    BY <1>2, <2>4, <2>6, FollowingSure, Zenon
  <2>8. MigratorTypeOK'
    <3>1. applied' \in [Versions -> Contents]
      BY <1>2, <1>6, ZenonT(40) DEF MigratorInv, MigratorTypeOK, Contents
    <3> QED  BY <1>4, <1>6, <2>3, <2>7, <3>1, Zenon DEF MigratorInv, MigratorTypeOK
  <2>9. AttemptsInOrder'
    <3>1. ASSUME NEW u \in Versions, applied[u] # "none"
          PROVE  applied'[u] # "none"
      BY <2>1, <2>2, <3>1, Zenon
    <3>2. \A u \in Versions : \A w \in 1 .. u - 1 : w \in Versions
      BY ImageAssumption DEF Versions
    <3>3. \A w \in 1 .. v - 1 : applied'[w] # "none"
      BY <1>2, <2>6, FilesOfImage, SMTT(30)
    <3>4. ASSUME NEW u \in Versions \ {v}, tries[u].status # "NONE"
          PROVE  \A w \in 1 .. u - 1 : applied'[w] # "none"
      BY <3>1, <3>2, <3>4, Zenon DEF MigratorInv, AttemptsInOrder
    <3> QED  BY <1>2, <2>2, <2>3, <3>3, <3>4 DEF MigratorInv, AttemptsInOrder
  <2>10. StepsInOrder'
    <3>1. \A k \in 1 .. Statements[v] : steps[v][k] = "APPLIED"
      BY <1>6, Zenon DEF MigratorInv, MigratorTypeOK
    <3>2. StepsOf(v) /\ \A u \in Versions : StepsOf(u)
      BY DEF MigratorInv, StepsInOrder
    <3>3. StepsOf(v)'
      BY <1>4, <2>3, <3>1, <3>2, ZenonT(40) DEF StepsOf
    <3>4. ASSUME NEW u \in Versions \ {v}
          PROVE  StepsOf(u)'
      BY <1>4, <2>2, <2>3, <3>2 DEF StepsOf
    <3> QED  BY <3>3, <3>4 DEF StepsInOrder
  <2>11. \A d \in Runs \ {r} : Sure(d)'
    <3>1. \A u \in Versions : applied[u] # "none" => applied'[u] = applied[u]
      BY <2>1, <2>2, Zenon
    <3>2. \A u \in Versions : tries[u].status = "ACTIVE" /\ tries[u].owner # r =>
            tries'[u] = tries[u] /\ steps'[u] = steps[u] /\ executed'[u] = executed[u]
      BY <1>4, <2>1, <2>3, Zenon
    <3> QED  BY <1>4, <1>6, <3>1, <3>2, OthersSure, Zenon
  <2> QED  BY <2>7, <2>8, <2>9, <2>10, <2>11 DEF MigratorInv
<1> QED  BY <1>2, <1>5, <1>6, Zenon DEF Finalize

\* RunOnce, for any processes, images, versions and statements: what schema-migrator sends
\* takes effect at most once and in order, and a run that succeeds has applied its image.
THEOREM MigrationsRunOnce == MigratorSpec => []RunOnce
<1>1. ASSUME MigratorInv, [MigratorNext]_migratorVars
      PROVE  MigratorInv'
  <2>1. CASE UNCHANGED migratorVars
    <3>1. UNCHANGED <<applied, tries, steps, proc, executed>>
      BY <2>1 DEF migratorVars
    <3>2. MigratorTypeOK'
      BY <1>1, <3>1, Zenon DEF MigratorInv, MigratorTypeOK
    <3>3. AttemptsInOrder'
      BY <1>1, <3>1, Zenon DEF MigratorInv, AttemptsInOrder
    <3>4. StepsInOrder'
      BY <1>1, <3>1, Zenon DEF MigratorInv, StepsInOrder, StepsOf
    <3>5. ASSUME NEW r \in Runs
          PROVE  Sure(r)'
      <4>1. Sure(r)
        BY <1>1, Zenon DEF MigratorInv
      <4> QED  BY <3>1, <4>1, Zenon DEF Sure
    <3> QED  BY <3>2, <3>3, <3>4, <3>5 DEF MigratorInv
  <2>2. ASSUME NEW r \in Runs, Die(r)
        PROVE  MigratorInv'
    BY <1>1, <2>2, StoppingKeeps, Zenon DEF Die
  <2>3. CASE MigratorNext
    BY <1>1, <2>2, <2>3, BeginKeeps, ClaimKeeps, StartStepKeeps, ExecuteKeeps, MarkFailedKeeps,
       CompleteStepKeeps, FinalizeKeeps DEF MigratorNext
  <2> QED  BY <1>1, <2>1, <2>3, Zenon
<1> QED  BY <1>1, MigratorInitial, SureIsRunOnce, PTL DEF MigratorSpec

-----------------------------------------------------------------------------
(* Sagas.                                                                  *)

\* A finished step is behind the current one, and so is every step whose
\* compensation failed; a failure still to be recorded is not ahead of it.
ReportsAreBehind ==
  /\ \A i \in Ordinals : step[i] \in {"COMPLETED", "COMPENSATED", "COMPENSATION_FAILED"}
                           => i < current
  /\ \A co \in Coordinators :
       /\ late[co].kind \in {"transient", "permanent"} => late[co].ordinal <= current
       /\ late[co].kind = "compensation" => late[co].ordinal < current

\* Inverse effects exist only once compensation has begun, which never ends in
\* RUNNING again.
UndoneOnlyCompensating == undone # {} => status \in {"COMPENSATING", "COMPENSATED"}

SagaInv ==
  /\ TypeOK
  /\ EffectsArePrefix
  /\ UndoneInReverse
  /\ ReportsAreBehind
  /\ UndoneOnlyCompensating

USE NAssumption, StepsAssumption DEF Ordinals

\* A saga that was just started satisfies the inductive invariant.
LEMMA SagaInitial == Init => SagaInv
<1> SUFFICES ASSUME Init PROVE SagaInv
  OBVIOUS
<1>1. TypeOK
  <2>1. 0 \in 0 .. N /\ 0 \in Ordinals
    OBVIOUS
  <2>2. outdated \in BOOLEAN
    BY Zenon DEF Init
  <2> QED
    BY <2>1, <2>2 DEF Init, TypeOK, StepStatus, NoFailure
<1>2. EffectsArePrefix /\ UndoneInReverse /\ UndoneOnlyCompensating
  BY DEF Init, EffectsArePrefix, UndoneInReverse, UndoneOnlyCompensating
<1>3. ReportsAreBehind
  BY DEF Init, ReportsAreBehind, NoFailure
<1> QED
  BY <1>1, <1>2, <1>3 DEF SagaInv

\* A step that runs the current action, or takes its answer, moves the prefix by
\* one; it happens in RUNNING, where nothing is undone yet.
LEMMA AdvanceKeeps ==
  ASSUME SagaInv, status = "RUNNING", current < N,
         step' = [step EXCEPT ![current] = "COMPLETED"],
         committed' = committed \cup {current}, current' = current + 1,
         status' \in {"RUNNING", "COMPLETED"}, status' = "COMPLETED" => current + 1 = N,
         UNCHANGED <<undone, commands, late, outdated>>
  PROVE  SagaInv'
<1>1. undone = {}
  BY DEF SagaInv, UndoneOnlyCompensating
<1>2. TypeOK'
  BY DEF SagaInv, TypeOK, StepStatus
<1>3. EffectsArePrefix'
  BY DEF SagaInv, TypeOK, EffectsArePrefix
<1>4. UndoneInReverse' /\ UndoneOnlyCompensating'
  BY <1>1 DEF UndoneInReverse, UndoneOnlyCompensating
<1>5. ReportsAreBehind'
  BY DEF SagaInv, TypeOK, ReportsAreBehind
<1> QED
  BY <1>2, <1>3, <1>4, <1>5, Zenon DEF SagaInv

\* Every step keeps SagaInv.
LEMMA SagaStep == SagaInv /\ [Next]_vars => SagaInv'
<1> SUFFICES ASSUME SagaInv, [Next]_vars PROVE SagaInv'
  OBVIOUS
<1> USE DEF SagaInv, TypeOK, EffectsArePrefix, UndoneInReverse, ReportsAreBehind,
            UndoneOnlyCompensating, StepStatus, Ticks
<1>1. CASE Start
  BY <1>1, Zenon DEF Start
<1>2. ASSUME NEW co \in Coordinators, ExecuteDone(co)
      PROVE  SagaInv'
  <2>1. /\ status = "RUNNING" /\ current < N
        /\ step' = [step EXCEPT ![current] = "COMPLETED"]
        /\ committed' = committed \cup {current} /\ current' = current + 1
        /\ status' \in {"RUNNING", "COMPLETED"}
        /\ status' = "COMPLETED" => current + 1 = N
        /\ UNCHANGED <<undone, commands, late, outdated>>
    BY <1>2, Zenon DEF ExecuteDone, Executable, Advance
  <2> QED
    BY <2>1, AdvanceKeeps, Zenon
<1>3. ASSUME NEW co \in Coordinators, ExecuteWait(co)
      PROVE  SagaInv'
  BY <1>3 DEF ExecuteWait, Executable
<1>4. ASSUME NEW co \in Coordinators, NEW kind \in {"transient", "permanent"},
             ExecuteFails(co, kind)
      PROVE  SagaInv'
  BY <1>4 DEF ExecuteFails, Executable, Failure
<1>5. ASSUME NEW co \in Coordinators, CompleteSaga(co)
      PROVE  SagaInv'
  BY <1>5 DEF CompleteSaga
<1>6. ASSUME NEW co \in Coordinators, NEW i \in Ordinals, CompensateDone(co, i)
      PROVE  SagaInv'
  BY <1>6 DEF CompensateDone, LastCompensatable, Compensatable
<1>7. ASSUME NEW co \in Coordinators, NEW i \in Ordinals, CompensateFails(co, i)
      PROVE  SagaInv'
  BY <1>7, Zenon DEF CompensateFails, LastCompensatable, Compensatable, Failure
<1>8. ASSUME NEW co \in Coordinators, FinishCompensation(co)
      PROVE  SagaInv'
  BY <1>8, Zenon DEF FinishCompensation
<1>9. ASSUME NEW co \in Coordinators, RecordFailure(co)
      PROVE  SagaInv'
  BY <1>9 DEF RecordFailure, NoFailure
<1>10. ASSUME NEW co \in Coordinators, Crash(co)
       PROVE  SagaInv'
  BY <1>10 DEF Crash, NoFailure
<1>11. ASSUME NEW i \in Ordinals, CompleteWaiting(i)
       PROVE  SagaInv'
  <2>1. /\ status = "RUNNING" /\ status' = "RUNNING" /\ current = i /\ current' = current + 1
        /\ step' = [step EXCEPT ![current] = "COMPLETED"] /\ committed' = committed \cup {current}
        /\ UNCHANGED <<undone, commands, late, outdated>>
    BY <1>11, Zenon DEF CompleteWaiting, AnswerAwaited
  <2>2. current < N
    BY <2>1 DEF Ordinals
  <2>3. status' \in {"RUNNING", "COMPLETED"} /\ (status' = "COMPLETED" => current + 1 = N)
    BY <2>1, Zenon
  <2> QED  BY <2>1, <2>2, <2>3, AdvanceKeeps, Zenon
<1>12. CASE UNCHANGED vars
  BY <1>12, Zenon DEF vars
<1> QED
  BY <1>1, <1>2, <1>3, <1>4, <1>5, <1>6, <1>7, <1>8, <1>9, <1>10, <1>11, <1>12, Zenon
     DEF Next, ExecuteOne, CompensateOne

\* SagaInv is an invariant of the specification.
LEMMA SagaInvHolds == Spec => []SagaInv
  BY SagaInitial, SagaStep, PTL DEF Spec

\* Status columns always hold a value of their CHECK, and current_step never
\* leaves the range of the definition.
THEOREM SagaTypeOK == Spec => []TypeOK
<1>1. SagaInv => TypeOK
  BY DEF SagaInv
<1> QED
  BY <1>1, SagaInvHolds, PTL

\* Whatever coordinators do concurrently and whenever failures are recorded, the
\* committed effects are those of the steps before the current one.
THEOREM SagaEffectsArePrefix == Spec => []EffectsArePrefix
<1>1. SagaInv => EffectsArePrefix
  BY DEF SagaInv
<1> QED
  BY <1>1, SagaInvHolds, PTL

\* Inverse effects follow effects, in reverse order of the completed steps.
THEOREM SagaUndoneInReverse == Spec => []UndoneInReverse
<1>1. SagaInv => UndoneInReverse
  BY DEF SagaInv
<1> QED
  BY <1>1, SagaInvHolds, PTL

\* Until an outdated failure is recorded no effect is lost from sight: an applied
\* step is still to be compensated or has been, and compensation ends only when
\* no step is left to be compensated.
EffectsAccountedFor ==
  \/ outdated
  \/ /\ \A i \in Ordinals : i < current =>
          \/ step[i] \in {"COMPLETED", "COMPENSATION_FAILED"}
          \/ step[i] = "COMPENSATED" /\ (i \in Compensable => i \in undone)
     /\ status = "COMPENSATED" => Compensatable = {}

\* Every step keeps it: only a failure recorded too late rewrites a step that is
\* not where the failed action found it.
LEMMA NextAccountedFor ==
  ASSUME SagaInv, EffectsAccountedFor, [Next]_vars
  PROVE  EffectsAccountedFor'
<1> USE DEF EffectsAccountedFor, Ticks
<1>0. /\ current \in 0 .. N /\ step \in [Ordinals -> StepStatus] /\ outdated \in BOOLEAN
      /\ late \in [Coordinators -> [kind : {"none", "transient", "permanent", "compensation"},
                                    ordinal : Ordinals]]
      /\ \A i \in Ordinals : i > current => step[i] = "PENDING"
  BY Zenon DEF SagaInv, TypeOK, EffectsArePrefix
<1>1. CASE Start
  BY <1>1 DEF Start, Compensatable
<1>2. ASSUME NEW co \in Coordinators, ExecuteDone(co)
      PROVE  EffectsAccountedFor'
  BY <1>0, <1>2 DEF ExecuteDone, Executable, Advance
<1>3. ASSUME NEW co \in Coordinators, ExecuteWait(co)
      PROVE  EffectsAccountedFor'
  BY <1>0, <1>3, Zenon DEF ExecuteWait, Executable
<1>4. ASSUME NEW co \in Coordinators, NEW kind \in {"transient", "permanent"},
             ExecuteFails(co, kind)
      PROVE  EffectsAccountedFor'
  BY <1>4, Zenon DEF ExecuteFails, Compensatable
<1>5. ASSUME NEW co \in Coordinators, CompleteSaga(co)
      PROVE  EffectsAccountedFor'
  BY <1>5 DEF CompleteSaga
<1>6. ASSUME NEW co \in Coordinators, NEW i \in Ordinals, CompensateDone(co, i)
      PROVE  EffectsAccountedFor'
  BY <1>0, <1>6, Zenon DEF CompensateDone
<1>7. ASSUME NEW co \in Coordinators, NEW i \in Ordinals, CompensateFails(co, i)
      PROVE  EffectsAccountedFor'
  BY <1>7, Zenon DEF CompensateFails, Compensatable
<1>8. ASSUME NEW co \in Coordinators, FinishCompensation(co)
      PROVE  EffectsAccountedFor'
  BY <1>8, Zenon DEF FinishCompensation, Compensatable
<1>9. ASSUME NEW co \in Coordinators, RecordFailure(co)
      PROVE  EffectsAccountedFor'
  <2>1. late[co].ordinal \in Ordinals
    BY <1>0
  <2>2. CASE outdated'
    BY <2>2
  <2>3. CASE ~outdated'
    <3>1. ~outdated /\ ~Outdated(late[co])
      BY <1>0, <1>9, <2>3, Zenon DEF RecordFailure
    <3>2. CASE late[co].kind = "compensation"
      BY <1>0, <1>9, <2>1, <3>1, <3>2, Zenon DEF RecordFailure, Outdated, LastCompensatable, Compensatable
    <3>3. CASE late[co].kind # "compensation"
      BY <1>0, <1>9, <2>1, <3>1, <3>3, Zenon DEF RecordFailure, Outdated
    <3> QED
      BY <3>2, <3>3, Zenon
  <2> QED
    BY <2>2, <2>3, Zenon
<1>10. ASSUME NEW co \in Coordinators, Crash(co)
       PROVE  EffectsAccountedFor'
  BY <1>10, Zenon DEF Crash, Compensatable
<1>11. ASSUME NEW i \in Ordinals, CompleteWaiting(i)
       PROVE  EffectsAccountedFor'
  BY <1>0, <1>11 DEF CompleteWaiting, AnswerAwaited
<1>12. CASE UNCHANGED vars
  BY <1>12, Zenon DEF vars, Compensatable
<1> QED
  BY <1>1, <1>2, <1>3, <1>4, <1>5, <1>6, <1>7, <1>8, <1>9, <1>10, <1>11, <1>12, Zenon
     DEF Next, ExecuteOne, CompensateOne

\* A saga that ends COMPENSATED has undone every effect that can be undone and one
\* that ends COMPLETED none, for any interleaving of coordinators, unless one of
\* them recorded a failure that no longer applied.
THEOREM SagaAllOrNothing == Spec => []AllOrNothing
<1>1. SagaInv /\ EffectsAccountedFor => AllOrNothing
  <2> SUFFICES ASSUME SagaInv, EffectsAccountedFor PROVE AllOrNothing
    OBVIOUS
  <2>1. status = "COMPLETED" => undone = {}
    BY DEF SagaInv, UndoneOnlyCompensating
  <2>2. outdated \/ (status = "COMPENSATED" => committed \cap Compensable \subseteq undone)
    BY Zenon DEF SagaInv, TypeOK, EffectsArePrefix, EffectsAccountedFor, Compensatable
  <2> QED
    BY <2>1, <2>2 DEF AllOrNothing
<1>2. Init => EffectsAccountedFor
  BY DEF Init, EffectsAccountedFor
<1>3. SagaInv /\ EffectsAccountedFor /\ [Next]_vars => EffectsAccountedFor'
  BY NextAccountedFor
<1> QED
  BY <1>1, <1>2, <1>3, SagaInvHolds, PTL DEF Spec

-----------------------------------------------------------------------------
(* Offline allowances.                                                     *)

OfflineSpec == InitOffline /\ [][OfflineNext]_offlineVars

States == {"NONE", "PREPARED", "ISSUED", "REDEEMED", "REVOKED", "EXPIRED"}

AllowanceRow == [state : States, epoch : Nat, counter : Nat]

Window == [from : Nat, to : Nat]

ClosureRow == [domain : Domains, epoch : Nat, fence : Nat, key : Nat]

OfflineTypeOK ==
  /\ device \in [epoch : Nat, counter : Nat]
  /\ allowance \in [Allowances -> AllowanceRow]
  /\ windows \in [Domains -> Seq(Window)]
  /\ closures \subseteq ClosureRow
  /\ links \in [Allowances -> SUBSET closures]
  /\ posted \in [Allowances -> Nat]
  /\ accepted \in [Allowances -> Domains \cup {"none"}]

\* A merchant has only allowances that were issued, and none that is still issued is
\* below a closure of the domain that accepted it.
AcceptedIsOpen ==
  \A a \in Allowances :
    /\ accepted[a] # "none" => allowance[a].state \notin {"NONE", "PREPARED"}
    /\ allowance[a].state = "ISSUED" =>
         \A c \in closures : c.domain = accepted[a] => ~Reaches(c.epoch, c.fence, a)

\* Only what was returned has evidence, and its evidence reaches it.
EvidenceReaches ==
  \A a \in Allowances :
    /\ links[a] # {} => allowance[a].state \in {"REVOKED", "EXPIRED"}
    /\ \A c \in links[a] : Reaches(c.epoch, c.fence, a)

OfflineInv == OfflineTypeOK /\ AcceptedIsOpen /\ EvidenceReaches /\ AcceptedIsNotReturned

-----------------------------------------------------------------------------
\* Nothing is enrolled, configured or issued.
LEMMA OfflineInitial == InitOffline => OfflineInv
<1> SUFFICES ASSUME InitOffline PROVE OfflineInv
  OBVIOUS
<1>1. OfflineTypeOK
  BY DEF InitOffline, OfflineTypeOK, NoDevice, NoAllowance, AllowanceRow, States
<1>2. AcceptedIsOpen /\ EvidenceReaches /\ AcceptedIsNotReturned
  BY Zenon DEF InitOffline, AcceptedIsOpen, EvidenceReaches, AcceptedIsNotReturned, NoAllowance
<1> QED  BY <1>1, <1>2 DEF OfflineInv

\* Nothing but the device or the rights of the region changes.
LEMMA DeviceKeeps ==
  ASSUME OfflineInv, device' \in [epoch : Nat, counter : Nat],
         UNCHANGED <<allowance, windows, links, posted, accepted, closures>>
  PROVE  OfflineInv'
<1>1. OfflineTypeOK'
  BY Zenon DEF OfflineInv, OfflineTypeOK
<1>2. AcceptedIsOpen' /\ EvidenceReaches' /\ AcceptedIsNotReturned'
  BY Zenon DEF OfflineInv, AcceptedIsOpen, EvidenceReaches, AcceptedIsNotReturned, Reaches, KeyValidAt
<1> QED  BY <1>1, <1>2, Zenon DEF OfflineInv

\* The history of keys changes, and every key of evidence on record stays valid for it.
LEMMA KeysKeep ==
  ASSUME OfflineInv, NEW d \in Domains, NEW w \in Seq(Window), windows' = [windows EXCEPT ![d] = w],
         UNCHANGED <<device, allowance, links, posted, accepted, closures>>,
         \A a \in Allowances : \A c \in links[a] :
           c.domain = d =>
             /\ c.key \in DOMAIN w /\ w[c.key].from <= c.epoch
             /\ w[c.key].to = 0 \/ w[c.key].to > c.epoch
  PROVE  OfflineInv'
<1>1. OfflineTypeOK'
  BY Zenon DEF OfflineInv, OfflineTypeOK
<1>2. AcceptedIsOpen' /\ EvidenceReaches'
  BY Zenon DEF OfflineInv, AcceptedIsOpen, EvidenceReaches, Reaches
<1>3. windows'[d] = w /\ \A e \in Domains \ {d} : windows'[e] = windows[e]
  BY Zenon DEF OfflineInv, OfflineTypeOK
<1>4. ASSUME NEW a \in Allowances, NEW c \in links[a]
      PROVE  KeyValidAt(c.domain, c.key, c.epoch)'
  <2>1. c.domain \in Domains
    BY DEF OfflineInv, OfflineTypeOK, ClosureRow
  <2>2. KeyValidAt(c.domain, c.key, c.epoch)
    BY Zenon DEF OfflineInv, AcceptedIsNotReturned
  <2>3. CASE c.domain = d
    BY <1>3, <2>3, Zenon DEF KeyValidAt
  <2>4. CASE c.domain # d
    BY <1>3, <2>1, <2>2, <2>4, Zenon DEF KeyValidAt
  <2> QED  BY <2>3, <2>4, Zenon
<1>5. AcceptedIsNotReturned'
  BY <1>4, ZenonT(40) DEF OfflineInv, AcceptedIsNotReturned
<1> QED  BY <1>1, <1>2, <1>5, Zenon DEF OfflineInv

\* A key that ends does so after the epochs of its evidence, which is what the window
\* guards ask for; the keys before it are as they were.
LEMMA EndedKeyCovers ==
  ASSUME OfflineInv, NEW d \in Domains, HasOpenKey(d), NEW epoch \in Nat, MayEndKey(d, epoch),
         NEW a \in Allowances, NEW c \in links[a], c.domain = d
  PROVE  /\ Ended(d, epoch) \in Seq(Window) /\ DOMAIN Ended(d, epoch) = DOMAIN windows[d]
         /\ c.key \in DOMAIN windows[d]
         /\ Ended(d, epoch)[c.key].from <= c.epoch
         /\ Ended(d, epoch)[c.key].to = 0 \/ Ended(d, epoch)[c.key].to > c.epoch
<1>1. PICK w \in Seq(Window) : w = windows[d] /\ w # <<>>
  BY Zenon DEF OfflineInv, OfflineTypeOK, HasOpenKey
<1>2. Len(w) \in Nat \ {0} /\ Len(w) \in DOMAIN w /\ w[Len(w)] \in Window
  BY <1>1
<1>3. Ended(d, epoch) = [w EXCEPT ![Len(w)].to = epoch]
  BY <1>1 DEF Ended
<1>4. c \in ClosureRow /\ KeyValidAt(d, c.key, c.epoch)
  BY Zenon DEF OfflineInv, OfflineTypeOK, AcceptedIsNotReturned
<1>5. c.key \in DOMAIN w /\ w[c.key].from <= c.epoch /\ (w[c.key].to = 0 \/ w[c.key].to > c.epoch)
  BY <1>1, <1>4, Zenon DEF KeyValidAt
<1>6. c.key = Len(w) => epoch > c.epoch
  BY <1>1, Zenon DEF MayEndKey, EvidenceEpochs
<1>7. PICK e : e = Ended(d, epoch)
  OBVIOUS
<1>8. /\ e \in Seq(Window) /\ DOMAIN e = DOMAIN w
      /\ e[Len(w)].to = epoch /\ e[Len(w)].from = w[Len(w)].from
      /\ \A k \in DOMAIN w : k # Len(w) => e[k] = w[k]
  <2>1. PICK last \in Window : last = w[Len(w)]
    BY <1>2
  <2>2. PICK x \in Window : x = [last EXCEPT !.to = epoch]
    BY Zenon DEF Window
  <2>3. x.to = epoch /\ x.from = last.from
    BY <2>2 DEF Window
  <2>4. e = [w EXCEPT ![Len(w)] = x]
    BY <1>3, <1>7, <2>1, <2>2, Zenon
  <2>5. e \in Seq(Window)
    BY <1>1, <1>2, <2>4
  <2>6. DOMAIN e = DOMAIN w /\ e[Len(w)] = x /\ \A k \in DOMAIN w : k # Len(w) => e[k] = w[k]
    BY <1>2, <2>4, Zenon
  <2> QED  BY <2>1, <2>3, <2>5, <2>6, Zenon
<1> QED  BY <1>1, <1>5, <1>6, <1>7, <1>8

\* Ending the last key of a domain leaves windows.
LEMMA EndedKeyIsWindow ==
  ASSUME OfflineInv, NEW d \in Domains, HasOpenKey(d), NEW epoch \in Nat
  PROVE  Ended(d, epoch) \in Seq(Window)
<1>1. PICK w \in Seq(Window) : w = windows[d] /\ w # <<>>
  BY DEF OfflineInv, OfflineTypeOK, HasOpenKey
<1>2. Len(w) \in DOMAIN w /\ w[Len(w)] \in Window
  BY <1>1
<1>3. PICK x \in Window : x = [w[Len(w)] EXCEPT !.to = epoch]
  BY <1>2, Zenon DEF Window
<1>4. Ended(d, epoch) = [w EXCEPT ![Len(w)] = x]
  BY <1>1, <1>3, Zenon DEF Ended
<1> QED  BY <1>1, <1>2, <1>4

\* Domains and their keys: a key ends only after the evidence it signed.
LEMMA ControlKeeps ==
  ASSUME OfflineInv, NEW d \in Domains,
         \/ ConfigureAcceptanceDomain(d)
         \/ \E e \in 1 .. MaxEpoch : RotateAcceptanceDomainKey(d, e) \/ TerminateAcceptanceDomainKey(d, e)
  PROVE  OfflineInv'
<1>1. CASE ConfigureAcceptanceDomain(d)
  <2>1. \A a \in Allowances : \A c \in links[a] : c.domain # d
    BY <1>1 DEF ConfigureAcceptanceDomain, OfflineInv, AcceptedIsNotReturned, KeyValidAt
  <2>2. <<[from |-> FirstEpoch[d], to |-> 0]>> \in Seq(Window)
    BY DomainsAssumption DEF Window
  <2> QED  BY <1>1, <2>1, <2>2, KeysKeep, ZenonT(40) DEF ConfigureAcceptanceDomain
<1>2. ASSUME NEW epoch \in 1 .. MaxEpoch, RotateAcceptanceDomainKey(d, epoch)
      PROVE  OfflineInv'
  <2>1. epoch \in Nat /\ HasOpenKey(d) /\ MayEndKey(d, epoch) /\ Ended(d, epoch) \in Seq(Window)
    BY <1>2, DomainsAssumption, EndedKeyIsWindow DEF RotateAcceptanceDomainKey
  <2>2. PICK e \in Seq(Window), new \in Window : e = Ended(d, epoch) /\ windows' = [windows EXCEPT ![d] = Append(e, new)]
    BY <1>2, <2>1, Zenon DEF RotateAcceptanceDomainKey, Window
  <2>3. Append(e, new) \in Seq(Window) /\ \A k \in DOMAIN e : k \in DOMAIN Append(e, new) /\ Append(e, new)[k] = e[k]
    OBVIOUS
  <2>4. PICK w \in Seq(Window) : w = Append(e, new)
    BY <2>3, Zenon
  <2>5. ASSUME NEW a \in Allowances, NEW c \in links[a], c.domain = d
        PROVE  c.key \in DOMAIN w /\ w[c.key].from <= c.epoch /\ (w[c.key].to = 0 \/ w[c.key].to > c.epoch)
    <3>1. c.key \in DOMAIN e /\ e[c.key].from <= c.epoch /\ (e[c.key].to = 0 \/ e[c.key].to > c.epoch)
      BY <2>1, <2>2, <2>5, EndedKeyCovers, Zenon
    <3> QED  BY <2>3, <2>4, <3>1, Zenon
  <2> QED  BY <1>2, <2>2, <2>4, <2>5, KeysKeep, ZenonT(40) DEF RotateAcceptanceDomainKey
<1>3. ASSUME NEW epoch \in 1 .. MaxEpoch, TerminateAcceptanceDomainKey(d, epoch)
      PROVE  OfflineInv'
  <2>1. epoch \in Nat /\ HasOpenKey(d) /\ MayEndKey(d, epoch) /\ Ended(d, epoch) \in Seq(Window)
    BY <1>3, DomainsAssumption, EndedKeyIsWindow DEF TerminateAcceptanceDomainKey
  <2>2. PICK e \in Seq(Window) : e = Ended(d, epoch) /\ windows' = [windows EXCEPT ![d] = e]
    BY <1>3, <2>1, Zenon DEF TerminateAcceptanceDomainKey
  <2>3. ASSUME NEW a \in Allowances, NEW c \in links[a], c.domain = d
        PROVE  c.key \in DOMAIN e /\ e[c.key].from <= c.epoch /\ (e[c.key].to = 0 \/ e[c.key].to > c.epoch)
    BY <2>1, <2>2, <2>3, EndedKeyCovers, Zenon
  <2> QED  BY <1>3, <2>2, <2>3, KeysKeep, ZenonT(40) DEF TerminateAcceptanceDomainKey
<1> QED  BY <1>1, <1>2, <1>3, Zenon

\* An allowance changes and the rest does not: what is said of the others stays.
LEMMA AllowanceKeeps ==
  ASSUME OfflineInv, NEW a \in Allowances, NEW row \in AllowanceRow, allowance' = [allowance EXCEPT ![a] = row],
         device' \in [epoch : Nat, counter : Nat],
         NEW n \in Nat, posted' = [posted EXCEPT ![a] = n], n = IF row.state = "REDEEMED" THEN 1 ELSE 0,
         NEW set \in SUBSET closures, links' = [links EXCEPT ![a] = set],
         UNCHANGED <<windows, accepted, closures>>,
         accepted[a] # "none" => row.state \notin {"NONE", "PREPARED"},
         row.state = "ISSUED" => accepted[a] = "none",
         set # {} => row.state \in {"REVOKED", "EXPIRED"},
         row.state \in {"REVOKED", "EXPIRED"} => accepted[a] \notin {c.domain : c \in set},
         \A c \in set :
           /\ KeyValidAt(c.domain, c.key, c.epoch)
           /\ c.epoch > row.epoch \/ (c.epoch = row.epoch /\ c.fence >= row.counter)
  PROVE  OfflineInv'
<1>1. /\ allowance'[a] = row /\ \A b \in Allowances \ {a} : allowance'[b] = allowance[b]
      /\ posted'[a] = n /\ \A b \in Allowances \ {a} : posted'[b] = posted[b]
      /\ links'[a] = set /\ \A b \in Allowances \ {a} : links'[b] = links[b]
  BY Zenon DEF OfflineInv, OfflineTypeOK
<1>2. OfflineTypeOK'
  BY Zenon DEF OfflineInv, OfflineTypeOK
<1>3. \A c \in closures : c.domain # "none"
  BY DomainsAssumption, ZenonT(40) DEF OfflineInv, OfflineTypeOK, ClosureRow
<1>4. AcceptedIsOpen'
  BY <1>1, <1>3 DEF OfflineInv, AcceptedIsOpen, Reaches
<1>5. EvidenceReaches'
  BY <1>1 DEF OfflineInv, EvidenceReaches, Reaches
<1>6. AcceptedIsNotReturned'
  <2>1. n = IF row.state = "REDEEMED" THEN 1 ELSE 0
    BY Zenon
  <2>2. \A b \in Allowances : \A c \in links'[b] : KeyValidAt(c.domain, c.key, c.epoch)'
    BY <1>1, Zenon DEF OfflineInv, AcceptedIsNotReturned, KeyValidAt
  <2>3. /\ posted'[a] = IF allowance'[a].state = "REDEEMED" THEN 1 ELSE 0
        /\ allowance'[a].state \in {"REVOKED", "EXPIRED"} => accepted'[a] \notin {c.domain : c \in links'[a]}
    BY <1>1, <2>1, Zenon
  <2>4. ASSUME NEW b \in Allowances \ {a}
        PROVE  /\ posted'[b] = IF allowance'[b].state = "REDEEMED" THEN 1 ELSE 0
               /\ allowance'[b].state \in {"REVOKED", "EXPIRED"} => accepted'[b] \notin {c.domain : c \in links'[b]}
    <3>1. posted'[b] = posted[b] /\ allowance'[b] = allowance[b] /\ links'[b] = links[b] /\ accepted'[b] = accepted[b]
      BY <1>1, Zenon
    <3>2. /\ posted[b] = IF allowance[b].state = "REDEEMED" THEN 1 ELSE 0
          /\ allowance[b].state \in {"REVOKED", "EXPIRED"} => accepted[b] \notin {c.domain : c \in links[b]}
      BY Zenon DEF OfflineInv, AcceptedIsNotReturned
    <3> QED  BY <3>1, <3>2, Zenon
  <2> QED  BY <2>2, <2>3, <2>4, Zenon DEF AcceptedIsNotReturned
<1> QED  BY <1>2, <1>4, <1>5, <1>6, Zenon DEF OfflineInv

\* An allowance is prepared, and activated later: nobody has accepted it yet.
LEMMA IssueKeeps ==
  ASSUME OfflineInv, NEW a \in Allowances, Issue(a)
  PROVE  OfflineInv'
<1>1. allowance[a] \in AllowanceRow /\ device \in [epoch : Nat, counter : Nat]
  BY DEF OfflineInv, OfflineTypeOK
<1>2. allowance[a].state \in {"NONE", "PREPARED"}
  BY DEF Issue, Prepare, MayPrepare, Activate, MayActivate, NoAllowance
<1>3. accepted[a] = "none" /\ links[a] = {} /\ posted[a] = 0
  BY <1>2, Zenon DEF OfflineInv, AcceptedIsOpen, EvidenceReaches, AcceptedIsNotReturned
<1>4. links' = [links EXCEPT ![a] = {}] /\ posted' = [posted EXCEPT ![a] = 0] /\ UNCHANGED <<windows, accepted, closures>>
  BY <1>3 DEF OfflineInv, OfflineTypeOK, Issue, Prepare, Activate
<1>5. CASE Prepare(a)
  <2>1. PICK row \in AllowanceRow : row.state = "PREPARED" /\ allowance' = [allowance EXCEPT ![a] = row]
    <3> DEFINE new == [state |-> "PREPARED", epoch |-> device.epoch, counter |-> device.counter + 1]
    <3>1. new \in AllowanceRow /\ new.state = "PREPARED"
      <4>1. device.epoch \in Nat /\ device.counter \in Nat
        BY <1>1, Zenon
      <4>2. device.counter + 1 \in Nat
        BY <4>1
      <4> QED  BY <4>1, <4>2, Zenon DEF AllowanceRow, States
    <3> QED  BY <1>5, <3>1, Zenon DEF Prepare
  <2>2. device' \in [epoch : Nat, counter : Nat]
    BY <1>1, <1>5 DEF Prepare
  <2>3. row.state \notin {"REDEEMED", "REVOKED", "EXPIRED"} /\ 0 = IF row.state = "REDEEMED" THEN 1 ELSE 0
    BY <2>1
  <2>4. {} \in SUBSET closures /\ 0 \in Nat
    OBVIOUS
  <2> QED  BY <1>3, <1>4, <2>1, <2>2, <2>3, <2>4, AllowanceKeeps, Zenon
<1>6. CASE Activate(a)
  <2>1. PICK row \in AllowanceRow : row.state = "ISSUED" /\ allowance' = [allowance EXCEPT ![a] = row]
    <3> DEFINE new == [allowance[a] EXCEPT !.state = "ISSUED"]
    <3>1. new \in AllowanceRow /\ new.state = "ISSUED"
      BY <1>1, Zenon DEF AllowanceRow, States
    <3> QED  BY <1>6, <3>1, Zenon DEF Activate
  <2>2. device' \in [epoch : Nat, counter : Nat]
    BY <1>1, <1>6, Zenon DEF Activate
  <2>3. row.state \notin {"REDEEMED", "REVOKED", "EXPIRED"} /\ 0 = IF row.state = "REDEEMED" THEN 1 ELSE 0
    BY <2>1
  <2>4. {} \in SUBSET closures /\ 0 \in Nat
    OBVIOUS
  <2> QED  BY <1>3, <1>4, <2>1, <2>2, <2>3, <2>4, AllowanceKeeps, Zenon
<1> QED  BY <1>5, <1>6 DEF Issue

\* A redemption posts once and leaves the issued state.
LEMMA RedeemKeeps ==
  ASSUME OfflineInv, NEW a \in Allowances, RedeemAndPost(a)
  PROVE  OfflineInv'
<1>1. allowance[a] \in AllowanceRow /\ allowance[a].state = "ISSUED"
  BY Zenon DEF OfflineInv, OfflineTypeOK, RedeemAndPost, RedeemPresentationInTx, MayRedeem
<1>2. links[a] = {} /\ posted[a] = 0
  BY <1>1, Zenon DEF OfflineInv, EvidenceReaches, AcceptedIsNotReturned
<1>3. links' = [links EXCEPT ![a] = {}] /\ posted' = [posted EXCEPT ![a] = 1] /\ UNCHANGED <<device, windows, accepted, closures>>
  BY <1>2 DEF OfflineInv, OfflineTypeOK, RedeemAndPost
<1>4. PICK row \in AllowanceRow : row.state = "REDEEMED" /\ allowance' = [allowance EXCEPT ![a] = row]
  <2> DEFINE new == [allowance[a] EXCEPT !.state = "REDEEMED"]
  <2>1. new \in AllowanceRow /\ new.state = "REDEEMED"
    BY <1>1 DEF AllowanceRow, States
  <2> QED  BY <2>1, Zenon DEF RedeemAndPost, RedeemPresentationInTx
<1>5. device' \in [epoch : Nat, counter : Nat]
  BY <1>3, Zenon DEF OfflineInv, OfflineTypeOK
<1> QED  BY <1>3, <1>4, <1>5, AllowanceKeeps, Zenon

\* A return: the domains whose closures it relies on have not accepted the allowance,
\* because each of them had dealt with everything that its closure reaches.
LEMMA TerminateKeeps ==
  ASSUME OfflineInv, NEW a \in Allowances, NEW kind \in {"REVOKED", "EXPIRED"}, NEW set \in SUBSET closures,
         Terminate(a, kind, set)
  PROVE  OfflineInv'
<1>1. allowance[a] \in AllowanceRow /\ allowance[a].state = "ISSUED" /\ CompleteClosure(a, set)
  BY Zenon DEF OfflineInv, OfflineTypeOK, Terminate, terminateVerifiedInTx
<1>2. posted[a] = 0
  BY <1>1, Zenon DEF OfflineInv, AcceptedIsNotReturned
<1>3. /\ links' = [links EXCEPT ![a] = set] /\ posted' = [posted EXCEPT ![a] = 0]
      /\ UNCHANGED <<device, windows, accepted, closures>>
  BY <1>2, Zenon DEF OfflineInv, OfflineTypeOK, Terminate, terminateVerifiedInTx
<1>4. PICK row \in AllowanceRow :
        /\ row.state = kind /\ row.epoch = allowance[a].epoch /\ row.counter = allowance[a].counter
        /\ allowance' = [allowance EXCEPT ![a] = row]
  <2> DEFINE new == [allowance[a] EXCEPT !.state = kind]
  <2>1. new \in AllowanceRow /\ new.state = kind /\ new.epoch = allowance[a].epoch /\ new.counter = allowance[a].counter
    BY <1>1, Zenon DEF AllowanceRow, States
  <2> QED  BY <2>1, Zenon DEF Terminate, terminateVerifiedInTx
<1>5. device' \in [epoch : Nat, counter : Nat]
  BY <1>3, Zenon DEF OfflineInv, OfflineTypeOK
<1>6. \A c \in set : Reaches(c.epoch, c.fence, a) /\ KeyValidAt(c.domain, c.key, c.epoch)
  BY <1>1, Zenon DEF CompleteClosure, Covers, Reaches
<1>7. accepted[a] \notin {c.domain : c \in set}
  BY <1>1, <1>6, Zenon DEF OfflineInv, AcceptedIsOpen
<1>8. \A c \in set : c.epoch > row.epoch \/ (c.epoch = row.epoch /\ c.fence >= row.counter)
  BY <1>4, <1>6, Zenon DEF Reaches
<1>9. row.state \notin {"NONE", "PREPARED", "ISSUED", "REDEEMED"} /\ row.state \in {"REVOKED", "EXPIRED"}
  BY <1>4, Zenon
<1> QED  BY <1>3, <1>4, <1>5, <1>6, <1>7, <1>8, <1>9, AllowanceKeeps, Zenon

\* A domain accepts only what none of its closures reaches, so nothing whose return
\* relied on it.
LEMMA PresentKeeps ==
  ASSUME OfflineInv, NEW a \in Allowances, NEW d \in Domains, Present(a, d)
  PROVE  OfflineInv'
<1>1. /\ accepted' = [accepted EXCEPT ![a] = d]
      /\ UNCHANGED <<device, allowance, windows, links, posted, closures>>
      /\ allowance[a].state \notin {"NONE", "PREPARED"}
      /\ \A c \in closures : c.domain = d => ~Reaches(c.epoch, c.fence, a)
  BY Zenon DEF Present
<1>2. accepted'[a] = d /\ \A b \in Allowances \ {a} : accepted'[b] = accepted[b]
  BY <1>1, Zenon DEF OfflineInv, OfflineTypeOK
<1>3. OfflineTypeOK'
  BY <1>1, Zenon DEF OfflineInv, OfflineTypeOK
<1>5. AcceptedIsOpen'
  <2>1. \A c \in closures : c.domain = d => ~Reaches(c.epoch, c.fence, a)'
    BY <1>1, Zenon DEF Reaches
  <2>2. ASSUME NEW b \in Allowances \ {a}, allowance[b].state = "ISSUED", NEW c \in closures, c.domain = accepted[b]
        PROVE  ~Reaches(c.epoch, c.fence, b)'
    BY <1>1, <2>2, Zenon DEF OfflineInv, AcceptedIsOpen, Reaches
  <2> QED  BY <1>1, <1>2, <2>1, <2>2, Zenon DEF OfflineInv, AcceptedIsOpen
<1>6. EvidenceReaches'
  BY <1>1, Zenon DEF OfflineInv, EvidenceReaches, Reaches
<1>7. d \notin {c.domain : c \in links[a]}
  <2>1. \A c \in links[a] : c \in closures /\ Reaches(c.epoch, c.fence, a)
    BY Zenon DEF OfflineInv, OfflineTypeOK, EvidenceReaches
  <2> QED  BY <1>1, <2>1, Zenon
<1>8. AcceptedIsNotReturned'
  BY <1>1, <1>2, <1>7, ZenonT(40) DEF OfflineInv, AcceptedIsNotReturned, KeyValidAt
<1> QED  BY <1>3, <1>5, <1>6, <1>8 DEF OfflineInv

\* A domain signs a closure that reaches nothing it still holds.
LEMMA CloseKeeps ==
  ASSUME OfflineInv, NEW d \in Domains, NEW epoch \in 1 .. MaxEpoch, NEW fence \in Fences, Close(d, epoch, fence)
  PROVE  OfflineInv'
<1>1. PICK k \in DOMAIN windows[d] : closures' = closures \cup {[domain |-> d, epoch |-> epoch, fence |-> fence, key |-> k]}
  BY Zenon DEF Close
<1>2. UNCHANGED <<device, allowance, windows, links, posted, accepted>>
  BY Zenon DEF Close
<1>3. PICK new \in ClosureRow :
        closures' = closures \cup {new} /\ new.domain = d /\ new.epoch = epoch /\ new.fence = fence
  <2>1. k \in Nat /\ epoch \in Nat /\ fence \in Nat
    BY DomainsAssumption DEF OfflineInv, OfflineTypeOK
  <2> DEFINE row == [domain |-> d, epoch |-> epoch, fence |-> fence, key |-> k]
  <2>2. row \in ClosureRow /\ row.domain = d /\ row.epoch = epoch /\ row.fence = fence /\ closures' = closures \cup {row}
    BY <1>1, <2>1, Zenon DEF ClosureRow
  <2> HIDE DEF row
  <2> QED  BY <2>2, Zenon
<1>4. OfflineTypeOK'
  BY <1>2, <1>3, Zenon DEF OfflineInv, OfflineTypeOK
<1>5. \A a \in Allowances : accepted[a] = d /\ Reaches(epoch, fence, a) => allowance[a].state # "ISSUED"
  BY Zenon DEF Close
<1>6. AcceptedIsOpen'
  <2>1. ASSUME NEW a \in Allowances, allowance[a].state = "ISSUED", NEW c \in closures', c.domain = accepted[a]
        PROVE  ~Reaches(c.epoch, c.fence, a)
    <3>1. CASE c = new
      BY <1>3, <1>5, <2>1, <3>1, Zenon
    <3>2. CASE c \in closures
      BY <2>1, <3>2, Zenon DEF OfflineInv, AcceptedIsOpen
    <3> QED  BY <1>3, <3>1, <3>2, Zenon
  <2> QED  BY <1>2, <2>1, Zenon DEF OfflineInv, AcceptedIsOpen, Reaches
<1>7. EvidenceReaches' /\ AcceptedIsNotReturned'
  BY <1>2, Zenon DEF OfflineInv, EvidenceReaches, AcceptedIsNotReturned, Reaches, KeyValidAt
<1> QED  BY <1>4, <1>6, <1>7, Zenon DEF OfflineInv

\* AcceptedIsNotReturned, for any allowances, domains, epochs, keys and closures: a merchant
\* who accepted an allowance is paid once, and no return took it back before.
THEOREM AcceptedStays == OfflineSpec => []AcceptedIsNotReturned
<1>1. ASSUME OfflineInv, [OfflineNext]_offlineVars
      PROVE  OfflineInv'
  <2>1. CASE UNCHANGED offlineVars \/ SpendOnline \/ EnrollDevice \/ AdvanceIssuerEpoch
    <3>1. device \in [epoch : Nat, counter : Nat]
      BY <1>1, Zenon DEF OfflineInv, OfflineTypeOK
    <3>2. device' \in [epoch : Nat, counter : Nat]
      BY <2>1, <3>1 DEF offlineVars, SpendOnline, EnrollDevice, AdvanceIssuerEpoch
    <3>3. UNCHANGED <<allowance, windows, links, posted, accepted, closures>>
      BY <2>1, Zenon DEF offlineVars, SpendOnline, EnrollDevice, AdvanceIssuerEpoch
    <3> QED  BY <1>1, <3>2, <3>3, DeviceKeeps
  <2>2. CASE \E d \in Domains :
               \/ ConfigureAcceptanceDomain(d)
               \/ \E e \in 1 .. MaxEpoch :
                    \/ RotateAcceptanceDomainKey(d, e) \/ TerminateAcceptanceDomainKey(d, e)
                    \/ \E f \in Fences : Close(d, e, f)
    BY <1>1, <2>2, ControlKeeps, CloseKeeps, Zenon
  <2>3. CASE \E a \in Allowances :
               \/ Issue(a) \/ RedeemAndPost(a)
               \/ \E d \in Domains : Present(a, d)
               \/ \E kind \in {"REVOKED", "EXPIRED"}, set \in SUBSET closures : Terminate(a, kind, set)
    BY <1>1, <2>3, IssueKeeps, RedeemKeeps, PresentKeeps, TerminateKeeps, Zenon
  <2> QED  BY <1>1, <2>1, <2>2, <2>3, Zenon DEF OfflineNext
<1>2. OfflineInv => AcceptedIsNotReturned
  BY DEF OfflineInv
<1> QED  BY <1>1, <1>2, OfflineInitial, PTL DEF OfflineSpec

=============================================================================
