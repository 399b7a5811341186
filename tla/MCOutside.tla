------------------------------ MODULE MCOutside ------------------------------
(***************************************************************************)
(* The services that work with something no transaction includes - a rail, *)
(* a key store, schema statements, devices that are offline - on small     *)
(* instances.  They share no state: focus says which of them moves.        *)
(***************************************************************************)
EXTENDS Rails, Identity, Migrator, Offline, TLC

CONSTANT Focus     \* the services to look at

VARIABLE focus

vars == <<railsVars, identityVars, migratorVars, offlineVars, focus>>

SmallRequestsOf == [i1 |-> {"q1", "q2"}, i2 |-> {"q3"}]

\* Two runs of the newest image, one that stops at an earlier target, one whose last
\* file differs, and one without a target.
SmallImage ==
  [m1 |-> <<"a", "b">>, m2 |-> <<"a", "b">>, m3 |-> <<"a", "b">>, m4 |-> <<"a", "x">>, m5 |-> <<"a", "b">>]

SmallTarget == [m1 |-> 0, m2 |-> 2, m3 |-> 1, m4 |-> 2, m5 |-> 0]

SmallStatements == <<2, 1>>

SmallAmountOf == [a1 |-> 2, a2 |-> 1]

\* One domain covers both epochs, the other the first.
SmallFirstEpoch == [d1 |-> 1, d2 |-> 1]

SmallLastEpoch == [d1 |-> 2, d2 |-> 1]

Init ==
  /\ focus \in Focus
  /\ InitRails /\ InitIdentity /\ InitMigrator /\ InitOffline

Next ==
  /\ UNCHANGED focus
  /\ \/ focus = "rails" /\ RailsNext /\ UNCHANGED <<identityVars, migratorVars, offlineVars>>
     \/ focus = "identity" /\ IdentityNext /\ UNCHANGED <<railsVars, migratorVars, offlineVars>>
     \/ focus = "migrator" /\ MigratorNext /\ UNCHANGED <<railsVars, identityVars, offlineVars>>
     \/ focus = "offline" /\ OfflineNext /\ UNCHANGED <<railsVars, identityVars, migratorVars>>

Spec == Init /\ [][Next]_vars
=============================================================================
