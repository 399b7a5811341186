------------------------------- MODULE MCSaga -------------------------------
(* A saga whose last step and another one are remote, and whose last step   *)
(* has no compensation, driven by two coordinators.                         *)
EXTENDS Saga

CONSTANTS a, b

MCCoordinators == {a, b}
=============================================================================
