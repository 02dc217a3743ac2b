------------------------------ MODULE MCBroker ------------------------------
(* Broker for TLC.  The constants of the run are sets of model values, and *)
(* the run checks liveness, so there is no symmetry.                       *)
EXTENDS Broker, TLC
=============================================================================
