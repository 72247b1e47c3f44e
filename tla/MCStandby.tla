------------------------------- MODULE MCStandby -------------------------------
(* Instances of Standby for TLC. *)
EXTENDS Standby
===============================================================================
