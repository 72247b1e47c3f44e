------------------------------- MODULE MCHalIpc --------------------------------
(* Instances of HalIpc for TLC. *)
EXTENDS HalIpc
===============================================================================
