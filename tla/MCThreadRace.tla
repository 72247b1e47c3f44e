----------------------------- MODULE MCThreadRace -----------------------------
(* Instance of ThreadRace for TLC. *)
EXTENDS ThreadRace
AllTypes == Pending
===============================================================================
