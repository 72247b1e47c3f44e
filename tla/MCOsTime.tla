------------------------------- MODULE MCOsTime -------------------------------
(* Instances of OsTime for TLC. *)
EXTENDS OsTime, TLC

Lists == {"time", "unuse", "tmp"}

\* Structs are interchangeable, and so are clients that
\* keep their ids (safety runs only).
Symmetry == Permutations(Node) \cup Permutations(Client \ Anonymous)
===============================================================================
