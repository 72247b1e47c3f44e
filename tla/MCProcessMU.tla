------------------------------ MODULE MCProcessMU ------------------------------
(* Instances of ProcessMU for TLC. *)
EXTENDS ProcessMU, TLC

\* Nothing in the server tells tasks, pids or programs whose arguments fit apart
\* (safety runs only).
Symmetry == Permutations(Task) \cup Permutations(Pid) \cup Permutations(Name \ TooLong)
===============================================================================
