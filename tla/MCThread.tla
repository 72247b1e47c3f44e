------------------------------- MODULE MCThread -------------------------------
(* Instances of Thread for TLC. *)
EXTENDS Thread, TLC

\* Structs are interchangeable, and so are clients (safety runs only).
Symmetry == Permutations(Thread) \cup Permutations(Client)

AllTypes == Pending
\* Kinds of thread in the liveness run: without thread_add_ready, which no
\* module calls, the ready list always drains.
NoReady == Pending \ {"READY"}
===============================================================================
