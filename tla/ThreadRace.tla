------------------------------ MODULE ThreadRace ------------------------------
(***************************************************************************)
(* The event loop when a second task uses THREAD_OFF on a handle of a      *)
(* client of the loop.  The shell task does: it forwards a command with    *)
(* ipcstandby_execue_clicmd (vty.c), and when the write fails              *)
(* ipcstandby_client_failed cancels the threads of the standby client,     *)
(* whose callbacks run in standbyTask.                                     *)
(***************************************************************************)
EXTENDS Thread

VARIABLE held   \* the client and thread the other task is cancelling, or NULL

raceVars == <<vars, held>>

RaceInit == Init /\ held = NULL

\* THREAD_OFF: "if (thread)" and the argument of thread_cancel are read ...
OtherOffRead(c) ==
    /\ held = NULL
    /\ handle[c] # NULL
    /\ held' = [client |-> c, thread |-> handle[c]]
    /\ UNCHANGED vars

\* ... thread_cancel takes the mutex, and the handle is cleared.
OtherOffCancel ==
    /\ held # NULL
    /\ ~Locked /\ pc # "freed"
    /\ thread_cancel(held.thread)
    /\ handle' = [handle EXCEPT ![held.client] = NULL]
    /\ held' = NULL
    /\ UNCHANGED <<bquit, sel, pc, cur>>

RaceNext ==
    \/ Next /\ held' = held
    \/ \E c \in Client : OtherOffRead(c)
    \/ OtherOffCancel

RaceSpec == RaceInit /\ [][RaceNext]_raceVars
===============================================================================
