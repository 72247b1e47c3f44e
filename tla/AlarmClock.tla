------------------------------ MODULE AlarmClock ------------------------------
(***************************************************************************)
(* What platform/os/os_time.c promises its users: a timer runs when its    *)
(* time has come and not before, timers run one at a time, a one-shot      *)
(* timer runs once per arming, and a periodic one is armed again when its  *)
(* callback has returned.  One that is stopped while it is armed does not  *)
(* run.  Once it has been collected it is too late: it runs whatever its   *)
(* user has been told, and if it is periodic it is armed again.            *)
(***************************************************************************)
EXTENDS Naturals

CONSTANTS Timer, Delay, NONE

VARIABLES left,      \* of each armed timer, how long it has still to wait
          collected, \* those whose time has come and that are about to run
          periodic,  \* the periodic ones of those that are armed or about to
                     \* run or running
          running    \* the timer whose callback runs

clockVars == <<left, collected, periodic, running>>

Armed == DOMAIN left
Set(n, d) == [m \in Armed \cup {n} |-> IF m = n THEN d ELSE left[m]]
Without(n) == [m \in Armed \ {n} |-> left[m]]

ClockInit ==
    /\ left = [n \in {} |-> 0]
    /\ collected = {} /\ periodic = {}
    /\ running = NONE

\* A timer is started, as a one-shot or a periodic one.
Start(n, d) ==
    /\ n \notin Armed \cup collected \cup {running}
    /\ left' = Set(n, d)
    /\ periodic' \in {periodic, periodic \cup {n}}
    /\ UNCHANGED <<collected, running>>

\* One that is armed has to wait for another time.
Restart(n, d) ==
    /\ n \in Armed
    /\ left' = Set(n, d)
    /\ UNCHANGED <<collected, periodic, running>>

Stop(n) ==
    /\ n \in Armed
    /\ left' = Without(n) /\ periodic' = periodic \ {n}
    /\ UNCHANGED <<collected, running>>

\* The time of a timer has come.  From here on nobody can stop it.
Collect(n) ==
    /\ n \in Armed /\ left[n] = 0
    /\ left' = Without(n) /\ collected' = collected \cup {n}
    /\ UNCHANGED <<periodic, running>>

Fire(n) ==
    /\ running = NONE
    /\ n \in collected
    /\ collected' = collected \ {n} /\ running' = n
    /\ UNCHANGED <<left, periodic>>

Return ==
    /\ running # NONE /\ running' = NONE
    /\ IF running \in periodic
       THEN \E d \in Delay : left' = Set(running, d)
       ELSE UNCHANGED left
    /\ UNCHANGED <<collected, periodic>>

Pass ==
    /\ left' = [n \in Armed |-> IF left[n] = 0 THEN 0 ELSE left[n] - 1]
    /\ UNCHANGED <<collected, periodic, running>>

ClockNext ==
    \/ \E n \in Timer, d \in Delay : Start(n, d) \/ Restart(n, d)
    \/ \E n \in Timer : Stop(n) \/ Collect(n) \/ Fire(n)
    \/ Return
    \/ Pass

ClockSpec == ClockInit /\ [][ClockNext]_clockVars
===============================================================================
