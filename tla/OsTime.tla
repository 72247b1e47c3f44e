-------------------------------- MODULE OsTime --------------------------------
(***************************************************************************)
(* platform/os/os_time.c: timers that any task creates, restarts, cancels  *)
(* and destroys, and the task timeTask that runs their callbacks outside   *)
(* of the mutex.                                                           *)
(*                                                                         *)
(* A call is one step: it holds time_mutex from its first to its last      *)
(* access (os_time_create_entry takes it twice, and reads the id it        *)
(* returns when it has released it: three steps).  The clock stands still  *)
(* while the mutex is held.  Times are relative to now; how late a timer   *)
(* is makes no difference to the code, so that lateness stops at -1.       *)
(* Clients are the modules that keep the id of a timer: modem_event.c,     *)
(* modem_pppd.c, vty_stdio.c, v9_video_disk.c.                             *)
(***************************************************************************)
EXTENDS OsList

CONSTANTS
    Client,
    MaxDelay,       \* bound on msec
    Slow,           \* whether the clock moves while a callback runs
    Anonymous,      \* the clients that do not keep the id: nsm_arp.c, rtsp
    Canceller,      \* the clients that cancel: v9_video_disk.c, modem
    KeepCancelled   \* those that restart the timer they have cancelled: modem

ASSUME OsTimeAssumption ==
    /\ List = {"time", "unuse", "tmp"}
    /\ NULL \notin Client
    /\ MaxDelay \in Nat \ {0}
    /\ Slow \in BOOLEAN
    /\ Anonymous \subseteq Client
    /\ Canceller \subseteq Client /\ KeepCancelled \subseteq Canceller

VARIABLES
    lst,       \* time_list, time_unuse_list and os_time_task's tmplist
    timer,     \* the os_time_t structs
    alloc,     \* those that have been allocated
    alarms,    \* when POSIX timers that have been set will expire
    sem,       \* whether time_sem has been given
    pc,        \* where os_time_task is
    walk,      \* where its loops are, from node.next
    cur,       \* the timer whose callback it runs
    handle,    \* the id a client keeps
    got,       \* what os_time_get_node has returned to a client
    ret        \* the timer it has linked in, whose id it has still to read

vars == <<lst, timer, alloc, alarms, sem, pc, walk, cur, handle, got, ret>>
clientVars == <<alloc, handle, got, ret>>
taskVars == <<sem, pc, walk, cur>>

Delay == 1..MaxDelay

\* Nobody gives up the id of a periodic timer.
Types(c) == IF c \in Anonymous THEN {"ONCE"} ELSE {"DEFAULT", "ONCE"}

\* os_time_t
Struct == [t_id : Node \cup {NULL}, state : {"FALSE", "TRUE", "CANCEL"},
           lstid : {"NONE", "READY", "UNUSE"}, type : {"DEFAULT", "ONCE"},
           msec : 0..MaxDelay, due : -1..MaxDelay, pVoid : Client \cup {NULL}]

Blank == [t_id |-> NULL, state |-> "FALSE", lstid |-> "NONE", type |-> "DEFAULT",
          msec |-> 0, due |-> 0, pVoid |-> NULL]

\* The fields os_time_entry_create sets.
Entry(n, type, msec, c) ==
    [Blank EXCEPT !.t_id = n, !.type = type, !.msec = msec, !.pVoid = c]

\* Linked in, to be run in msec from now (os_time_interval_update).
Ready(t, msec) == [t EXCEPT !.msec = msec, !.due = msec, !.state = "TRUE", !.lstid = "READY"]

\* Withdrawn, but its id is still found.
Cancelled(t) == [t EXCEPT !.lstid = "UNUSE", !.state = "CANCEL", !.due = 0]

\* Before its callback runs, a one-shot timer gives up its id.
Called(t) ==
    IF t.type = "ONCE" THEN [t EXCEPT !.due = 0, !.state = "FALSE", !.t_id = NULL]
                       ELSE [t EXCEPT !.due = 0]

\* A struct that is to be used again; what nobody reads again is forgotten.
Unused == [Blank EXCEPT !.lstid = "UNUSE"]

Init ==
    /\ lst = EmptyLists
    /\ timer = [n \in Node |-> Blank]
    /\ alloc = {}
    /\ alarms = {} /\ sem = FALSE
    /\ pc = "wait" /\ walk = NULL /\ cur = NULL
    /\ handle = [c \in Client |-> NULL]
    /\ got = [c \in Client |-> NULL]
    /\ ret = [c \in Client |-> NULL]
-----------------------------------------------------------------------------
(* Helpers *)

\* timeTask holds the mutex.
Locked == pc \in {"collect", "run"}

Due(t) == [n \in Node |-> t[n].due]

\* os_time_lookup_raw; an id is the address of its timer.
Found(n) ==
    /\ n \in On(lst, "time") \cup On(lst, "unuse")
    /\ timer[n].t_id = n /\ timer[n].state # "FALSE"

\* Variant: the interval is signed and set as it is.
RefreshSigned(m, t) ==
    IF m.HEAD["time"] = NULL THEN {} ELSE {t[m.HEAD["time"]].due}

\* What os_time_interval_refresh sets: a timer for the head of the list.  The
\* difference is unsigned, so that a head that is late asks for 49 days.
Refresh(m, t) ==
    LET head == m.HEAD["time"]
        inter_time == t[head].due
    IN  IF head = NULL \/ inter_time < 0 THEN {}
        ELSE IF inter_time > 0 THEN {inter_time} ELSE {t[head].msec}

\* Each setting is a POSIX timer of its own: those set before stay.
SetAlarm(m, t) == alarms' = alarms \cup Refresh(m, t)

\* The task of a client is not in the middle of os_time_create_entry.
Idle(c) == got[c] = NULL /\ ret[c] = NULL

\* Out of time_list and into the unused ones.
ToUnuse(m, n) ==
    IF timer[n].lstid = "READY" THEN lstAdd(lstDelete(m, "time", n), "unuse", n) ELSE m
-----------------------------------------------------------------------------
(* Clients: any task, a callback's included, whenever the mutex is free *)

\* Variant: an unused struct is taken whatever its state and left in its list.
os_time_get_node_keeps(c, type, msec) ==
    /\ ~Locked /\ Idle(c) /\ (handle[c] # NULL => ~Found(handle[c]))
    /\ LET u == Chain(lst, "unuse")
       IN  \E n \in IF u # <<>> THEN {u[1]} ELSE Node \ alloc :
              /\ UNCHANGED lst
              /\ timer' = [timer EXCEPT ![n] = Entry(n, type, msec, c)]
              /\ alloc' = alloc \cup {n}
              /\ got' = [got EXCEPT ![c] = n]
    /\ UNCHANGED <<alarms, handle, ret>> /\ UNCHANGED taskVars

\* os_time_get_node and the fields that are set before anyone can see them.  The
\* search for an unused struct ends with the last one, a cancelled timer, when
\* there is none.  A client creates a timer when it has no id or its id is not
\* found.
os_time_get_node(c, type, msec) ==
    /\ ~Locked /\ Idle(c) /\ (handle[c] # NULL => ~Found(handle[c]))
    /\ LET u == Chain(lst, "unuse")
           Free == {i \in DOMAIN u : timer[u[i]].state = "FALSE"}
           first == CHOOSE i \in Free : \A j \in Free : i <= j
       IN  \E n \in IF u # <<>> THEN {u[IF Free # {} THEN first ELSE Len(u)]}
                                ELSE Node \ alloc :
              /\ lst' = LET m == IF u # <<>> THEN lstDelete(lst, "unuse", n) ELSE lst
                        IN  [m EXCEPT !.next[n] = NULL, !.previous[n] = NULL]
              /\ timer' = [timer EXCEPT ![n] = Entry(n, type, msec, c)]
              /\ alloc' = alloc \cup {n}
              /\ got' = [got EXCEPT ![c] = n]
    /\ UNCHANGED <<alarms, handle, ret>> /\ UNCHANGED taskVars

Activate(m, n, msec) ==
    /\ timer' = [timer EXCEPT ![n] = Ready(@, msec)]
    /\ lst' = lstAddSort(m, "time", n, Due(timer'))
    /\ SetAlarm(lst', timer')

\* The rest of os_time_create_entry, up to the unlock.
os_time_create_entry(c) ==
    /\ ~Locked /\ got[c] # NULL
    /\ Activate(lst, got[c], timer[got[c]].msec)
    /\ got' = [got EXCEPT ![c] = NULL]
    /\ ret' = [ret EXCEPT ![c] = IF c \in Anonymous THEN NULL ELSE got[c]]
    /\ UNCHANGED <<alloc, handle>> /\ UNCHANGED taskVars

\* It reads t_id and its client keeps it.  The timer may have run by now.
create_returns(c) ==
    /\ ret[c] # NULL
    /\ handle' = [handle EXCEPT ![c] = timer[ret[c]].t_id]
    /\ ret' = [ret EXCEPT ![c] = NULL]
    /\ UNCHANGED <<lst, timer, alloc, alarms, got>> /\ UNCHANGED taskVars

\* When the timer is not found the client forgets its id all the same.  A timer
\* that timeTask has collected is not found: it runs, and a periodic one stays.
os_time_destroy(c) ==
    /\ ~Locked /\ handle[c] # NULL
    /\ LET n == handle[c]
       IN  IF Found(n)
           THEN /\ lst' = ToUnuse(lst, n)
                /\ timer' = [timer EXCEPT ![n] = Unused]
                /\ SetAlarm(lst', timer')
           ELSE UNCHANGED <<lst, timer, alarms>>
    /\ handle' = [handle EXCEPT ![c] = NULL]
    /\ UNCHANGED <<alloc, got, ret>> /\ UNCHANGED taskVars

\* The client forgets the id, or keeps it to restart the timer.
os_time_cancel(c) ==
    /\ ~Locked /\ c \in Canceller /\ Idle(c) /\ handle[c] # NULL
    /\ LET n == handle[c]
       IN  IF Found(n)
           THEN /\ lst' = ToUnuse(lst, n)
                /\ timer' = [timer EXCEPT ![n] = Cancelled(@)]
                /\ SetAlarm(lst', timer')
           ELSE UNCHANGED <<lst, timer, alarms>>
    /\ handle' = [handle EXCEPT ![c] = IF c \in KeepCancelled THEN @ ELSE NULL]
    /\ UNCHANGED <<alloc, got, ret>> /\ UNCHANGED taskVars

\* Variant: no new POSIX timer is set.
os_time_restart_silent(c, msec) ==
    /\ ~Locked /\ handle[c] # NULL /\ Found(handle[c])
    /\ LET n == handle[c]
       IN  /\ timer' = [timer EXCEPT ![n] = Ready(@, msec)]
           /\ lst' = lstAddSort(IF timer[n].lstid = "READY"
                                THEN lstDelete(lst, "time", n) ELSE lst,
                                "time", n, Due(timer'))
    /\ UNCHANGED alarms /\ UNCHANGED clientVars /\ UNCHANGED taskVars

\* A timer of time_list is unlinked first, one of time_unuse_list is not.
os_time_restart(c, msec) ==
    /\ ~Locked /\ handle[c] # NULL /\ Found(handle[c])
    /\ LET n == handle[c]
       IN  Activate(IF timer[n].lstid = "READY" THEN lstDelete(lst, "time", n) ELSE lst,
                    n, msec)
    /\ UNCHANGED clientVars /\ UNCHANGED taskVars
-----------------------------------------------------------------------------
(* timeTask *)

\* os_sem_take: the semaphore has been given, or a signal ends the wait.
TakeSem ==
    /\ pc = "wait" /\ sem
    /\ sem' = FALSE /\ pc' = "woken"
    /\ UNCHANGED <<lst, timer, alarms, walk, cur>> /\ UNCHANGED clientVars

Interrupted ==
    /\ pc = "wait"
    /\ pc' = "woken"
    /\ UNCHANGED <<lst, timer, alarms, sem, walk, cur>> /\ UNCHANGED clientVars

\* Variant: a timer is run a tick too early.
IsDueEarly(n) == timer[n].state = "TRUE" /\ timer[n].due <= 1

IsDue(n) == timer[n].state = "TRUE" /\ timer[n].due <= 0

\* The first loop: what is due goes to tmplist.
Collect ==
    /\ pc = "woken"
    /\ walk' = lst.HEAD["time"]
    /\ pc' = "collect"
    /\ UNCHANGED <<lst, timer, alarms, sem, cur>> /\ UNCHANGED clientVars

CollectNext ==
    /\ pc = "collect" /\ walk # NULL
    /\ lst' = IF IsDue(walk) THEN lstAdd(lstDelete(lst, "time", walk), "tmp", walk) ELSE lst
    /\ walk' = lst.next[walk]
    /\ UNCHANGED <<timer, alarms, sem, pc, cur>> /\ UNCHANGED clientVars

CollectEnd ==
    /\ pc = "collect" /\ walk = NULL
    /\ walk' = lst.HEAD["tmp"]
    /\ pc' = "run"
    /\ UNCHANGED <<lst, timer, alarms, sem, cur>> /\ UNCHANGED clientVars

\* The second loop: the next timer leaves tmplist and the mutex is released for
\* its callback.  Nobody finds a timer of tmplist, so its state is still TRUE.
RunTimer ==
    /\ pc = "run" /\ walk # NULL /\ timer[walk].state = "TRUE"
    /\ lst' = lstDelete(lst, "tmp", walk)
    /\ timer' = [timer EXCEPT ![walk] = Called(@)]
    /\ walk' = lst.next[walk] /\ cur' = walk
    /\ pc' = "call"
    /\ UNCHANGED <<alarms, sem>> /\ UNCHANGED clientVars

\* In the callback of its one-shot timer a client may forget the id it has
\* (modem_event.c and modem_pppd.c when something is pending) or keep it, which
\* then names no timer or another's (vty_stdio.c).
Callback ==
    /\ pc = "call"
    /\ \/ UNCHANGED handle
       \/ /\ timer[cur].type = "ONCE"
          /\ handle' = [handle EXCEPT ![timer[cur].pVoid] = NULL]
    /\ pc' = "called"
    /\ UNCHANGED <<lst, timer, alloc, alarms, sem, walk, cur, got, ret>>

\* Variant: a one-shot timer is left in no list.
CallbackReturnsLost ==
    /\ pc = "called"
    /\ IF timer[cur].type = "ONCE"
       THEN /\ lst' = lst
            /\ timer' = [timer EXCEPT ![cur] = Unused]
       ELSE /\ timer' = [timer EXCEPT ![cur].due = timer[cur].msec]
            /\ lst' = lstAddSort(lst, "time", cur, Due(timer'))
    /\ cur' = NULL /\ pc' = "run"
    /\ UNCHANGED <<alarms, sem, walk>> /\ UNCHANGED clientVars

CallbackReturns ==
    /\ pc = "called"
    /\ IF timer[cur].type = "ONCE"
       THEN /\ lst' = lstAdd(lst, "unuse", cur)
            /\ timer' = [timer EXCEPT ![cur] = Unused]
       ELSE /\ timer' = [timer EXCEPT ![cur].due = timer[cur].msec]
            /\ lst' = lstAddSort(lst, "time", cur, Due(timer'))
    /\ cur' = NULL /\ pc' = "run"
    /\ UNCHANGED <<alarms, sem, walk>> /\ UNCHANGED clientVars

\* Variant: the head of the list gets no POSIX timer.
EndLoopSilent ==
    /\ pc = "run" /\ walk = NULL
    /\ pc' = "wait"
    /\ UNCHANGED <<lst, timer, alarms, sem, walk, cur>> /\ UNCHANGED clientVars

EndLoop ==
    /\ pc = "run" /\ walk = NULL
    /\ SetAlarm(lst, timer)
    /\ pc' = "wait"
    /\ UNCHANGED <<lst, timer, sem, walk, cur>> /\ UNCHANGED clientVars

task ==
    \/ TakeSem
    \/ Collect \/ CollectNext \/ CollectEnd
    \/ RunTimer \/ Callback \/ CallbackReturns
    \/ EndLoop
-----------------------------------------------------------------------------
\* A millisecond passes.  SIGUSR2 from POSIX timers that expire makes
\* os_time_interrupt give the semaphore.
Tick ==
    /\ ~Locked /\ (pc \in {"call", "called"} => Slow)
    /\ LET waiting == On(lst, "time") \cup On(lst, "tmp")
       IN  timer' = [n \in Node |-> IF n \in waiting /\ timer[n].due > -1
                                    THEN [timer[n] EXCEPT !.due = @ - 1] ELSE timer[n]]
    /\ alarms' = {a - 1 : a \in alarms \ {1}}
    /\ sem' = (sem \/ 1 \in alarms)
    /\ UNCHANGED <<lst, pc, walk, cur>> /\ UNCHANGED clientVars

Next ==
    \/ \E c \in Client, msec \in Delay : \E type \in Types(c) : os_time_get_node(c, type, msec)
    \/ \E c \in Client : os_time_create_entry(c) \/ create_returns(c)
    \/ \E c \in Client : os_time_destroy(c) \/ os_time_cancel(c)
    \/ \E c \in Client, msec \in Delay : os_time_restart(c, msec)
    \/ task
    \/ Interrupted
    \/ Tick

Spec == Init /\ [][Next]_vars

\* timeTask runs whenever it can.
FairSpec == Spec /\ WF_vars(task)
-----------------------------------------------------------------------------
(* Properties *)

TypeOK ==
    /\ lst \in Memory
    /\ timer \in [Node -> Struct]
    /\ alloc \subseteq Node
    /\ alarms \subseteq Delay /\ sem \in BOOLEAN
    /\ pc \in {"wait", "woken", "collect", "run", "call", "called"}
    /\ walk \in Node \cup {NULL} /\ cur \in Node \cup {NULL}
    /\ handle \in [Client -> Node \cup {NULL}]
    /\ got \in [Client -> Node \cup {NULL}] /\ ret \in [Client -> Node \cup {NULL}]

\* The three lists are lists, with the first and last node and the count that
\* their descriptors tell (the description in os_list.c).
ListsWellFormed == \A L \in List : WellFormed(lst, L)

\* Every struct that has been allocated is in exactly one place: a list, the
\* running callback or an unfinished create; and lstid, by which a timer is
\* unlinked, tells which list it is.
OnePlace ==
    LET on == [L \in List |-> On(lst, L)]
        Places(n) == ({"on"} \X {L \in List : n \in on[L]})
                        \cup ({"got"} \X {c \in Client : got[c] = n})
                        \cup (IF cur = n THEN {<<"cur", n>>} ELSE {})
    IN  \A n \in Node :
            /\ Cardinality(Places(n)) = (IF n \in alloc THEN 1 ELSE 0)
            /\ n \in on["time"] => timer[n].lstid = "READY" /\ timer[n].state = "TRUE"
            /\ n \in on["unuse"] => timer[n].lstid = "UNUSE" /\ timer[n].state # "TRUE"

\* While timeTask waits and the semaphore has not been given, a POSIX timer is
\* set for the first timer of the list.  A callback may have been so slow that
\* the first timer is late when timeTask comes to wait: then none is set for it,
\* and it runs with the next one that wakes timeTask.
NoLostWakeup ==
    LET head == lst.HEAD["time"]
    IN  pc = "wait" /\ ~sem /\ head # NULL /\ (Slow => timer[head].due > 0)
            => timer[head].due \in alarms

\* A timer never runs early, after it has been stopped in time, or twice for one
\* arming, and periodic timers are armed again after each run.  A stop is in
\* time until timeTask has moved the timer to tmplist.
Waiting == On(lst, "time") \cup On(lst, "tmp")
Clock == INSTANCE AlarmClock WITH
    Timer <- Node, NONE <- NULL, running <- cur,
    left <- [n \in On(lst, "time") |-> IF timer[n].due < 0 THEN 0 ELSE timer[n].due],
    collected <- On(lst, "tmp"),
    periodic <- LET active == Waiting \cup ({cur} \ {NULL})
                IN  {n \in active : timer[n].type = "DEFAULT"}

ImplementsAlarmClock == Clock!ClockSpec

\* A timer whose time has come runs, unless it is stopped or restarted.
DueTimersRun ==
    \A n \in Node :
        (n \in Waiting /\ timer[n].due <= 0)
            ~> (cur = n \/ n \notin Waiting \/ timer[n].due > 0)
===============================================================================
