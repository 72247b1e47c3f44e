------------------------------- MODULE ProcessMU -------------------------------
(***************************************************************************)
(* tools/process (ProcessMU), the program that starts, stops and restarts  *)
(* pppd, dhcpc, quectel-CM and the like, and its client stub               *)
(* platform/os/os_process.c.                                               *)
(*                                                                         *)
(* The tasks of the application share one connection without a lock: each  *)
(* writes its request and takes the next answer that arrives, or gives up  *)
(* after 5 seconds and leaves its answer behind.  The server handles one   *)
(* request after the other; in the middle of starting a program it sleeps  *)
(* for a second (job), while the programs go on.  A fork whose execvp      *)
(* fails returns into the same code: this twin of the server has a copy of *)
(* its table and shares the connection.                                    *)
(*                                                                         *)
(* process_waitpid_api, which would restart programs that died, is left    *)
(* out: main calls it when os_select_wait returns 0, which it never does.  *)
(* fork always succeeds.                                                   *)
(***************************************************************************)
EXTENDS Naturals, Sequences, FiniteSets

CONSTANTS Task,      \* tasks of the application
          Name,      \* names of programs
          Pid,       \* process ids, reused when free
          Main,      \* the server that was started first
          Broken,    \* programs that execvp does not find
          TooLong,   \* programs with more arguments than process_t.argv has places
          MaxId,     \* bound on main_process_id, counted from 1
          MaxLate,   \* bound on the requests given up
          NONE

ASSUME ProcessAssumption ==
    /\ NONE \notin Name \cup Pid /\ Main \notin Pid /\ 0 \notin Pid
    /\ Broken \subseteq Name /\ TooLong \subseteq Name
    /\ MaxId \in Nat /\ MaxLate \in Nat

Server == {Main} \cup Pid
Action == {"START", "STOP", "RESTART", "LOOKUP", "DEAMON"}
\* A request names a process, or carries the id that START answered.
Request == [action : Action, name : Name \cup {NONE}, id : 0..MaxId]
Named == {r \in Request : r.name # NONE /\ r.id = 0}
ById == {r \in Request : r.name = NONE /\ r.id # 0 /\ r.action # "DEAMON"}

VARIABLES
    table,    \* gProcessMain.list of each server
    lastid,   \* main_process_id of each server
    job,      \* the request a server is asleep in, the process it has forked
    exited,   \* Main has been told to stop
    kid,      \* what each pid stands for
    req,      \* requests written to the connection
    rep,      \* answers written to the connection
    waiting,  \* tasks that wait for an answer
    late,     \* number of requests that were given up
    lost      \* number of requests the server has dropped without an answer

serverVars == <<table, lastid, job, exited, kid>>
vars == <<table, lastid, job, exited, kid, req, rep, waiting, late, lost>>

FreePid == [state |-> "free", name |-> NONE, parent |-> NONE]

\* "twin": runs the server's own code.
State == {"free", "alive", "zombie", "twin"}
Entry == [name : Name, id : 1..MaxId, pid : Pid \cup {0}]
Job == [r : Request, pid : Pid \cup {0}]
Answer == [positive : BOOLEAN, exists : BOOLEAN]

ASSUME JobAssumption == NONE \notin Job

TypeOK ==
    /\ table \in [Server -> SUBSET Entry]
    /\ lastid \in [Server -> 0..MaxId]
    /\ job \in [Server -> Job \cup {NONE}]
    /\ exited \in BOOLEAN
    /\ kid \in [Pid -> [state : State, name : Name \cup {NONE},
                        parent : Server \cup {NONE}]]
    /\ req \in Seq(Request) /\ rep \in Seq(Answer)
    /\ waiting \subseteq Task
    /\ late \in 0..MaxLate /\ lost \in Nat

Init ==
    /\ table = [s \in Server |-> {}]
    /\ lastid = [s \in Server |-> 0]
    /\ job = [s \in Server |-> NONE]
    /\ exited = FALSE
    /\ kid = [p \in Pid |-> FreePid]
    /\ req = <<>> /\ rep = <<>>
    /\ waiting = {}
    /\ late = 0 /\ lost = 0

-----------------------------------------------------------------------------
(* The client stub *)

\* Bound: as many requests to start a program as there are ids.
IdsLeft == lastid[Main] + Len(SelectSeq(req, LAMBDA r : r.action = "START"))
             + (IF job[Main] # NONE THEN 1 ELSE 0) < MaxId

\* os_process_register and os_process_action, up to the select
Send(t) ==
    /\ t \notin waiting /\ ~exited
    /\ \E r \in Named \cup ById : /\ r.action = "START" => IdsLeft
                                 /\ req' = Append(req, r)
    /\ waiting' = waiting \cup {t}
    /\ UNCHANGED <<serverVars, rep, late, lost>>

\* ... the next four bytes on the connection are the answer
Receive(t) ==
    /\ t \in waiting
    /\ rep # <<>>
    /\ rep' = Tail(rep)
    /\ waiting' = waiting \ {t}
    /\ UNCHANGED <<serverVars, req, late, lost>>

\* ... os_select_wait returns OS_TIMEOUT
GiveUp(t) ==
    /\ t \in waiting
    /\ late < MaxLate
    /\ late' = late + 1
    /\ waiting' = waiting \ {t}
    /\ UNCHANGED <<serverVars, req, rep, lost>>

-----------------------------------------------------------------------------
(* Processes *)

\* child_process_kill by server s of each of ps: SIGKILL, and the waitpid that
\* reaps a child of s; init reaps those whose parent is gone.  Nothing happens
\* to a pid that is not in use.
Killed(k, s, ps) ==
    [q \in Pid |->
       CASE k[q].state = "free" -> FreePid
         [] q \in ps /\ k[q].parent \in ps \cup {s, NONE} -> FreePid
         [] q \in ps /\ k[q].parent \notin ps \cup {s, NONE} -> [k[q] EXCEPT !.state = "zombie"]
         [] q \notin ps /\ k[q].parent \in ps ->
              IF k[q].state = "zombie" THEN FreePid ELSE [k[q] EXCEPT !.parent = NONE]
         [] OTHER -> k[q]]

\* waitpid(p, NULL, WNOHANG) > 0
Reapable(s, p) == p \in Pid /\ kid[p].state = "zombie" /\ kid[p].parent = s

\* A program ends by itself.
Exit(p) ==
    /\ kid[p].state = "alive"
    /\ kid' = [kid EXCEPT ![p] = IF @.parent = NONE THEN FreePid
                                 ELSE [@ EXCEPT !.state = "zombie"]]
    /\ UNCHANGED <<table, lastid, job, exited, req, rep, waiting, late, lost>>

Exists(k, n) == \E p \in Pid : k[p].name = n /\ k[p].state \in {"alive", "zombie"}

-----------------------------------------------------------------------------
(* process_handle *)

Running == {m \in {Main} : ~exited} \cup {p \in Pid : kid[p].state = "twin"}

\* The next request.
NextRequest == IF req = <<>> THEN {} ELSE {Head(req)}

\* The server reads it.
Takes(s, r) ==
    /\ job[s] = NONE
    /\ req' = Tail(req)
    /\ UNCHANGED <<waiting, late, exited>>

\* process_lookup_api, process_lookup_id_api
Lookup(s, r) == {e \in table[s] : IF r.name # NONE THEN e.name = r.name ELSE e.id = r.id}

\* The name a request is about, as far as server s knows.
NameOf(s, r) == IF Lookup(s, r) = {} THEN r.name ELSE (CHOOSE e \in Lookup(s, r) : TRUE).name

\* os_process_action_respone: an id, which is positive, or 0.  The model notes
\* with the answer to START and RESTART whether the process exists by now.
Respond(s, r, v) ==
    rep' = Append(rep, [positive |-> v > 0,
                        exists |-> r.action \in {"START", "RESTART"} =>
                                     Exists(kid', NameOf(s, r))])

\* Variant: the id is read before the counter is moved on.
process_alloc_id_post(s) == lastid[s]

\* Variant: ids are the places in the list.
process_alloc_id_place(s) == Cardinality(table[s]) + 1

process_alloc_id(s) == lastid[s] + 1

HandleLookup(s, r) ==
    /\ Takes(s, r) /\ r.action = "LOOKUP"
    /\ UNCHANGED <<table, lastid, job, kid, lost>>
    /\ \/ Lookup(s, r) = {} /\ Respond(s, r, 0)
       \/ \E e \in Lookup(s, r) : Respond(s, r, e.id)

\* Variant: no answer when there is nothing to do.
HandleUnknownSilent(s, r) ==
    /\ Takes(s, r)
    /\ \/ r.action \in {"STOP", "RESTART"}
       \/ r.action = "START" /\ r.name = NONE
    /\ Lookup(s, r) = {}
    /\ UNCHANGED <<table, lastid, job, kid, rep, lost>>

\* There is nothing to stop or to restart, or no name to start it with.
HandleUnknown(s, r) ==
    /\ Takes(s, r)
    /\ \/ r.action \in {"STOP", "RESTART"}
       \/ r.action = "START" /\ r.name = NONE
    /\ Lookup(s, r) = {}
    /\ UNCHANGED <<table, lastid, job, kid, lost>>
    /\ Respond(s, r, 0)

\* Variant: the entry is deleted and its process goes on.
HandleStopNoKill(s, r) ==
    \E e \in Lookup(s, r) :
        /\ Takes(s, r) /\ r.action = "STOP"
        /\ table' = [table EXCEPT ![s] = @ \ {e}]
        /\ kid' = kid
        /\ Respond(s, r, e.id)
        /\ UNCHANGED <<lastid, job, lost>>

HandleStop(s, r) ==
    \E e \in Lookup(s, r) :
        /\ Takes(s, r) /\ r.action = "STOP"
        /\ kid' = IF e.pid # 0 THEN Killed(kid, s, {e.pid}) ELSE kid
        /\ table' = [table EXCEPT ![s] = @ \ {e}]
        /\ Respond(s, r, IF e.pid # 0 THEN e.id ELSE 0)
        /\ UNCHANGED <<lastid, job, lost>>

\* Variant: no answer when the process is already started.
HandleStartAgainSilent(s, r) ==
    \E e \in Lookup(s, r) :
        /\ Takes(s, r) /\ r.action = "START" /\ e.pid # 0
        /\ kid' = IF Reapable(s, e.pid) THEN [kid EXCEPT ![e.pid] = FreePid] ELSE kid
        /\ UNCHANGED <<table, lastid, job, rep, lost>>

\* START of what is in the table with a pid: "is already start".  The process
\* may be dead, and this is where it is reaped.
HandleStartAgain(s, r) ==
    \E e \in Lookup(s, r) :
        /\ Takes(s, r) /\ r.action = "START" /\ e.pid # 0
        /\ kid' = IF Reapable(s, e.pid) THEN [kid EXCEPT ![e.pid] = FreePid] ELSE kid
        /\ Respond(s, r, IF Reapable(s, e.pid) THEN 0 ELSE e.id)
        /\ UNCHANGED <<table, lastid, job, lost>>

\* fork and execvp, with k the processes and tab the table of s at that time.
\* The child of a broken program goes on where the server is, with pid 0.
Fork(s, r, k, tab) ==
    LET n == NameOf(s, r)
    IN  \E p \in {q \in Pid : k[q].state = "free"} :
          /\ kid' = [k EXCEPT ![p] = [state |-> IF n \in Broken THEN "twin" ELSE "alive",
                                      name |-> n, parent |-> s]]
          /\ table' = [table EXCEPT ![s] = tab, ![p] = IF n \in Broken THEN tab ELSE {}]
          /\ lastid' = [lastid EXCEPT ![p] = IF n \in Broken THEN lastid[s] ELSE 0]
          /\ job' = [job EXCEPT ![s] = [r |-> r, pid |-> p],
                                ![p] = IF n \in Broken THEN [r |-> r, pid |-> 0] ELSE NONE]

HandleStart(s, r) ==
    /\ Takes(s, r) /\ r.action = "START"
    /\ IF Lookup(s, r) = {} THEN r.name \in Name \ TooLong /\ lastid[s] < MaxId
                            ELSE \E e \in Lookup(s, r) : e.pid = 0
    /\ Fork(s, r, kid, table[s])
    /\ UNCHANGED <<rep, lost>>

\* START of a new program, or DEAMON: process_get refuses more arguments than
\* it has room for, and nobody answers.
HandleNoRoom(s, r) ==
    /\ Takes(s, r) /\ r.name \in TooLong
    /\ r.action = "DEAMON" \/ (r.action = "START" /\ Lookup(s, r) = {})
    /\ lost' = lost + 1
    /\ UNCHANGED <<table, lastid, job, kid, rep>>

\* Variant: restarted without being stopped.
HandleRestartNoStop(s, r) ==
    \E e \in Lookup(s, r) :
        /\ Takes(s, r) /\ r.action = "RESTART"
        /\ Fork(s, r, kid, table[s])
        /\ UNCHANGED <<rep, lost>>

\* process_restart, and process_start when there is no pid.
HandleRestart(s, r) ==
    \E e \in Lookup(s, r) :
        /\ Takes(s, r) /\ r.action = "RESTART"
        /\ Fork(s, r, IF e.pid # 0 THEN Killed(kid, s, {e.pid}) ELSE kid,
                (table[s] \ {e}) \cup {[e EXCEPT !.pid = 0]})
        /\ UNCHANGED <<rep, lost>>

\* process_deamon_start: system() runs a program that puts itself into the
\* background.
HandleDeamon(s, r) ==
    /\ Takes(s, r) /\ r.action = "DEAMON" /\ r.name \notin TooLong
    /\ UNCHANGED <<table, lastid, job, kid, lost>>
    /\ Respond(s, r, 1)

\* The rest of START and RESTART, after sleep(1).
FinishStart(s) ==
    /\ job[s] # NONE
    /\ job' = [job EXCEPT ![s] = NONE]
    /\ LET r == job[s].r
           p == job[s].pid
           reaped == Reapable(s, p)
       IN  /\ kid' = IF reaped THEN [kid EXCEPT ![p] = FreePid] ELSE kid
           /\ \/ /\ Lookup(s, r) = {}
                 /\ p = 0 \/ reaped
                 /\ Respond(s, r, 0)
                 /\ UNCHANGED <<table, lastid>>
              \/ /\ Lookup(s, r) = {}
                 /\ p # 0 /\ ~reaped
                 /\ lastid' = [lastid EXCEPT ![s] = @ + 1]
                 /\ table' = [table EXCEPT ![s] = @ \cup
                                {[name |-> r.name, id |-> process_alloc_id(s), pid |-> p]}]
                 /\ Respond(s, r, process_alloc_id(s))
              \/ \E e \in Lookup(s, r) :
                    /\ table' = [table EXCEPT ![s] = (@ \ {e}) \cup {[e EXCEPT !.pid = p]}]
                    /\ Respond(s, r, IF reaped \/ (p = 0 /\ r.action = "RESTART")
                                     THEN 0 ELSE e.id)
                    /\ UNCHANGED lastid
    /\ UNCHANGED <<req, waiting, late, lost, exited>>

\* SIGINT, which main looks at between two requests: process_exit stops every
\* process in the table, and the connection is closed.
Quit ==
    /\ ~exited /\ job[Main] = NONE
    /\ exited' = TRUE
    /\ kid' = Killed(kid, Main, {Main} \cup {e.pid : e \in table[Main]})
    /\ table' = [table EXCEPT ![Main] = {}]
    /\ req' = <<>> /\ rep' = <<>> /\ waiting' = {} /\ late' = 0 /\ lost' = 0
    /\ UNCHANGED <<lastid, job>>

ServerStep(s) ==
    /\ s \in Running
    /\ \/ \E r \in NextRequest :
             \/ HandleLookup(s, r) \/ HandleUnknown(s, r) \/ HandleStop(s, r)
             \/ HandleStartAgain(s, r) \/ HandleStart(s, r) \/ HandleRestart(s, r)
             \/ HandleDeamon(s, r) \/ HandleNoRoom(s, r)
       \/ FinishStart(s)

Next ==
    \/ \E t \in Task : Send(t) \/ Receive(t) \/ GiveUp(t)
    \/ \E p \in Pid : Exit(p)
    \/ \E s \in Server : ServerStep(s)
    \/ Quit

Spec == Init /\ [][Next]_vars

\* The server runs, sleep(1) ends, and a task that waits on the connection is
\* woken at last by an answer nobody else has taken.
FairSpec ==
    /\ Spec
    /\ WF_vars(ServerStep(Main))
    /\ \A t \in Task : SF_vars(Receive(t))
-----------------------------------------------------------------------------
(* Properties *)

Alive(n) == {p \in Pid : kid[p].state = "alive" /\ kid[p].name = n}

\* Under one name at most one process is alive, even while a restart sleeps,
\* whatever dies in between and whose pid is used again.
OneProcess == \A n \in Name : Cardinality(Alive(n)) <= 1

\* Every live process is the one its entry in the table names, or the one that
\* is just being started: STOP and process_exit leave no process behind, and
\* nobody's STOP takes an entry whose process goes on.
NoOrphan ==
    \A n \in Name : \A p \in Alive(n) :
        \/ \E e \in table[Main] : e.name = n /\ e.pid = p
        \/ job[Main] # NONE /\ job[Main].pid = p /\ NameOf(Main, job[Main].r) = n

\* The connection owes one answer for each task that waits and each request given
\* up, less those of the requests process_get refused: no other path of
\* process_handle forgets its answer, none gives two, and a task that waits
\* when nothing is owed waits for what has been refused.
OneAnswer ==
    Len(req) + Cardinality({s \in Server : job[s] # NONE}) + Len(rep) + lost
        = Cardinality(waiting) + late

\* Ids in the table of Main stay with their names; new ones are higher than all.
KeepsIds ==
    \A f \in table'[Main] :
        \/ f.id > lastid[Main]
        \/ \E e \in table[Main] : e.id = f.id /\ e.name = f.name

\* The ids the tasks keep stay good: an id in the table stays with its program,
\* and none is given again, not even after its program was stopped.
IdsStable == [][KeepsIds]_vars

\* A task gets an answer, whatever the programs and the other tasks do, unless
\* process_get has refused somebody's arguments: nothing else keeps a task waiting.
Answered == \A t \in Task : t \in waiting ~> (t \notin waiting \/ lost > 0)

\* os_process.h: "0:  handle error, not exit", ">0: process id".  A positive
\* answer to START or RESTART is given only when there is such a process.
AnswerTruth == \A i \in DOMAIN rep : rep[i].positive => rep[i].exists
===============================================================================
