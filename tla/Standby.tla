-------------------------------- MODULE Standby --------------------------------
(***************************************************************************)
(* platform/ipcstandby: one host of an active/standby pair.  Its           *)
(* standbyTask keeps a connection to the other host, says hello on it      *)
(* every two seconds and changes the role of the host; the shell forwards  *)
(* commands on the same connection and is told to switch roles.  The other *)
(* host, its server included, may end and come back at any time.           *)
(*                                                                         *)
(* A handler is one step, up to the time where it waits for an answer:     *)
(* then the shell goes on.  The two tasks share the client without a lock. *)
(* What they put in obuf and read into ibuf at once is not known, nor what *)
(* a read returns: it may be any answer.  What the failure of a send or a  *)
(* read does in the shell, it may do while standbyTask uses the same       *)
(* handles.  Then the loop may cancel what it runs, or connect twice, and  *)
(* nothing more is said about standbyTask (Race; module ThreadRace has     *)
(* these steps one by one).  Timers are due at any time, but for the one   *)
(* that is named in client_connect.                                        *)
(***************************************************************************)
EXTENDS Naturals

CONSTANTS
    MaxTimers,     \* bound: the other host ends only with fewer hello timers
    MaxChanges,    \* bound on the change events that are scheduled
    NULL

ASSUME StandbyAssumption ==
    /\ MaxTimers \in Nat \ {0} /\ MaxChanges \in Nat \ {0}
    /\ NULL \notin {"connect", "connect_check", "connect_timeout", "client_timeout"}

VARIABLES
    client,    \* struct ipcstandby_client: its socket and handles
    sched,     \* how many threads of each function of the client are scheduled
    pc,        \* where standbyTask and the shell are
    peer,      \* whether the other host runs
    role,      \* active_standby of the host
    neg,       \* the client's ipcstanby: state, MS, master
    negtimer,  \* whether ipcstandby_negotiate_timeout is scheduled
    changes,   \* scheduled ipcstandby_negotiate_event_threads
    booting    \* whether start-up waits in ipcstandby_done

linkVars == <<client, sched, pc>>
roleVars == <<role, neg, negtimer, changes>>
vars == <<linkVars, peer, roleVars, booting>>

Func == {"connect", "connect_check", "connect_timeout", "client_timeout"}
Task == {"standbyTask", "shell"}

Init ==
    /\ client = [sock |-> "none", is_connect |-> FALSE,
                 t_connect |-> "connect", t_write |-> NULL, t_timeout |-> NULL]
    /\ sched = [f \in Func |-> IF f = "connect" THEN 1 ELSE 0]
    /\ pc = [t \in Task |-> "idle"]
    /\ peer \in BOOLEAN
    /\ role = "active"
    /\ neg = [state |-> "DOWN", MS |-> 0, master |-> 1]
    /\ negtimer = TRUE /\ changes = 0
    /\ booting = TRUE
-----------------------------------------------------------------------------
(* Helpers.  s is a sched, c a client. *)

Add(s, f) == [s EXCEPT ![f] = @ + 1]
Gone(s, f) == [s EXCEPT ![f] = @ - 1]

\* THREAD_OFF of a handle h, whose thread had better be scheduled.
Off(s, h) == IF h = NULL THEN s ELSE Gone(s, h)

\* ipcstandby_client_stop, the closing of the socket included.
StopSched(c, s) == Off(Off(Off(s, c.t_connect), c.t_write), c.t_timeout)

Stopped(c) == [c EXCEPT !.t_connect = NULL, !.t_write = NULL, !.t_timeout = NULL,
                        !.sock = "none", !.is_connect = FALSE]

\* Variant: no thread is scheduled after the stop.
FailedForGood(c, s) == StopSched(c, s)

\* ipcstandby_client_failed: stop, and ZPL_IPCMSG_CONNECT.
FailedSched(c, s) == Add(StopSched(c, s), "connect")
Failed(c) == [Stopped(c) EXCEPT !.t_connect = "connect"]

\* What standbyTask does when ipcstandby_client_hello_send has returned: a
\* handler that has been interrupted at p leaves with a hello timer.
Timed(c) == [c EXCEPT !.t_timeout = "client_timeout"]
Resumed(p, c) == IF p = "shell" \/ (p = "connect_check" /\ c.t_timeout # NULL)
                 THEN c ELSE Timed(c)
ResumedSched(p, c, s) == IF p = "shell" \/ (p = "connect_check" /\ c.t_timeout # NULL)
                         THEN s ELSE Add(s, "client_timeout")

\* Task t returns, from the handler p, with c and s.
Return(t, p, c, s) ==
    /\ client' = Resumed(p, c) /\ sched' = ResumedSched(p, c, s)
    /\ pc' = [pc EXCEPT ![t] = "idle"]

\* The same after a failure.
ReturnFailed(t, p, c, s) == Return(t, p, Failed(c), FailedSched(c, s))

\* ipcstandby_client_send_message up to its wait, in task t and handler p.
Send(t, p, c, s) ==
    \/ /\ ~c.is_connect
       /\ Return(t, p, c, s)
    \/ /\ c.is_connect                            \* it is written
       /\ client' = c /\ sched' = s
       /\ pc' = [pc EXCEPT ![t] = p]
    \/ /\ c.is_connect /\ c.sock = "reset"        \* or it is not
       /\ ReturnFailed(t, p, c, s)
-----------------------------------------------------------------------------
(* standbyTask: the client *)

Runs(f) == pc["standbyTask"] = "idle" /\ sched[f] > 0

\* Five seconds pass after the last failure, and a connection is given up after
\* five: no earlier connect_timeout is left.
client_connect ==
    /\ Runs("connect") /\ sched["connect_timeout"] = 0
    /\ LET c == [client EXCEPT !.t_connect = NULL]
           s == Gone(sched, "connect")
       IN  \/ /\ client' = [c EXCEPT !.sock = "connecting", !.t_write = "connect_check",
                                     !.t_timeout = "connect_timeout"]
              /\ sched' = Add(Add(s, "connect_check"), "connect_timeout")
           \/ client' = Failed(c) /\ sched' = FailedSched(c, s)
    /\ UNCHANGED <<pc, peer, roleVars, booting>>

\* Variant: it returns without trying again.
connect_check_gives_up ==
    /\ Runs("connect_check")
    /\ client' = [client EXCEPT !.t_write = NULL, !.t_timeout = NULL]
    /\ sched' = Off(Gone(sched, "connect_check"), client.t_timeout)
    /\ UNCHANGED <<pc, peer, roleVars, booting>>

\* The socket has an error, or select says that it is not writable.
connect_check_failed ==
    /\ Runs("connect_check")
    /\ LET c == [client EXCEPT !.t_write = NULL]
           s == Gone(sched, "connect_check")
           off == [c EXCEPT !.t_timeout = NULL]
       IN  /\ client' = Failed(off)
           /\ sched' = FailedSched(off, Off(s, c.t_timeout))
    /\ UNCHANGED <<pc, peer, roleVars, booting>>

connect_check ==
    /\ Runs("connect_check") /\ peer
    /\ LET c == [client EXCEPT !.t_write = NULL, !.t_timeout = NULL,
                               !.sock = "open", !.is_connect = TRUE]
           s == Off(Gone(sched, "connect_check"), client.t_timeout)
       IN  Send("standbyTask", "connect_check", c, s)
    /\ UNCHANGED <<peer, roleVars, booting>>

connect_timeout ==
    /\ Runs("connect_timeout")
    /\ LET c == [client EXCEPT !.t_timeout = NULL]
           s == Gone(sched, "connect_timeout")
       IN  /\ client' = Failed(c) /\ sched' = FailedSched(c, s)
    /\ UNCHANGED <<pc, peer, roleVars, booting>>

\* Variant: the handle is left as it is while the answer is waited for.
client_timeout_keeps ==
    /\ Runs("client_timeout")
    /\ Send("standbyTask", "client_timeout", client, Gone(sched, "client_timeout"))
    /\ UNCHANGED <<peer, roleVars, booting>>

client_timeout ==
    /\ Runs("client_timeout")
    /\ Send("standbyTask", "client_timeout",
            [client EXCEPT !.t_timeout = NULL], Gone(sched, "client_timeout"))
    /\ UNCHANGED <<peer, roleVars, booting>>
-----------------------------------------------------------------------------
(* Any task that waits in ipcstandby_client_recv_message *)

Waits(t) == pc[t] \in {"shell", "connect_check", "client_timeout"}

\* OK, ERROR or OS_TIMEOUT, which the end of the stream comes to as well:
\* whatever the other task has read of the answer, the handler goes on.
RecvReturns(t) ==
    /\ Waits(t)
    /\ Return(t, pc[t], client, sched)
    /\ UNCHANGED <<peer, roleVars, booting>>

\* OS_CLOSE: the socket is broken, or the other task has closed it.
RecvClose(t) ==
    /\ Waits(t) /\ client.sock # "open"
    /\ ReturnFailed(t, pc[t], client, sched)
    /\ UNCHANGED <<peer, roleVars, booting>>

\* ipcstandby_client_failed in the shell, after a send or a read, takes from
\* standbyTask the threads that it has fetched, cancels or adds at that time.
Race ==
    /\ \/ Waits("shell") /\ client.sock # "open"
       \/ pc["shell"] = "idle" /\ role = "active" /\ client.is_connect
          /\ client.sock = "reset"
    /\ pc["standbyTask"] # "raced"
    /\ pc' = [pc EXCEPT !["standbyTask"] = "raced", !["shell"] = "idle"]
    /\ UNCHANGED <<client, sched, peer, roleVars, booting>>
-----------------------------------------------------------------------------
(* standbyTask: the role of the host *)

\* Variant: it does not make a standby host active.
ChangedOnce(r) == IF r = "active" /\ neg.master = 0 THEN "standby" ELSE r

\* The event thread compares the role with the client's master.
Changed(r) == IF r = "active" /\ neg.master = 0 THEN "standby"
              ELSE IF r = "standby" /\ neg.master = 1 THEN "active" ELSE r

negotiate_event_thread ==
    /\ pc["standbyTask"] = "idle" /\ changes > 0
    /\ changes' = changes - 1
    /\ role' = Changed(role)
    /\ UNCHANGED <<linkVars, peer, neg, negtimer, booting>>

\* ipcstandby_active_change_event(0).
Post == changes < MaxChanges /\ changes' = changes + 1

\* Variant: MS is left as it is.
negotiate_timeout_half ==
    /\ pc["standbyTask"] = "idle" /\ negtimer
    /\ negtimer' = FALSE
    /\ IF neg.state # "FULL"
       THEN neg' = [neg EXCEPT !.state = "FULL"] /\ Post
       ELSE UNCHANGED <<neg, changes>>
    /\ UNCHANGED <<linkVars, peer, role, booting>>

negotiate_timeout ==
    /\ pc["standbyTask"] = "idle" /\ negtimer
    /\ negtimer' = FALSE
    /\ IF neg.state # "FULL"
       THEN neg' = [neg EXCEPT !.state = "FULL", !.MS = 1] /\ Post
       ELSE UNCHANGED <<neg, changes>>
    /\ UNCHANGED <<linkVars, peer, role, booting>>

\* The host's server reads the other host's hello, as a switch to standby: what
\* it takes for master is a byte of the version, which is 0.  The callback
\* changes master in the server's record, which nobody reads.
serv_client_read ==
    /\ pc["standbyTask"] = "idle" /\ peer
    /\ role = "standby" /\ Post
    /\ UNCHANGED <<linkVars, peer, role, neg, negtimer, booting>>
-----------------------------------------------------------------------------
(* The shell *)

\* ipcstandby_execue_clicmd: the active host forwards a command.
execue_clicmd ==
    /\ pc["shell"] = "idle" /\ pc["standbyTask"] # "raced" /\ role = "active"
    /\ Send("shell", "shell", client, sched)
    /\ UNCHANGED <<peer, roleVars, booting>>

\* Variant: no change event.
switch_cli_quiet(m) ==
    /\ pc["shell"] = "idle"
    /\ m = (IF role = "standby" THEN 1 ELSE 0)
    /\ neg' = [neg EXCEPT !.master = m]
    /\ UNCHANGED <<linkVars, peer, role, negtimer, changes, booting>>

\* "switch master" and "switch standby" do nothing on a host of that role.
switch_cli(m) ==
    /\ pc["shell"] = "idle"
    /\ m = (IF role = "standby" THEN 1 ELSE 0)
    /\ neg' = [neg EXCEPT !.master = m] /\ Post
    /\ UNCHANGED <<linkVars, peer, role, negtimer, booting>>

\* "reset standby negotiate".
negotiate_reset ==
    /\ pc["shell"] = "idle"
    /\ neg' = [neg EXCEPT !.state = "DOWN", !.MS = 0]
    /\ UNCHANGED <<linkVars, peer, role, negtimer, changes, booting>>

\* Start-up looks once a second.
done ==
    /\ booting /\ neg.state = "FULL" /\ neg.MS = 1
    /\ booting' = FALSE
    /\ UNCHANGED <<linkVars, peer, roleVars>>
-----------------------------------------------------------------------------
(* The other host *)

\* It ends, or closes the connection, as it does when it cannot read a message.
PeerEnds ==
    /\ peer /\ sched["client_timeout"] < MaxTimers
    /\ peer' = FALSE
    /\ client' = IF client.sock = "open" THEN [client EXCEPT !.sock = "reset"] ELSE client
    /\ UNCHANGED <<sched, pc, roleVars, booting>>

PeerStarts ==
    /\ ~peer /\ peer' = TRUE
    /\ UNCHANGED <<linkVars, roleVars, booting>>
-----------------------------------------------------------------------------
Loop == client_connect \/ connect_check \/ connect_check_failed \/ connect_timeout
        \/ client_timeout \/ negotiate_event_thread \/ negotiate_timeout
        \/ serv_client_read

Recv(t) == RecvReturns(t) \/ RecvClose(t)

Next ==
    \/ Loop
    \/ (\E t \in Task : Recv(t)) \/ Race
    \/ execue_clicmd \/ negotiate_reset \/ \E m \in 0..1 : switch_cli(m)
    \/ done
    \/ PeerEnds \/ PeerStarts

Spec == Init /\ [][Next]_vars

\* The loop runs every thread that is scheduled, the host can open a socket
\* again and again, and a connection to a server that is there again and again
\* is not always too late.
FairSpec ==
    /\ Spec
    /\ SF_vars(client_connect /\ client'.sock = "connecting")
    /\ SF_vars(connect_check) /\ SF_vars(connect_timeout)
    /\ SF_vars(negotiate_timeout) /\ SF_vars(negotiate_event_thread)
    /\ WF_vars(Recv("standbyTask")) /\ WF_vars(done)
-----------------------------------------------------------------------------
(* Properties *)

\* Type correctness.
TypeOK ==
    /\ client \in [sock : {"none", "connecting", "open", "reset"},
                   is_connect : BOOLEAN,
                   t_connect : {NULL, "connect"}, t_write : {NULL, "connect_check"},
                   t_timeout : {NULL, "connect_timeout", "client_timeout"}]
    /\ sched \in [Func -> Nat]
    /\ pc \in [Task -> {"idle", "shell", "connect_check", "client_timeout", "raced"}]
    /\ peer \in BOOLEAN
    /\ role \in {"active", "standby"}
    /\ neg \in [state : {"DOWN", "FULL"}, MS : 0..1, master : 0..1]
    /\ negtimer \in BOOLEAN /\ changes \in 0..MaxChanges
    /\ booting \in BOOLEAN

\* The shell has failed while standbyTask was at work on the client.
Raced == pc["standbyTask"] = "raced"

\* The client never stops trying: it waits to connect again, or for a connection
\* that it will give up, or has a timer that will notice that the other host has
\* gone, or is in a handler that leaves one of these; unless the shell raced it.
NeverStuck ==
    \/ sched["connect"] > 0
    \/ /\ client.sock = "connecting"
       /\ sched["connect_check"] > 0 /\ sched["connect_timeout"] > 0
    \/ client.is_connect /\ sched["client_timeout"] > 0
    \/ Waits("standbyTask") \/ Raced

Agreed == (role = "active") = (neg.master = 1)

\* When the role of the host is not the one it has been told to take, the thread
\* that changes it is scheduled.
RoleInv == ~Agreed => changes > 0

\* The client is connected again and again, for as long as the other host runs,
\* however often it failed before and whatever timers it has left behind.
Reconnects == []<>(client.is_connect \/ ~peer \/ Raced)

\* A switch that has been asked for is made.
RoleSettles == ~Agreed ~> (Agreed \/ Raced)

\* Start-up goes on, unless the negotiation has been reset after its timer has
\* run: nothing ends it then.
Boots == booting ~> (~booting \/ (neg.state # "FULL" /\ ~negtimer) \/ Raced)
===============================================================================
