----------------------------- MODULE StandbyProofs -----------------------------
(* Theorems about the host standby of Standby, for every value of its constants. *)
EXTENDS Standby, TLAPS

Clients == [sock : {"none", "connecting", "open", "reset"},
            is_connect : BOOLEAN,
            t_connect : {NULL, "connect"}, t_write : {NULL, "connect_check"},
            t_timeout : {NULL, "connect_timeout", "client_timeout"}]
Pcs == [Task -> {"idle", "shell", "connect_check", "client_timeout", "raced"}]

\* A handle that is set in the client c names a thread of s that is scheduled,
\* although timers are scheduled that no handle names; and the connecting and
\* the waiting for it are each scheduled once at most.
Handles(c, s) ==
    /\ c \in Clients /\ s \in [Func -> Nat]
    /\ c.t_timeout # NULL => s[c.t_timeout] > 0
    /\ s["connect"] = (IF c.t_connect = NULL THEN 0 ELSE 1)
    /\ s["connect_check"] = (IF c.t_write = NULL THEN 0 ELSE 1)

\* The handles follow the socket.
Sound(c, s) ==
    /\ Handles(c, s)
    /\ c.sock = "none" <=> c.t_connect # NULL
    /\ c.sock = "connecting" <=> c.t_write # NULL
    /\ c.is_connect <=> c.sock \in {"open", "reset"}
    /\ c.sock = "connecting" => s["connect_timeout"] > 0

\* standbyTask waits without a timer of its own, and leaves one when it returns.
Waiting(c, s, p) ==
    /\ p \in Pcs /\ p["standbyTask"] # "shell" /\ p["shell"] \in {"idle", "shell"}
    /\ p["standbyTask"] \notin {"idle", "raced"} => c.t_timeout = NULL
    /\ c.is_connect /\ p["standbyTask"] = "idle" => s["client_timeout"] > 0

\* The host has the role it has been told to take, or will look at it.
Host ==
    /\ peer \in BOOLEAN /\ role \in {"active", "standby"}
    /\ neg \in [state : {"DOWN", "FULL"}, MS : 0..1, master : 0..1]
    /\ negtimer \in BOOLEAN /\ changes \in 0..MaxChanges
    /\ booting \in BOOLEAN
    /\ RoleInv

LinkInv == Sound(client, sched) /\ Waiting(client, sched, pc)

\* The inductive invariant.
IInv == LinkInv /\ Host

-----------------------------------------------------------------------------
(* The operators of the client *)

\* A client with no thread that its counts do not cover is stopped and scheduled
\* to connect again (ipcstandby_client_failed).
LEMMA FailedSound ==
    ASSUME NEW c, NEW s, Handles(c, s)
    PROVE  /\ Sound(Failed(c), FailedSched(c, s))
           /\ Failed(c).t_timeout = NULL /\ ~Failed(c).is_connect
<1> DEFINE s1 == Off(s, c.t_connect)
           s2 == Off(s1, c.t_write)
           s3 == Off(s2, c.t_timeout)
<1> USE StandbyAssumption
<1>0. c \in Clients /\ s \in [Func -> Nat] BY DEF Handles
<1>1. s1 \in [Func -> Nat] /\ s1["connect"] = 0
      /\ \A f \in Func \ {"connect"} : s1[f] = s[f]
  BY <1>0 DEF Handles, Off, Gone, Func, Clients
<1>2. s2 \in [Func -> Nat] /\ s2["connect"] = 0 /\ s2["connect_check"] = 0
      /\ \A f \in Func \ {"connect", "connect_check"} : s2[f] = s[f]
  BY <1>0, <1>1 DEF Handles, Off, Gone, Func, Clients
<1>3. s3 \in [Func -> Nat] /\ s3["connect"] = 0 /\ s3["connect_check"] = 0
  BY <1>0, <1>2 DEF Handles, Off, Gone, Func, Clients
<1>4. FailedSched(c, s) = [s3 EXCEPT !["connect"] = @ + 1]
  BY DEF FailedSched, StopSched, Add
<1>5. /\ FailedSched(c, s) \in [Func -> Nat]
      /\ FailedSched(c, s)["connect"] = 1 /\ FailedSched(c, s)["connect_check"] = 0
  BY <1>3, <1>4 DEF Func
<1>6. /\ Failed(c) \in Clients /\ Failed(c).sock = "none" /\ ~Failed(c).is_connect
      /\ Failed(c).t_connect = "connect"
      /\ Failed(c).t_write = NULL /\ Failed(c).t_timeout = NULL
  BY <1>0 DEF Failed, Stopped, Clients
<1> QED BY <1>5, <1>6 DEF Sound, Handles

\* A handler that has waited leaves a timer of its own, the shell leaves none.
LEMMA ResumedSound ==
    ASSUME NEW c, NEW s, Sound(c, s),
           NEW p \in {"shell", "connect_check", "client_timeout"},
           p # "shell" => c.t_timeout = NULL
    PROVE  /\ Sound(Resumed(p, c), ResumedSched(p, c, s))
           /\ Resumed(p, c).is_connect = c.is_connect
           /\ p = "shell" => Resumed(p, c) = c /\ ResumedSched(p, c, s) = s
           /\ p # "shell" => ResumedSched(p, c, s)["client_timeout"] > 0
<1> USE StandbyAssumption
<1>1. CASE p = "shell" BY <1>1 DEF Resumed, ResumedSched
<1>2. CASE p # "shell"
  <2> DEFINE d == Timed(c)
             r == Add(s, "client_timeout")
  <2>1. Resumed(p, c) = d /\ ResumedSched(p, c, s) = r BY <1>2 DEF Resumed, ResumedSched
  <2>2. c \in Clients /\ s \in [Func -> Nat] BY DEF Sound, Handles
  <2>3. /\ r \in [Func -> Nat] /\ r["client_timeout"] > 0
        /\ \A f \in Func \ {"client_timeout"} : r[f] = s[f]
    BY <2>2 DEF Add, Func
  <2>4. /\ d \in Clients /\ d.t_timeout = "client_timeout"
        /\ d.sock = c.sock /\ d.is_connect = c.is_connect
        /\ d.t_connect = c.t_connect /\ d.t_write = c.t_write
    BY <2>2 DEF Timed, Clients
  <2>5. Handles(d, r) BY <2>3, <2>4 DEF Sound, Handles, Func
  <2>6. Sound(d, r) BY <2>3, <2>4, <2>5 DEF Sound, Func
  <2> QED BY <1>2, <2>1, <2>3, <2>4, <2>6
<1> QED BY <1>1, <1>2

\* Task t returns from p: what it leaves is sound.
LEMMA ReturnSound ==
    ASSUME NEW t \in Task, NEW c, NEW s,
           Sound(c, s), pc \in Pcs,
           NEW p \in {"shell", "connect_check", "client_timeout"},
           (p = "shell") = (t = "shell"), p # "shell" => c.t_timeout = NULL,
           pc["standbyTask"] # "shell", pc["shell"] \in {"idle", "shell"},
           t = "shell" => Waiting(c, s, pc),
           Return(t, p, c, s)
    PROVE  Sound(client', sched') /\ Waiting(client', sched', pc')
<1>1. /\ client' = Resumed(p, c) /\ sched' = ResumedSched(p, c, s)
      /\ pc' = [pc EXCEPT ![t] = "idle"]
  BY DEF Return
<1>2. pc' \in Pcs /\ pc'["standbyTask"] # "shell" /\ pc'["shell"] \in {"idle", "shell"}
  BY <1>1 DEF Pcs, Task
<1>3. /\ Sound(client', sched')
      /\ p = "shell" => client' = c /\ sched' = s
      /\ p # "shell" => sched'["client_timeout"] > 0
  BY <1>1, ResumedSound
<1>4. CASE t = "shell"
  <2>1. pc'["standbyTask"] = pc["standbyTask"] BY <1>1, <1>4 DEF Pcs, Task
  <2> QED BY <1>2, <1>3, <1>4, <2>1 DEF Waiting
<1>5. CASE t # "shell"
  <2>1. pc'["standbyTask"] = "idle" BY <1>1, <1>5 DEF Pcs, Task
  <2> QED BY <1>2, <1>3, <1>5, <2>1 DEF Waiting
<1> QED BY <1>4, <1>5

\* The same after a failure.
LEMMA ReturnFailedSound ==
    ASSUME NEW t \in Task, NEW c, NEW s, Handles(c, s), pc \in Pcs,
           NEW p \in {"shell", "connect_check", "client_timeout"},
           (p = "shell") = (t = "shell"),
           pc["standbyTask"] # "shell", pc["shell"] \in {"idle", "shell"},
           ReturnFailed(t, p, c, s)
    PROVE  Sound(client', sched') /\ Waiting(client', sched', pc')
<1>1. Return(t, p, Failed(c), FailedSched(c, s)) BY DEF ReturnFailed
<1>2. /\ Sound(Failed(c), FailedSched(c, s))
      /\ Failed(c).t_timeout = NULL /\ ~Failed(c).is_connect
  BY FailedSound
<1>3. Waiting(Failed(c), FailedSched(c, s), pc) BY <1>2 DEF Waiting
<1> QED BY <1>1, <1>2, <1>3, ReturnSound

\* A message is sent, from the handler p of task t (ipcstandby_client_send_message).
LEMMA SendSound ==
    ASSUME NEW t \in Task, NEW c, NEW s, Sound(c, s), pc \in Pcs,
           NEW p \in {"shell", "connect_check", "client_timeout"},
           (p = "shell") = (t = "shell"), p # "shell" => c.t_timeout = NULL,
           pc["standbyTask"] # "shell", pc["shell"] \in {"idle", "shell"},
           t = "shell" => Waiting(c, s, pc),
           Send(t, p, c, s)
    PROVE  Sound(client', sched') /\ Waiting(client', sched', pc')
<1>1. CASE Return(t, p, c, s) BY <1>1, ReturnSound
<1>2. CASE client' = c /\ sched' = s /\ pc' = [pc EXCEPT ![t] = p]
  <2>1. /\ pc' \in Pcs /\ pc'["standbyTask"] # "shell"
        /\ pc'["shell"] \in {"idle", "shell"}
        /\ t = "shell" => pc'["standbyTask"] = pc["standbyTask"]
        /\ t # "shell" => pc'["standbyTask"] = p /\ p # "shell"
    BY <1>2 DEF Pcs, Task
  <2> QED BY <1>2, <2>1 DEF Waiting
<1>3. CASE ReturnFailed(t, p, c, s) BY <1>3, ReturnFailedSound DEF Sound
<1> QED BY <1>1, <1>2, <1>3 DEF Send

-----------------------------------------------------------------------------
(* Every step keeps the invariant *)

\* The inductive invariant holds at start-up.
LEMMA InitIInv == Init => IInv
<1> SUFFICES ASSUME Init PROVE IInv OBVIOUS
<1> USE StandbyAssumption
<1>1. Handles(client, sched) BY DEF Init, Handles, Clients, Func
<1>2. Sound(client, sched) BY <1>1 DEF Init, Sound
<1>3. Waiting(client, sched, pc) BY DEF Init, Waiting, Pcs, Task
<1>4. Host BY DEF Init, Host, RoleInv, Agreed
<1> QED BY <1>2, <1>3, <1>4 DEF IInv, LinkInv

\* The start of a connection keeps LinkInv.
LEMMA ConnectStep == LinkInv /\ client_connect => LinkInv'
<1> SUFFICES ASSUME LinkInv, client_connect PROVE LinkInv' OBVIOUS
<1> USE StandbyAssumption
<1> DEFINE c == [client EXCEPT !.t_connect = NULL]
           s == Gone(sched, "connect")
<1>0. client \in Clients /\ sched \in [Func -> Nat]
  BY DEF LinkInv, Sound, Handles
<1>1. sched["connect"] = 1 /\ client.t_connect # NULL /\ client.sock = "none"
  BY <1>0 DEF client_connect, Runs, LinkInv, Sound, Handles, Func
<1>2. client.t_write = NULL /\ sched["connect_check"] = 0
  BY <1>0, <1>1 DEF LinkInv, Sound, Handles
<1>3. /\ s \in [Func -> Nat] /\ s["connect"] = 0
      /\ \A f \in Func \ {"connect"} : s[f] = sched[f]
  BY <1>0, <1>1 DEF Gone, Func
<1>4. /\ c \in Clients /\ c.t_connect = NULL /\ c.sock = client.sock
      /\ c.is_connect = client.is_connect
      /\ c.t_write = client.t_write /\ c.t_timeout = client.t_timeout
  BY <1>0 DEF Clients
<1>5. UNCHANGED pc BY DEF client_connect
<1>6. CASE /\ client' = [c EXCEPT !.sock = "connecting", !.t_write = "connect_check",
                                  !.t_timeout = "connect_timeout"]
           /\ sched' = Add(Add(s, "connect_check"), "connect_timeout")
  <2>1. /\ client' \in Clients /\ client'.sock = "connecting"
        /\ client'.t_connect = NULL /\ client'.t_write = "connect_check"
        /\ client'.t_timeout = "connect_timeout"
        /\ client'.is_connect = c.is_connect
    BY <1>6, <1>4 DEF Clients
  <2>2. /\ sched' \in [Func -> Nat] /\ sched'["connect"] = 0
        /\ sched'["connect_check"] = 1 /\ sched'["connect_timeout"] > 0
    BY <1>6, <1>2, <1>3 DEF Add, Func
  <2>3. Sound(client', sched')
    BY <1>0, <1>1, <1>4, <1>6, <2>1, <2>2 DEF LinkInv, Sound, Handles
  <2>4. pc["standbyTask"] = "idle" /\ ~client'.is_connect
    BY <1>1, <1>4, <2>1 DEF client_connect, Runs, LinkInv, Sound
  <2> QED BY <1>5, <2>3, <2>4 DEF LinkInv, Waiting
<1>7. CASE client' = Failed(c) /\ sched' = FailedSched(c, s)
  <2>1. Handles(c, s) BY <1>2, <1>3, <1>4 DEF LinkInv, Sound, Handles, Func, Clients
  <2> QED BY <1>5, <1>7, <2>1, FailedSound DEF LinkInv, Waiting
<1> QED BY <1>6, <1>7 DEF client_connect

\* Before a connection is decided on, the handles of it are given up.
LEMMA CheckedSound ==
    ASSUME LinkInv, sched["connect_check"] > 0,
           NEW s, s = Off(Gone(sched, "connect_check"), client.t_timeout)
    PROVE  /\ client \in Clients
           /\ client.sock = "connecting" /\ client.t_connect = NULL
           /\ s \in [Func -> Nat] /\ s["connect"] = 0 /\ s["connect_check"] = 0
<1> USE StandbyAssumption
<1> DEFINE r == Gone(sched, "connect_check")
<1>1. client \in Clients /\ sched \in [Func -> Nat] BY DEF LinkInv, Sound, Handles
<1>2. sched["connect_check"] = 1 /\ client.t_write # NULL BY DEF LinkInv, Sound, Handles
<1>3. client.sock = "connecting" BY <1>2 DEF LinkInv, Sound
<1>4. client.t_connect = NULL /\ sched["connect"] = 0 BY <1>3 DEF LinkInv, Sound, Handles
<1>5. /\ r \in [Func -> Nat] /\ r["connect_check"] = 0
      /\ \A f \in Func \ {"connect_check"} : r[f] = sched[f]
  BY <1>1, <1>2 DEF Gone, Func
<1>6. s \in [Func -> Nat] /\ s["connect"] = 0 /\ s["connect_check"] = 0
  BY <1>1, <1>4, <1>5 DEF Off, Gone, Func, Clients, LinkInv, Sound, Handles
<1> QED BY <1>1, <1>3, <1>4, <1>6 DEF LinkInv, Sound

\* A connection that could not be made keeps LinkInv.
LEMMA CheckFailedStep == LinkInv /\ connect_check_failed => LinkInv'
<1> SUFFICES ASSUME LinkInv, connect_check_failed PROVE LinkInv' OBVIOUS
<1> DEFINE c == [client EXCEPT !.t_write = NULL]
           off == [c EXCEPT !.t_timeout = NULL]
           s == Off(Gone(sched, "connect_check"), c.t_timeout)
<1>1. sched["connect_check"] > 0 /\ UNCHANGED pc BY DEF connect_check_failed, Runs
<1>2. client \in Clients BY DEF LinkInv, Sound, Handles
<1>3. c.t_timeout = client.t_timeout BY <1>2 DEF Clients
<1>4. /\ s \in [Func -> Nat] /\ s["connect"] = 0 /\ s["connect_check"] = 0
      /\ client.t_connect = NULL
  BY <1>1, <1>3, CheckedSound
<1>5. /\ off \in Clients /\ off.t_connect = client.t_connect /\ off.t_write = NULL
      /\ off.t_timeout = NULL
  BY <1>2 DEF Clients
<1>6. Handles(off, s) BY <1>4, <1>5 DEF Handles
<1>7. client' = Failed(off) /\ sched' = FailedSched(off, s)
  BY DEF connect_check_failed
<1> QED BY <1>1, <1>6, <1>7, FailedSound DEF LinkInv, Waiting

\* A connection that is made keeps LinkInv.
LEMMA CheckStep == LinkInv /\ connect_check => LinkInv'
<1> SUFFICES ASSUME LinkInv, connect_check PROVE LinkInv' OBVIOUS
<1> DEFINE c == [client EXCEPT !.t_write = NULL, !.t_timeout = NULL,
                               !.sock = "open", !.is_connect = TRUE]
           s == Off(Gone(sched, "connect_check"), client.t_timeout)
<1>1. sched["connect_check"] > 0 /\ Send("standbyTask", "connect_check", c, s)
  BY DEF connect_check, Runs
<1>2. /\ client \in Clients /\ client.t_connect = NULL
      /\ s \in [Func -> Nat] /\ s["connect"] = 0 /\ s["connect_check"] = 0
  BY <1>1, CheckedSound
<1>3. /\ c \in Clients /\ c.t_connect = NULL /\ c.t_write = NULL /\ c.t_timeout = NULL
      /\ c.sock = "open" /\ c.is_connect
  BY <1>2 DEF Clients
<1>4. Handles(c, s) BY <1>2, <1>3 DEF Handles
<1>6. Sound(c, s) BY <1>3, <1>4 DEF Sound
<1>7. /\ pc \in Pcs /\ pc["standbyTask"] # "shell" /\ pc["shell"] \in {"idle", "shell"}
  BY DEF LinkInv, Waiting
<1>8. Sound(client', sched') /\ Waiting(client', sched', pc')
  BY <1>1, <1>3, <1>6, <1>7, SendSound DEF Task
<1> QED BY <1>8 DEF LinkInv

\* A timer f of the connection has run and its handle is cleared.
LEMMA RanSound ==
    ASSUME LinkInv, NEW f \in {"connect_timeout", "client_timeout"}, sched[f] > 0,
           NEW c, c = [client EXCEPT !.t_timeout = NULL],
           NEW s, s = Gone(sched, f)
    PROVE  /\ Handles(c, s) /\ c.t_timeout = NULL
           /\ f = "client_timeout" => Sound(c, s)
<1> USE StandbyAssumption
<1>1. client \in Clients /\ sched \in [Func -> Nat] BY DEF LinkInv, Sound, Handles
<1>2. /\ s \in [Func -> Nat] /\ \A g \in Func \ {f} : s[g] = sched[g]
  BY <1>1 DEF Gone, Func
<1>3. /\ c \in Clients /\ c.t_timeout = NULL
      /\ c.sock = client.sock /\ c.is_connect = client.is_connect
     
      /\ c.t_connect = client.t_connect /\ c.t_write = client.t_write
  BY <1>1 DEF Clients
<1>4. Handles(c, s) BY <1>2, <1>3 DEF LinkInv, Sound, Handles, Func
<1>5. ASSUME f = "client_timeout" PROVE Sound(c, s)
  BY <1>2, <1>3, <1>4, <1>5 DEF LinkInv, Sound, Func
<1> QED BY <1>3, <1>4, <1>5

\* The timers of the client keep LinkInv.
LEMMA TimeoutStep == LinkInv /\ (connect_timeout \/ client_timeout) => LinkInv'
<1> DEFINE c == [client EXCEPT !.t_timeout = NULL]
           s(f) == Gone(sched, f)
<1>1. ASSUME LinkInv, connect_timeout PROVE LinkInv'
  <2>1. Handles(c, s("connect_timeout")) BY <1>1, RanSound DEF connect_timeout, Runs
  <2>2. /\ client' = Failed(c) /\ sched' = FailedSched(c, s("connect_timeout"))
        /\ UNCHANGED pc
    BY <1>1 DEF connect_timeout
  <2> HIDE DEF c, s
  <2> QED BY <1>1, <2>1, <2>2, FailedSound DEF LinkInv, Waiting
<1>2. ASSUME LinkInv, client_timeout PROVE LinkInv'
  <2>1. Sound(c, s("client_timeout")) /\ c.t_timeout = NULL
    BY <1>2, RanSound DEF client_timeout, Runs
  <2>2. Send("standbyTask", "client_timeout", c, s("client_timeout"))
    BY <1>2 DEF client_timeout
  <2>3. pc \in Pcs /\ pc["standbyTask"] # "shell" /\ pc["shell"] \in {"idle", "shell"}
    BY <1>2 DEF LinkInv, Waiting
  <2> HIDE DEF c, s
  <2>4. Sound(client', sched') /\ Waiting(client', sched', pc')
    BY <2>1, <2>2, <2>3, SendSound DEF Task
  <2> QED BY <2>4 DEF LinkInv
<1> QED BY <1>1, <1>2

\* A wait for an answer ends, or the connection is found closed.
LEMMA RecvStep == ASSUME NEW t \in Task PROVE LinkInv /\ Recv(t) => LinkInv'
<1> SUFFICES ASSUME LinkInv, Recv(t) PROVE LinkInv' OBVIOUS
<1>0. /\ Sound(client, sched) /\ Waiting(client, sched, pc)
      /\ pc \in Pcs /\ pc["standbyTask"] # "shell" /\ pc["shell"] \in {"idle", "shell"}
      /\ pc["standbyTask"] \notin {"idle", "raced"} => client.t_timeout = NULL
  BY DEF LinkInv, Waiting
<1>1. /\ pc[t] \in {"shell", "connect_check", "client_timeout"}
      /\ (pc[t] = "shell") = (t = "shell")
      /\ pc[t] # "shell" => client.t_timeout = NULL
  BY <1>0 DEF Recv, RecvReturns, RecvClose, Waits, Pcs, Task
<1>3. CASE RecvReturns(t)
  <2>1. Return(t, pc[t], client, sched) BY <1>3 DEF RecvReturns
  <2> QED BY <1>0, <1>1, <2>1, ReturnSound DEF LinkInv
<1>4. CASE RecvClose(t)
  <2>1. ReturnFailed(t, pc[t], client, sched) BY <1>4 DEF RecvClose
  <2>2. Handles(client, sched) BY <1>0 DEF Sound
  <2> QED BY <1>0, <1>1, <2>1, <2>2, ReturnFailedSound DEF LinkInv
<1> QED BY <1>3, <1>4 DEF Recv

\* A command from the shell keeps LinkInv.
LEMMA ShellStep == LinkInv /\ execue_clicmd => LinkInv'
<1> SUFFICES ASSUME LinkInv, execue_clicmd PROVE LinkInv' OBVIOUS
<1>1. /\ Sound(client, sched) /\ Waiting(client, sched, pc)
      /\ pc \in Pcs /\ pc["standbyTask"] # "shell" /\ pc["shell"] \in {"idle", "shell"}
  BY DEF LinkInv, Waiting
<1>2. Send("shell", "shell", client, sched) BY DEF execue_clicmd
<1> QED BY <1>1, <1>2, SendSound DEF LinkInv, Task

\* What the other host does keeps LinkInv.
LEMMA PeerStep == LinkInv /\ PeerEnds => LinkInv'
<1> SUFFICES ASSUME LinkInv, PeerEnds PROVE LinkInv' OBVIOUS
<1>0. client \in Clients BY DEF LinkInv, Sound, Handles
<1>1. UNCHANGED <<sched, pc>> BY DEF PeerEnds
<1>2. CASE client.sock = "open"
  <2>1. client' = [client EXCEPT !.sock = "reset"] BY <1>2 DEF PeerEnds
  <2>2. /\ client' \in Clients /\ client'.sock = "reset"
        /\ client'.is_connect = client.is_connect
        /\ client'.t_connect = client.t_connect /\ client'.t_write = client.t_write
        /\ client'.t_timeout = client.t_timeout
    BY <1>0, <2>1 DEF Clients
  <2> QED BY <1>1, <1>2, <2>2 DEF LinkInv, Sound, Handles, Waiting
<1>3. CASE client.sock # "open"
  <2>1. client' = client BY <1>3 DEF PeerEnds
  <2> QED BY <1>1, <2>1 DEF LinkInv, Sound, Handles, Waiting
<1> QED BY <1>2, <1>3

\* A race of the shell with standbyTask leaves what it is not known to change.
LEMMA RaceStep == LinkInv /\ Race => LinkInv'
<1> SUFFICES ASSUME LinkInv, Race PROVE LinkInv' OBVIOUS
<1>1. /\ UNCHANGED <<client, sched>>
      /\ pc' = [pc EXCEPT !["standbyTask"] = "raced", !["shell"] = "idle"]
  BY DEF Race
<1>2. pc \in Pcs BY DEF LinkInv, Waiting
<1>3. pc' \in Pcs /\ pc'["standbyTask"] = "raced" /\ pc'["shell"] = "idle"
  BY <1>1, <1>2 DEF Pcs, Task
<1> QED BY <1>1, <1>3 DEF LinkInv, Sound, Handles, Waiting

\* Every step keeps LinkInv.
LEMMA NextLinkInv == LinkInv /\ [Next]_vars => LinkInv'
<1> SUFFICES ASSUME LinkInv, [Next]_vars PROVE LinkInv' OBVIOUS
<1>1. ASSUME UNCHANGED linkVars PROVE LinkInv'
  BY <1>1 DEF linkVars, LinkInv
<1>2. CASE negotiate_event_thread \/ negotiate_timeout \/ serv_client_read
  BY <1>1, <1>2 DEF negotiate_event_thread, negotiate_timeout, serv_client_read
<1>3. CASE negotiate_reset \/ (\E m \in 0..1 : switch_cli(m)) \/ done \/ PeerStarts
  BY <1>1, <1>3 DEF negotiate_reset, switch_cli, done, PeerStarts
<1>4. CASE UNCHANGED vars BY <1>1, <1>4 DEF vars, linkVars
<1> QED BY <1>2, <1>3, <1>4, ConnectStep, CheckStep, CheckFailedStep, TimeoutStep, RecvStep,
           ShellStep, PeerStep, RaceStep
        DEF Next, Loop

\* The role and what start-up waits for.
LEMMA NextHost == Host /\ [Next]_vars => Host'
<1> SUFFICES ASSUME Host, [Next]_vars PROVE Host' OBVIOUS
<1> USE StandbyAssumption
<1>1. ASSUME UNCHANGED roleVars, peer' \in BOOLEAN, booting' \in BOOLEAN PROVE Host'
  BY <1>1 DEF roleVars, Host, RoleInv, Agreed
<1>2. CASE Loop
  <2>1. CASE negotiate_event_thread
    <3>1. /\ role' \in {"active", "standby"} /\ changes' \in 0..MaxChanges
          /\ UNCHANGED <<peer, neg, negtimer, booting>>
      BY <2>1 DEF negotiate_event_thread, Host, Changed
    <3>2. neg.master \in {0, 1} BY DEF Host
    <3>3. Agreed'
      BY <2>1, <3>1, <3>2 DEF negotiate_event_thread, Changed, Agreed, Host
    <3> QED BY <3>1, <3>3 DEF Host, RoleInv
  <2>2. CASE negotiate_timeout
    <3>1. CASE neg.state # "FULL"
      <4>1. /\ neg' = [neg EXCEPT !.state = "FULL", !.MS = 1]
            /\ changes' = changes + 1 /\ changes < MaxChanges
            /\ negtimer' = FALSE /\ UNCHANGED <<peer, role, booting>>
        BY <2>2, <3>1 DEF negotiate_timeout, Post
      <4>4. neg' = [state |-> "FULL", MS |-> 1, master |-> neg.master] BY <4>1 DEF Host
      <4>2. neg' \in [state : {"DOWN", "FULL"}, MS : 0..1, master : 0..1]
        BY <4>4 DEF Host
      <4>3. changes' \in 0..MaxChanges /\ changes' > 0 BY <4>1 DEF Host
      <4> QED BY <4>1, <4>2, <4>3 DEF Host, RoleInv
    <3>2. CASE neg.state = "FULL"
      <4>1. UNCHANGED <<neg, changes, peer, role, booting>> /\ negtimer' = FALSE
        BY <2>2, <3>2 DEF negotiate_timeout
      <4> QED BY <4>1 DEF Host, RoleInv, Agreed
    <3> QED BY <3>1, <3>2
  <2>3. CASE serv_client_read BY <2>3 DEF serv_client_read, Post, Host, RoleInv
  <2>4. ASSUME UNCHANGED <<peer, roleVars, booting>> PROVE Host'
    BY <1>1, <2>4 DEF Host
  <2> QED BY <1>2, <2>1, <2>2, <2>3, <2>4
          DEF Loop, client_connect, connect_check, connect_check_failed, connect_timeout,
              client_timeout
<1>3. CASE (\E t \in Task : Recv(t)) \/ Race
  BY <1>1, <1>3 DEF Recv, RecvReturns, RecvClose, Race, Host
<1>4. CASE execue_clicmd BY <1>1, <1>4 DEF execue_clicmd, Host
<1>5. CASE negotiate_reset
  <2>1. /\ neg' = [neg EXCEPT !.state = "DOWN", !.MS = 0]
        /\ UNCHANGED <<peer, role, negtimer, changes, booting>>
    BY <1>5 DEF negotiate_reset
  <2>3. neg' = [state |-> "DOWN", MS |-> 0, master |-> neg.master] BY <2>1 DEF Host
  <2>2. /\ neg' \in [state : {"DOWN", "FULL"}, MS : 0..1, master : 0..1]
        /\ neg'.master = neg.master
    BY <2>3 DEF Host
  <2> QED BY <2>1, <2>2 DEF Host, RoleInv, Agreed
<1>6. CASE \E m \in 0..1 : switch_cli(m)
  <2>1. PICK m \in 0..1 : switch_cli(m) BY <1>6
  <2> QED BY <2>1 DEF switch_cli, Post, Host, RoleInv
<1>7. CASE done \/ PeerEnds \/ PeerStarts
  BY <1>1, <1>7 DEF done, PeerEnds, PeerStarts, Host
<1>8. CASE UNCHANGED vars BY <1>1, <1>8 DEF vars, roleVars, Host
<1> QED BY <1>2, <1>3, <1>4, <1>5, <1>6, <1>7, <1>8 DEF Next

-----------------------------------------------------------------------------
(* The theorems *)

\* The inductive invariant holds throughout.
THEOREM SpecIInv == Spec => []IInv
<1>1. IInv /\ [Next]_vars => IInv' BY NextLinkInv, NextHost DEF IInv
<1> QED BY InitIInv, <1>1, PTL DEF Spec

\* No thread is cancelled or run that is not scheduled, so that no count goes
\* below zero (all operations of ipcstandby_client.c and ipcstandby.c).
THEOREM SpecTypeOK == Spec => []TypeOK
<1>1. IInv => TypeOK
  BY DEF IInv, LinkInv, Host, Sound, Handles, Waiting, TypeOK, Clients, Pcs
<1> QED BY <1>1, SpecIInv, PTL

\* Something is always scheduled, or under way, that ends in a connection or in
\* another try (ipcstandby_client_failed, _timeout, _connect_check).
THEOREM SpecNeverStuck == Spec => []NeverStuck
<1>1. IInv => NeverStuck
  <2> SUFFICES ASSUME IInv PROVE NeverStuck OBVIOUS
  <2>0. client.sock \in {"none", "connecting", "open", "reset"}
    BY DEF IInv, LinkInv, Sound, Handles, Clients
  <2>1. CASE client.sock = "none"
    BY <2>1 DEF IInv, LinkInv, Sound, Handles, NeverStuck
  <2>2. CASE client.sock = "connecting"
    BY <2>2 DEF IInv, LinkInv, Sound, Handles, NeverStuck
  <2>3. CASE client.sock \in {"open", "reset"}
    BY <2>3 DEF IInv, LinkInv, Sound, Waiting, NeverStuck, Waits, Raced, Pcs, Task
  <2> QED BY <2>0, <2>1, <2>2, <2>3
<1> QED BY <1>1, SpecIInv, PTL

\* A role that has been asked for is taken by a thread that is scheduled
\* (ipcstandby_switch_cli, ipcstandby_active_change_event).
THEOREM SpecRoleInv == Spec => []RoleInv
<1>1. IInv => RoleInv BY DEF IInv, Host
<1> QED BY <1>1, SpecIInv, PTL
===============================================================================
