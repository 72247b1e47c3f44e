--------------------------------- MODULE HalIpc ---------------------------------
(***************************************************************************)
(* halpal/hal: how the driver of the switch (hal_client.c, in bspTask)     *)
(* registers with the platform over two connections, one for commands and  *)
(* one for events (hal_ipcsrv.c, in halTask), and how other tasks of the   *)
(* platform send requests to it, on the command connection and past the    *)
(* loop of halTask.                                                        *)
(*                                                                         *)
(* A handler is one step, but for the two that other tasks look into.  The *)
(* driver gives a connection up, or finds in its reading thread that it is *)
(* broken: then it cancels the thread that runs, which its loop does not   *)
(* survive (read_thread_stops), and nothing more is said about the driver. *)
(* Messages that are read are read whole.  Timers are due at any time, but *)
(* where this is said.                                                     *)
(***************************************************************************)
EXTENDS Naturals, FiniteSets, SequencesExt

CONSTANTS
    Node,        \* the connections of the driver: "cmd" and "event", or "cmd" alone
    MaxConns,    \* bound on the connections that exist at a time
    MaxTimers,   \* bound: a connection that is up is given up only with fewer timers
    MaxOwed,     \* bound on the requests of a connection that are given up
    NULL

ASSUME HalIpcAssumption ==
    /\ "cmd" \in Node /\ Node \subseteq {"cmd", "event"}
    /\ MaxConns \in Nat \ {0} /\ MaxTimers \in Nat /\ MaxOwed \in Nat
    /\ NULL \notin {"connect", "connect_check", "connect_timeout", "read",
                    "register", "hwport", "start_done", "timeout"}

VARIABLES
    node,         \* struct hal_client_node of each kind, and its scheduled threads
    bsp,          \* the node whose connect_check is half done, "idle" or "gone"
    portnum,      \* whether the driver has told its ports
    starter,      \* where the task that calls hal_client_hwport_register is
    link,         \* connections: the driver's end and what is on its way
    client_list,  \* the server's list of clients, each named by its connection
    rec,          \* struct hal_ipcclient
    req           \* the task that has the mutex of the server

boardVars == <<node, bsp, portnum, starter>>
srvVars == <<client_list, rec>>
vars == <<boardVars, link, srvVars, req>>

Conn == 1..MaxConns
Handle == {"t_read", "t_connect", "t_time"}
Func == {"connect", "connect_check", "connect_timeout", "read",
         "register", "hwport", "start_done", "timeout"}
Msg == {"HELLO", "REGISTER", "HWPORT", "DONE", "ACK", "ACK_ERROR"}

NewLink(e, n) == [end |-> e, node |-> n, up |-> <<>>, down |-> 0, owed |-> 0]
NoLink == NewLink("free", "cmd")
NoRec == [ipctype |-> "NONE", state |-> "NONE", t_read |-> FALSE, ports |-> FALSE]
NoReq == [pc |-> "idle", at |-> 0, all |-> FALSE]

\* hal_client_start comes to the same as a first run of the connect threads.
Init ==
    /\ node = [n \in Node |->
                  [state |-> "CLOSE", sock |-> 0,
                   handle |-> [h \in Handle |-> IF h = "t_connect" THEN "connect" ELSE NULL],
                   sched |-> [f \in Func |-> IF f = "connect" THEN 1 ELSE 0]]]
    /\ bsp = "idle" /\ portnum = FALSE /\ starter = "begin"
    /\ link = [c \in Conn |-> NoLink]
    /\ client_list = <<>> /\ rec = [c \in Conn |-> NoRec]
    /\ req = NoReq
-----------------------------------------------------------------------------
(* Threads of a node b.  hal_client_event stores a handle without looking  *)
(* whether it is set, but for t_connect.                                   *)

Put(b, h, f) == [b EXCEPT !.sched[f] = @ + 1, !.handle[h] = f]

\* The thread f is called and clears its handle; it is cancelled with its handle.
Ran(b, h, f) == [b EXCEPT !.sched[f] = @ - 1, !.handle[h] = NULL]
Off(b, h) == IF b.handle[h] = NULL THEN b ELSE Ran(b, h, b.handle[h])

EventConnect(b) == IF b.handle["t_connect"] = NULL THEN Put(b, "t_connect", "connect") ELSE b

Stop(b) == [Off(Off(Off(b, "t_read"), "t_connect"), "t_time")
               EXCEPT !.state = "CLOSE", !.sock = 0]

Listed(c) == \E i \in 1..Len(client_list) : client_list[i] = c

\* The driver closes its end of c.
Closed(c) == IF c = 0 THEN link
             ELSE [link EXCEPT ![c] = IF Listed(c) \/ @.end = "open"
                                      THEN [@ EXCEPT !.end = "closed", !.down = 0]
                                      ELSE NoLink]

\* hal_client_node_failed.
Failed(n, b) ==
    /\ node' = [node EXCEPT ![n] = EventConnect(Stop(b))]
    /\ link' = Closed(b.sock)

\* hal_client_node_send_message.
Sent(b, m) == IF b.state # "CONNECT" THEN link
              ELSE [link EXCEPT ![b.sock].up = Append(@, m)]
-----------------------------------------------------------------------------
(* bspTask *)

Runs(n, f) == bsp = "idle" /\ node[n].sched[f] > 0

\* A registration goes on: its timers take a second each.
Registering(n) == \E f \in {"register", "hwport", "start_done"} : node[n].sched[f] > 0

\* Ten seconds pass after a failure: no timer of an earlier connection is left.
connect_thread(n) ==
    /\ Runs(n, "connect")
    /\ ~Registering(n) /\ node[n].sched["connect_timeout"] = 0
    /\ LET b == Ran(node[n], "t_connect", "connect")
       IN  \/ \E c \in Conn :
                 /\ link[c].end = "free" /\ \A d \in 1..(c - 1) : link[d].end # "free"
                 /\ node' = [node EXCEPT ![n] =
                        Put(Put([b EXCEPT !.sock = c], "t_read", "connect_check"),
                            "t_time", "connect_timeout")]
                 /\ link' = [link EXCEPT ![c] = NewLink("connecting", n)]
           \/ /\ node' = [node EXCEPT ![n] = EventConnect(b)]
              /\ UNCHANGED link
    /\ UNCHANGED <<bsp, portnum, starter, srvVars, req>>

connect_check_failed(n) ==
    /\ Runs(n, "connect_check") /\ ~Listed(node[n].sock)
    /\ Failed(n, Off(Ran(node[n], "t_read", "connect_check"), "t_time"))
    /\ UNCHANGED <<bsp, portnum, starter, srvVars, req>>

\* From here on hal_client_hwport_register finds the node connected.
connect_check(n) ==
    /\ Runs(n, "connect_check")
    /\ node' = [node EXCEPT ![n] = [Ran(@, "t_read", "connect_check")
                                       EXCEPT !.state = "CONNECT"]]
    /\ link' = [link EXCEPT ![node[n].sock].end = "open"]
    /\ bsp' = n
    /\ UNCHANGED <<portnum, starter, srvVars, req>>

\* The rest of connect_check, hal_client_node_msg_send_hello included.
connected(n) ==
    /\ bsp = n /\ bsp' = "idle"
    /\ LET b == Put(Off(node[n], "t_time"), "t_read", "read")
       IN  node' = [node EXCEPT ![n] = IF portnum THEN Put(b, "t_time", "register") ELSE b]
    /\ link' = Sent(node[n], "HELLO")
    /\ UNCHANGED <<portnum, starter, srvVars, req>>

\* Variant: the handle is left as it is.
connect_timeout_keeps(n) ==
    /\ Runs(n, "connect_timeout")
    /\ Failed(n, [node[n] EXCEPT !.sched["connect_timeout"] = @ - 1])
    /\ UNCHANGED <<bsp, portnum, starter, srvVars, req>>

\* After five seconds.  If it runs although the connection is up, then this came
\* up at once, and a registration has had the time to end.
connect_timeout(n) ==
    /\ Runs(n, "connect_timeout")
    /\ node[n].state = "CONNECT" => ~Registering(n) /\ node[n].sched["timeout"] < MaxTimers
    /\ Failed(n, Ran(node[n], "t_time", "connect_timeout"))
    /\ UNCHANGED <<bsp, portnum, starter, srvVars, req>>

\* Variant: both timers are started, one second each.
register_thread_both(n) ==
    /\ Runs(n, "register")
    /\ LET b == Ran(node[n], "t_time", "register")
       IN  node' = [node EXCEPT ![n] =
               IF b.state = "CONNECT"
               THEN Put(Put(b, "t_time", "hwport"), "t_time", "start_done") ELSE b]
    /\ link' = Sent(node[n], "REGISTER")
    /\ UNCHANGED <<bsp, portnum, starter, srvVars, req>>

register_thread(n) ==
    /\ Runs(n, "register")
    /\ LET b == Ran(node[n], "t_time", "register")
       IN  node' = [node EXCEPT ![n] = IF b.state = "CONNECT"
                                       THEN Put(b, "t_time", "hwport") ELSE b]
    /\ link' = Sent(node[n], "REGISTER")
    /\ UNCHANGED <<bsp, portnum, starter, srvVars, req>>

\* The table of ports is sent on the command connection only.
hwport_thread(n) ==
    /\ Runs(n, "hwport")
    /\ LET b == Ran(node[n], "t_time", "hwport")
       IN  node' = [node EXCEPT ![n] = IF b.state = "CONNECT"
                                       THEN Put(b, "t_time", "start_done") ELSE b]
    /\ link' = IF n = "cmd" THEN Sent(node[n], "HWPORT") ELSE link
    /\ UNCHANGED <<bsp, portnum, starter, srvVars, req>>

start_done_thread(n) ==
    /\ Runs(n, "start_done")
    /\ node' = [node EXCEPT ![n] = Put(Ran(@, "t_time", "start_done"), "t_time", "timeout")]
    /\ link' = Sent(node[n], "DONE")
    /\ UNCHANGED <<bsp, portnum, starter, srvVars, req>>

\* What it counts down, ttl, nobody looks at.
timeout_thread(n) ==
    /\ Runs(n, "timeout")
    /\ node' = [node EXCEPT ![n] = Put(Ran(@, "t_time", "timeout"), "t_time", "timeout")]
    /\ UNCHANGED <<bsp, portnum, starter, link, srvVars, req>>

\* Variant: a GET is answered by its handler and after it.
read_thread_twice(n) ==
    /\ Runs(n, "read") /\ link[node[n].sock].down > 0
    /\ \E m \in {<<"ACK">>, <<"ACK", "ACK">>, <<"ACK_ERROR">>, <<>>} :
          link' = [link EXCEPT ![node[n].sock].down = @ - 1,
                               ![node[n].sock].up = @ \o m]
    /\ UNCHANGED <<boardVars, srvVars, req>>

\* A request is answered by hal_client_read_thread, or by the handler of the
\* module when it is a GET; a MAC table that cannot be read is not answered.
read_thread(n) ==
    /\ Runs(n, "read") /\ link[node[n].sock].down > 0
    /\ \E m \in {<<"ACK">>, <<"ACK_ERROR">>, <<>>} :
          link' = [link EXCEPT ![node[n].sock].down = @ - 1,
                               ![node[n].sock].up = @ \o m]
    /\ UNCHANGED <<boardVars, srvVars, req>>

\* The connection is broken, or what is read has no header of a message that fits.
\* The handle t_read still names the thread that runs: the stop in hal_client_reset
\* cancels it, although it is on no list, and connecting is scheduled on a loop that
\* puts it aside once more when it returns.  The returns without a reset leave the
\* handle to what the loop makes of the thread next.
read_thread_stops(n) ==
    /\ Runs(n, "read")
    /\ bsp' = "gone"
    /\ Failed(n, Ran(node[n], "t_read", "read")) \/ UNCHANGED <<node, link>>
    /\ UNCHANGED <<portnum, starter, srvVars, req>>
-----------------------------------------------------------------------------
(* The task that starts the driver, in hal_client_hwport_register *)

After(n) == IF n = "cmd" /\ "event" \in Node THEN "event" ELSE "end"

hwport_register ==
    /\ starter = "begin"
    /\ portnum' = TRUE /\ starter' = "cmd"
    /\ UNCHANGED <<node, bsp, link, srvVars, req>>

\* Variant: the nodes are tested first.
hwport_register_late(n) ==
    /\ starter \in {"begin", n} /\ (n = "event" => starter = n)
    /\ node' = IF node[n].state = "CONNECT"
               THEN [node EXCEPT ![n] = Put(@, "t_time", "register")] ELSE node
    /\ starter' = After(n)
    /\ portnum' = (portnum \/ n = "event")
    /\ UNCHANGED <<bsp, link, srvVars, req>>

hwport_register_node(n) ==
    /\ starter = n
    /\ node' = IF node[n].state = "CONNECT"
               THEN [node EXCEPT ![n] = Put(@, "t_time", "register")] ELSE node
    /\ starter' = After(n)
    /\ UNCHANGED <<bsp, portnum, link, srvVars, req>>
-----------------------------------------------------------------------------
(* halTask *)

accept(c) ==
    /\ link[c].end \in {"connecting", "open", "closed"} /\ ~Listed(c)
    /\ client_list' = Append(client_list, c)
    /\ rec' = [rec EXCEPT ![c] = [NoRec EXCEPT !.t_read = TRUE]]
    /\ UNCHANGED <<boardVars, link, req>>

\* What a message of node n does to the client's record r.
Handled(r, n, m) ==
    CASE m = "HELLO" -> [r EXCEPT !.ipctype = IF n = "cmd" THEN "CMD" ELSE "EVENT",
                                  !.state = "CONNECT"]
      [] m = "REGISTER" -> [r EXCEPT !.state = "INIT"]
      [] m = "HWPORT" -> [r EXCEPT !.ports = TRUE]
      [] m = "DONE" -> [r EXCEPT !.state = "REGISTER"]
      [] OTHER -> r

\* Variant: the loop goes on reading.
ReadOn_always(r) == TRUE

\* Without HAL_IPCSRV_SYNC_ACK: whether the loop reads on from r.
ReadOn(r) == r.ipctype = "EVENT" \/ r.state # "REGISTER"

client_read(c) ==
    /\ Listed(c) /\ rec[c].t_read /\ link[c].up # <<>>
    /\ LET r == Handled(rec[c], link[c].node, Head(link[c].up))
       IN  rec' = [rec EXCEPT ![c] = [r EXCEPT !.t_read = ReadOn(r)]]
    /\ link' = [link EXCEPT ![c].up = Tail(@)]
    /\ UNCHANGED <<boardVars, client_list, req>>

\* The driver has closed its end: hal_ipcclient_client_close.
client_read_close(c) ==
    /\ Listed(c) /\ rec[c].t_read /\ link[c].up = <<>>
    /\ link[c].end \in {"closed", "reset"}
    /\ \E i \in 1..Len(client_list) : /\ client_list[i] = c
                                      /\ client_list' = RemoveAt(client_list, i)
    /\ rec' = [rec EXCEPT ![c] = NoRec]
    /\ link' = [link EXCEPT ![c] = NoLink]
    /\ UNCHANGED <<boardVars, req>>
-----------------------------------------------------------------------------
(* A task that sends a request, with the mutex of the server *)

\* Positions of the list, from i on, of clients that get commands.
Commands(i) == {j \in i..Len(client_list) : rec[client_list[j]].ipctype # "EVENT"}

\* hal_ipcsrv_msg_write to c, which cancels its reading thread.  To a driver that
\* has gone the first write succeeds, and for the -1 of the next one the loop
\* subtracts one and tries again for ever.
Write(c, all) ==
    /\ rec' = [rec EXCEPT ![c].t_read = FALSE]
    /\ IF link[c].end = "reset"
       THEN req' = [pc |-> "loop", at |-> c, all |-> all] /\ UNCHANGED link
       ELSE /\ req' = [pc |-> "read", at |-> c, all |-> all]
            /\ link' = IF link[c].end = "open"
                       THEN [link EXCEPT ![c].down = @ + 1, ![c].owed = @ + 1]
                       ELSE [link EXCEPT ![c].end = "reset", ![c].owed = @ + 1]

\* __hal_ipcsrv_msg_write_raw from position i of the list on.  A record before its
\* hello has unit -1 and ends the walk, since it is not registered.
Walk(i, all) ==
    \/ \E j \in Commands(i) :
          /\ \A k \in Commands(i) : j <= k
          /\ rec[client_list[j]].state = "REGISTER"
          /\ Write(client_list[j], all)
    \/ /\ \A j \in Commands(i) : rec[client_list[j]].state = "REGISTER"
                                  => \E k \in Commands(i) : k < j
       /\ req' = NoReq /\ UNCHANGED <<link, rec>>

\* For the unit of the driver, or for all units.
send_message(all) ==
    /\ req.pc = "idle"
    /\ Walk(1, all)
    /\ UNCHANGED <<boardVars, client_list>>

\* hal_ipcsrv_msg_read takes the answer.
msg_read_ok ==
    /\ req.pc = "read" /\ link[req.at].up # <<>> /\ Head(link[req.at].up) = "ACK"
    /\ link' = [link EXCEPT ![req.at].up = Tail(@), ![req.at].owed = @ - 1]
    /\ req' = IF req.all THEN [req EXCEPT !.pc = "next"] ELSE NoReq
    /\ UNCHANGED <<boardVars, srvVars>>

write_next ==
    /\ req.pc = "next"
    /\ \E i \in 1..Len(client_list) : client_list[i] = req.at /\ Walk(i + 1, TRUE)
    /\ UNCHANGED <<boardVars, client_list>>

\* The answer says that the request failed, or it is no answer.
msg_read_error ==
    /\ req.pc = "read" /\ link[req.at].up # <<>> /\ Head(link[req.at].up) # "ACK"
    /\ link' = [link EXCEPT ![req.at].up = Tail(@),
                            ![req.at].owed = IF Head(link[req.at].up) = "ACK_ERROR"
                                             THEN @ - 1 ELSE @]
    /\ req' = NoReq
    /\ UNCHANGED <<boardVars, srvVars>>

\* HAL_IPCSRV_ACK_TIMEOUT, also after the end of the stream.
msg_read_timeout ==
    /\ req.pc = "read" /\ link[req.at].owed <= MaxOwed
    /\ req' = NoReq
    /\ UNCHANGED <<boardVars, link, srvVars>>
-----------------------------------------------------------------------------
Starter == hwport_register \/ \E n \in Node : hwport_register_node(n)

Registers(n) == register_thread(n) \/ hwport_thread(n) \/ start_done_thread(n)

Board(n) ==
    \/ connect_thread(n) \/ connect_check_failed(n) \/ connect_check(n) \/ connected(n)
    \/ connect_timeout(n) \/ Registers(n) \/ timeout_thread(n) \/ read_thread(n)
    \/ read_thread_stops(n)

Server(c) == accept(c) \/ client_read(c) \/ client_read_close(c)

Request == \/ \E all \in BOOLEAN : send_message(all)
           \/ msg_read_ok \/ write_next \/ msg_read_error \/ msg_read_timeout

\* Without the driver nothing need happen any more.
Ended == bsp = "gone" /\ UNCHANGED vars

Next ==
    \/ Starter
    \/ \E n \in Node : Board(n)
    \/ \E c \in Conn : Server(c)
    \/ Request
    \/ Ended

Spec == Init /\ [][Next]_vars

\* The two loops run what is scheduled and what can be read, the driver is
\* started, and a connection is not refused for ever.
FairSpec ==
    /\ Spec
    /\ WF_vars(Starter) /\ WF_vars(\E n \in Node : connected(n))
    /\ SF_vars(connect_thread("cmd") /\ node'["cmd"].sock # 0)
    /\ SF_vars(connect_check("cmd")) /\ SF_vars(connect_timeout("cmd"))
    /\ SF_vars(Registers("cmd"))
    /\ \A c \in Conn : WF_vars(Server(c))
-----------------------------------------------------------------------------
(* Properties *)

\* Type correctness.  Counts of threads do not go below zero: no THREAD_OFF takes
\* a thread that is not scheduled.
TypeOK ==
    /\ node \in [Node -> [state : {"CLOSE", "CONNECT"}, sock : 0..MaxConns,
                          handle : [Handle -> Func \cup {NULL}],
                          sched : [Func -> Nat]]]
    /\ bsp \in Node \cup {"idle", "gone"} /\ portnum \in BOOLEAN
    /\ starter \in Node \cup {"begin", "end"}
    /\ link \in [Conn -> [end : {"free", "connecting", "open", "closed", "reset"},
                          node : Node, up : Seq(Msg), down : Nat, owed : Nat]]
    /\ client_list \in Seq(Conn)
    /\ rec \in [Conn -> [ipctype : {"NONE", "CMD", "EVENT"},
                         state : {"NONE", "CONNECT", "INIT", "REGISTER"},
                         t_read : BOOLEAN, ports : BOOLEAN]]
    /\ req \in [pc : {"idle", "read", "next", "loop"}, at : 0..MaxConns, all : BOOLEAN]

\* The loop of the server, which does not take the mutex, reads from no driver that
\* requests are sent to: thread_cancel, called in another task, has no thread to
\* take that the loop may have fetched, and while this task waits for an answer
\* the loop neither reads this nor frees the record of the driver.
OneReader ==
    /\ \A c \in Conn : rec[c].state = "REGISTER" /\ rec[c].ipctype # "EVENT"
                         => ~rec[c].t_read
    /\ req.pc # "idle" => /\ Listed(req.at) /\ ~rec[req.at].t_read
                          /\ rec[req.at].state = "REGISTER"

Acks(s) == {i \in 1..Len(s) : s[i] \in {"ACK", "ACK_ERROR"}}

\* A request is answered once at most, however many answers came too late.
AnsweredOnce ==
    \A c \in Conn : link[c].down + Cardinality(Acks(link[c].up)) <= link[c].owed

\* A driver gets requests only when it has sent its table of ports on the same
\* connection: no timer of an earlier connection, and no second registration
\* that hwport_register has started, brings the messages out of order.
PortsKnown ==
    \A c \in Conn : rec[c].ipctype = "CMD" /\ rec[c].state = "REGISTER" => rec[c].ports

\* The platform learns the ports of the driver, whether this connects before it
\* tells them, after it or meanwhile, unless the connection breaks.
PortsLearnt == <>(bsp = "gone" \/ \E c \in Conn : rec[c].ports /\ rec[c].state = "REGISTER")
===============================================================================
