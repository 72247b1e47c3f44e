---------------------------- MODULE ProcessMUProofs ----------------------------
(***************************************************************************)
(* Theorems about ProcessMU.  Types hold, and ids are never given again,   *)
(* whatever programs execvp does not find; the rest is proved for programs *)
(* that are all found, as in the run process_mu, since a child that goes   *)
(* on as a second server breaks it.                                        *)
(*                                                                         *)
(* Then only Main serves.  Its table has one entry per name and per id, an *)
(* entry without a pid only while a start sleeps, and that is the entry of *)
(* the request in job: so what is alive is found by its name, and a new    *)
(* process is started only where none is.                                  *)
(***************************************************************************)
EXTENDS ProcessMU, FiniteSetTheorems, TLAPS

Kid == [state : State, name : Name \cup {NONE}, parent : Server \cup {NONE}]

\* process_lookup_api, process_lookup_id_api in the table tab.
Found(tab, r) == {e \in tab : IF r.name # NONE THEN e.name = r.name ELSE e.id = r.id}

\* A server that sleeps before it adds an entry has a name and an id for it.
Startable(tab, l, r) == Found(tab, r) = {} => r.name # NONE /\ l < MaxId

Typed ==
    /\ TypeOK
    /\ \A s \in Server : job[s] # NONE => Startable(table[s], lastid[s], job[s].r)

\* Names and ids of a table are those of one entry each.
Unique(tab) == \A e, f \in tab : e.name = f.name \/ e.id = f.id => e = f

\* There is no server but Main.
Alone == \A p \in Pid : kid[p].state # "twin" /\ job[p] = NONE

\* The table of Main between two requests, and while it sleeps.
TableInv ==
    /\ Unique(table[Main])
    /\ \A e \in table[Main] : e.id <= lastid[Main]
    /\ IF job[Main] = NONE
       THEN \A e \in table[Main] : e.pid # 0
       ELSE /\ job[Main].pid # 0
            /\ \A e \in table[Main] : e.pid = 0 <=> e \in Found(table[Main], job[Main].r)

CountInv == IsFiniteSet(waiting) /\ OneAnswer

\* The inductive invariant for programs that execvp finds.
IInv == Typed /\ Alone /\ TableInv /\ NoOrphan /\ CountInv

-----------------------------------------------------------------------------
(* Processes *)

\* child_process_kill leaves processes processes.
LEMMA KilledTyped ==
    ASSUME NEW k \in [Pid -> Kid], NEW s \in Server, NEW ps
    PROVE  Killed(k, s, ps) \in [Pid -> Kid]
<1> SUFFICES ASSUME NEW q \in Pid PROVE Killed(k, s, ps)[q] \in Kid BY DEF Killed
<1>1. k[q] \in Kid OBVIOUS
<1> QED BY <1>1 DEF Killed, Kid, State, FreePid

\* What is alive after it was alive before, and was not among the victims; what
\* runs the server's code did so before.
LEMMA KilledAlive ==
    ASSUME NEW k \in [Pid -> Kid], NEW s, NEW ps, NEW q \in Pid
    PROVE  /\ Killed(k, s, ps)[q].state = "alive"
                => /\ k[q].state = "alive" /\ q \notin ps
                   /\ Killed(k, s, ps)[q].name = k[q].name
           /\ Killed(k, s, ps)[q].state = "twin" => k[q].state = "twin"
<1>1. k[q] \in Kid OBVIOUS
<1> QED BY <1>1 DEF Killed, Kid, State, FreePid

-----------------------------------------------------------------------------
(* Types *)

\* The server starts with an empty table.
LEMMA InitTyped == Init => Typed
<1> SUFFICES ASSUME Init PROVE Typed OBVIOUS
<1>1. table \in [Server -> SUBSET Entry] /\ job \in [Server -> Job \cup {NONE}] BY DEF Init
<1>2. lastid \in [Server -> 0..MaxId] BY ProcessAssumption DEF Init
<1>3. kid \in [Pid -> Kid] BY DEF Init, Kid, FreePid, State
<1>4. req \in Seq(Request) /\ rep \in Seq(Answer) /\ late \in 0..MaxLate /\ lost \in Nat
  BY ProcessAssumption DEF Init
<1>5. \A s \in Server : job[s] = NONE BY DEF Init
<1> QED BY <1>1, <1>2, <1>3, <1>4, <1>5 DEF Typed, TypeOK, Kid, Init

\* What an answer appends to the connection is an answer.
LEMMA RespondTyped ==
    ASSUME NEW s, NEW r, NEW v, rep \in Seq(Answer), Respond(s, r, v)
    PROVE  rep' \in Seq(Answer) /\ Len(rep') = Len(rep) + 1
<1> DEFINE a == [positive |-> v > 0,
                 exists |-> r.action \in {"START", "RESTART"} => Exists(kid', NameOf(s, r))]
<1>1. (v > 0) \in BOOLEAN /\ (r.action \in {"START", "RESTART"} => Exists(kid', NameOf(s, r))) \in BOOLEAN
  OBVIOUS
<1>2. a \in Answer BY <1>1 DEF Answer
<1>3. rep' = Append(rep, a) BY DEF Respond
<1> QED BY <1>2, <1>3

\* The name of a request is a name, or none when nothing is found for none.
LEMMA NameTyped ==
    ASSUME TypeOK, NEW s \in Server, NEW r \in Request
    PROVE  /\ NameOf(s, r) \in Name \cup {NONE}
           /\ Lookup(s, r) # {} => \E e \in Lookup(s, r) : NameOf(s, r) = e.name
<1>1. Lookup(s, r) \subseteq Entry BY DEF Lookup, TypeOK
<1>2. r.name \in Name \cup {NONE} BY DEF Request
<1>3. CASE Lookup(s, r) = {} BY <1>2, <1>3 DEF NameOf
<1>4. CASE Lookup(s, r) # {}
  <2> DEFINE e == CHOOSE e \in Lookup(s, r) : TRUE
  <2>1. e \in Lookup(s, r) BY <1>4
  <2>2. e.name \in Name BY <2>1, <1>1 DEF Entry
  <2> QED BY <2>1, <2>2, <1>4 DEF NameOf
<1> QED BY <1>3, <1>4

\* fork, in the parent and in a child that goes on.
LEMMA ForkTyped ==
    ASSUME Typed, NEW s \in Server, NEW r \in Request, NEW k \in [Pid -> Kid],
           NEW tab \in SUBSET Entry, Startable(tab, lastid[s], r), Fork(s, r, k, tab),
           UNCHANGED <<exited, rep, waiting, late, lost>>, req' \in Seq(Request)
    PROVE  Typed'
<1> DEFINE n == NameOf(s, r)
<1>1. PICK p \in Pid :
          /\ kid' = [k EXCEPT ![p] = [state |-> IF n \in Broken THEN "twin" ELSE "alive",
                                      name |-> n, parent |-> s]]
          /\ table' = [table EXCEPT ![s] = tab, ![p] = IF n \in Broken THEN tab ELSE {}]
          /\ lastid' = [lastid EXCEPT ![p] = IF n \in Broken THEN lastid[s] ELSE 0]
          /\ job' = [job EXCEPT ![s] = [r |-> r, pid |-> p],
                                ![p] = IF n \in Broken THEN [r |-> r, pid |-> 0] ELSE NONE]
  BY DEF Fork
<1>2. p \in Server /\ n \in Name \cup {NONE} BY NameTyped DEF Server, Typed
<1>3. kid' \in [Pid -> Kid]
  <2>1. [state |-> IF n \in Broken THEN "twin" ELSE "alive", name |-> n, parent |-> s] \in Kid
    BY <1>2 DEF Kid, State
  <2> QED BY <1>1, <2>1
<1>4. table' \in [Server -> SUBSET Entry] BY <1>1 DEF Typed, TypeOK
<1>5. lastid' \in [Server -> 0..MaxId]
  <2>1. (IF n \in Broken THEN lastid[s] ELSE 0) \in 0..MaxId
    BY ProcessAssumption DEF Typed, TypeOK
  <2> QED BY <1>1, <2>1 DEF Typed, TypeOK
<1>6. job' \in [Server -> Job \cup {NONE}]
  <2>1. [r |-> r, pid |-> p] \in Job /\ [r |-> r, pid |-> 0] \in Job BY DEF Job
  <2> QED BY <1>1, <2>1 DEF Typed, TypeOK
<1>7. ASSUME NEW x \in Server, job'[x] # NONE
      PROVE  Startable(table'[x], lastid'[x], job'[x].r)
  <2>1. CASE x = p
    <3>1. n \in Broken BY <1>1, <1>2, <1>7, <2>1 DEF Typed, TypeOK
    <3>2. job'[x].r = r /\ table'[x] = tab /\ lastid'[x] = lastid[s]
      BY <1>1, <1>2, <2>1, <3>1 DEF Typed, TypeOK
    <3> QED BY <3>2
  <2>2. CASE x = s /\ x # p
    BY <1>1, <2>2 DEF Typed, TypeOK
  <2>3. CASE x # s /\ x # p
    <3>1. job'[x] = job[x] /\ table'[x] = table[x] /\ lastid'[x] = lastid[x]
      BY <1>1, <2>3 DEF Typed, TypeOK
    <3> QED BY <1>7, <3>1 DEF Typed
  <2> QED BY <2>1, <2>2, <2>3
<1>8. TypeOK' BY <1>3, <1>4, <1>5, <1>6 DEF Typed, TypeOK, Kid
<1> QED BY <1>7, <1>8 DEF Typed

\* A step that leaves the counters, the jobs and what is in other servers' tables.
LEMMA KeepsTyped ==
    ASSUME Typed, NEW s \in Server, NEW tab \in SUBSET Entry, job[s] = NONE,
           table' = [table EXCEPT ![s] = tab], UNCHANGED <<lastid, job>>,
           kid' \in [Pid -> Kid], exited' \in BOOLEAN,
           req' \in Seq(Request), rep' \in Seq(Answer),
           waiting' \subseteq Task, late' \in 0..MaxLate, lost' \in Nat
    PROVE  Typed'
<1>1. table' \in [Server -> SUBSET Entry] BY DEF Typed, TypeOK
<1>2. ASSUME NEW x \in Server, job'[x] # NONE
      PROVE  Startable(table'[x], lastid'[x], job'[x].r)
  <2>1. x # s BY <1>2
  <2>2. job'[x] = job[x] /\ table'[x] = table[x] /\ lastid'[x] = lastid[x]
    BY <2>1 DEF Typed, TypeOK
  <2> QED BY <1>2, <2>2 DEF Typed
<1>3. TypeOK' BY <1>1 DEF Typed, TypeOK, Kid
<1> QED BY <1>2, <1>3 DEF Typed

\* The end of START and RESTART.
LEMMA FinishTyped ==
    ASSUME Typed, NEW s \in Server, FinishStart(s)
    PROVE  Typed' /\ Len(rep') = Len(rep) + 1
<1> DEFINE r == job[s].r
           p == job[s].pid
           reaped == Reapable(s, p)
<1>1. job[s] \in Job /\ r \in Request /\ p \in Pid \cup {0} BY DEF FinishStart, Typed, TypeOK, Job
<1>2. kid' \in [Pid -> Kid]
  BY DEF FinishStart, Typed, TypeOK, Kid, State, FreePid
<1>3. rep' \in Seq(Answer) /\ Len(rep') = Len(rep) + 1
  <2>1. \E v : Respond(s, r, v) BY DEF FinishStart
  <2> QED BY <2>1, RespondTyped DEF Typed, TypeOK
<1>4. /\ table' \in [Server -> SUBSET Entry] /\ lastid' \in [Server -> 0..MaxId]
      /\ \A x \in Server \ {s} : table'[x] = table[x] /\ lastid'[x] = lastid[x]
  <2>1. CASE UNCHANGED <<table, lastid>> BY <2>1 DEF Typed, TypeOK
  <2>2. CASE /\ Lookup(s, r) = {} /\ p # 0
             /\ lastid' = [lastid EXCEPT ![s] = @ + 1]
             /\ table' = [table EXCEPT ![s] = @ \cup
                            {[name |-> r.name, id |-> process_alloc_id(s), pid |-> p]}]
    <3>1. r.name # NONE /\ lastid[s] < MaxId
      <4>1. Startable(table[s], lastid[s], r) BY DEF Typed, FinishStart
      <4> QED BY <2>2, <4>1 DEF Startable, Found, Lookup
    <3>2. lastid[s] \in 0..MaxId BY DEF Typed, TypeOK
    <3>3. [name |-> r.name, id |-> process_alloc_id(s), pid |-> p] \in Entry
      BY <1>1, <3>1, <3>2, ProcessAssumption DEF Entry, Request, process_alloc_id
    <3> QED BY <2>2, <3>1, <3>2, <3>3, ProcessAssumption DEF Typed, TypeOK
  <2>3. CASE \E e \in Lookup(s, r) :
                 /\ table' = [table EXCEPT ![s] = (@ \ {e}) \cup {[e EXCEPT !.pid = p]}]
                 /\ UNCHANGED lastid
    <3>1. PICK e \in Lookup(s, r) :
              table' = [table EXCEPT ![s] = (@ \ {e}) \cup {[e EXCEPT !.pid = p]}]
      BY <2>3
    <3>2. e \in Entry BY DEF Lookup, Typed, TypeOK
    <3>3. [e EXCEPT !.pid = p] \in Entry BY <1>1, <3>2 DEF Entry
    <3> QED BY <2>3, <3>1, <3>3 DEF Typed, TypeOK
  <2> QED BY <2>1, <2>2, <2>3 DEF FinishStart
<1>5. job' = [job EXCEPT ![s] = NONE] /\ UNCHANGED <<req, waiting, late, lost, exited>> BY DEF FinishStart
<1>6. TypeOK' BY <1>2, <1>3, <1>4, <1>5 DEF Typed, TypeOK, Kid
<1>7. ASSUME NEW x \in Server, job'[x] # NONE
      PROVE  Startable(table'[x], lastid'[x], job'[x].r)
  <2>1. x # s /\ job'[x] = job[x] BY <1>5, <1>7 DEF Typed, TypeOK
  <2> QED BY <1>4, <1>7, <2>1 DEF Typed
<1> QED BY <1>3, <1>6, <1>7 DEF Typed

\* What the server reads is a request.
LEMMA NextRequestTyped ==
    ASSUME req \in Seq(Request), NEW r \in NextRequest
    PROVE  r \in Request /\ Tail(req) \in Seq(Request) /\ Len(Tail(req)) = Len(req) - 1 /\ Len(req) > 0
<1>1. req # <<>> /\ r = Head(req) BY DEF NextRequest
<1> QED BY <1>1

\* A running server handles its requests and finishes what it sleeps in.
LEMMA ServerTyped == ASSUME Typed, NEW s \in Server, ServerStep(s) PROVE Typed'
<1>1. CASE FinishStart(s) BY <1>1, FinishTyped
<1>2. ASSUME NEW r \in NextRequest,
             \/ HandleLookup(s, r) \/ HandleUnknown(s, r) \/ HandleStop(s, r)
             \/ HandleStartAgain(s, r) \/ HandleStart(s, r) \/ HandleRestart(s, r)
             \/ HandleDeamon(s, r) \/ HandleNoRoom(s, r)
      PROVE  Typed'
  <2>1. r \in Request /\ Tail(req) \in Seq(Request) BY NextRequestTyped DEF Typed, TypeOK
  <2>2. Takes(s, r)
    BY <1>2 DEF HandleLookup, HandleUnknown, HandleStop, HandleStartAgain, HandleStart,
                HandleRestart, HandleDeamon, HandleNoRoom
  <2>3. /\ job[s] = NONE /\ req' \in Seq(Request)
        /\ exited' \in BOOLEAN /\ waiting' \subseteq Task /\ late' \in 0..MaxLate
        /\ lost \in Nat /\ table[s] \in SUBSET Entry /\ kid \in [Pid -> Kid] /\ rep \in Seq(Answer)
    BY <2>1, <2>2 DEF Takes, Typed, TypeOK, Kid
  <2>4. table = [table EXCEPT ![s] = table[s]] BY DEF Typed, TypeOK
  <2>5. CASE HandleLookup(s, r) \/ HandleUnknown(s, r) \/ HandleDeamon(s, r)
    <3>1. \E v : Respond(s, r, v) BY <2>5 DEF HandleLookup, HandleUnknown, HandleDeamon
    <3>2. UNCHANGED <<table, lastid, job, kid, lost>>
      BY <2>5 DEF HandleLookup, HandleUnknown, HandleDeamon
    <3>3. rep' \in Seq(Answer) BY <2>3, <3>1, RespondTyped
    <3> QED BY <2>3, <2>4, <3>2, <3>3, KeepsTyped
  <2>6. CASE HandleStop(s, r)
    <3>1. PICK e \in Lookup(s, r) :
              /\ kid' = IF e.pid # 0 THEN Killed(kid, s, {e.pid}) ELSE kid
              /\ table' = [table EXCEPT ![s] = @ \ {e}]
              /\ Respond(s, r, IF e.pid # 0 THEN e.id ELSE 0)
              /\ UNCHANGED <<lastid, job, lost>>
      BY <2>6 DEF HandleStop
    <3>2. kid' \in [Pid -> Kid] BY <2>3, <3>1, KilledTyped
    <3>3. rep' \in Seq(Answer) BY <2>3, <3>1, RespondTyped
    <3>4. table[s] \ {e} \in SUBSET Entry BY <2>3
    <3>5. table' = [table EXCEPT ![s] = table[s] \ {e}] BY <3>1
    <3> HIDE DEF Typed
    <3> QED BY <2>3, <3>1, <3>2, <3>3, <3>4, <3>5, KeepsTyped
  <2>7. CASE HandleStartAgain(s, r)
    <3>1. PICK e \in Lookup(s, r) :
              /\ kid' = IF Reapable(s, e.pid) THEN [kid EXCEPT ![e.pid] = FreePid] ELSE kid
              /\ Respond(s, r, IF Reapable(s, e.pid) THEN 0 ELSE e.id)
              /\ UNCHANGED <<table, lastid, job, lost>>
      BY <2>7 DEF HandleStartAgain
    <3>2. kid' \in [Pid -> Kid] BY <2>3, <3>1 DEF Kid, State, FreePid
    <3>3. rep' \in Seq(Answer) BY <2>3, <3>1, RespondTyped
    <3> QED BY <2>3, <2>4, <3>1, <3>2, <3>3, KeepsTyped
  <2>8. CASE HandleStart(s, r)
    <3>1. Startable(table[s], lastid[s], r)
      BY <2>8, ProcessAssumption DEF HandleStart, Startable, Found, Lookup
    <3>2. Fork(s, r, kid, table[s]) /\ UNCHANGED <<exited, rep, waiting, late, lost>>
      BY <2>8, <2>2 DEF HandleStart, Takes
    <3> QED BY <2>1, <2>3, <3>1, <3>2, ForkTyped
  <2>9. CASE HandleRestart(s, r)
    <3>1. PICK e \in Lookup(s, r) :
              Fork(s, r, IF e.pid # 0 THEN Killed(kid, s, {e.pid}) ELSE kid,
                   (table[s] \ {e}) \cup {[e EXCEPT !.pid = 0]})
      BY <2>9 DEF HandleRestart
    <3> DEFINE k == IF e.pid # 0 THEN Killed(kid, s, {e.pid}) ELSE kid
               tab == (table[s] \ {e}) \cup {[e EXCEPT !.pid = 0]}
    <3>2. k \in [Pid -> Kid] BY <2>3, KilledTyped
    <3>3. e \in Entry /\ [e EXCEPT !.pid = 0] \in Entry BY <2>3 DEF Lookup, Entry
    <3>4. tab \in SUBSET Entry BY <2>3, <3>3
    <3>5. Startable(tab, lastid[s], r)
      <4>1. [e EXCEPT !.pid = 0].name = e.name /\ [e EXCEPT !.pid = 0].id = e.id
        BY <3>3 DEF Entry
      <4>2. [e EXCEPT !.pid = 0] \in Found(tab, r) BY <4>1 DEF Lookup, Found
      <4> QED BY <4>2 DEF Startable
    <3>6. UNCHANGED <<exited, rep, waiting, late, lost>> BY <2>9, <2>2 DEF HandleRestart, Takes
    <3> HIDE DEF k, tab
    <3>7. Fork(s, r, k, tab) BY <3>1 DEF k, tab
    <3> QED BY <2>1, <2>3, <3>2, <3>4, <3>5, <3>6, <3>7, ForkTyped
  <2>10. CASE HandleNoRoom(s, r)
    <3>1. UNCHANGED <<table, lastid, job, kid, rep>> /\ lost' = lost + 1 BY <2>10 DEF HandleNoRoom
    <3>2. lost' \in Nat BY <2>3, <3>1
    <3> QED BY <2>3, <2>4, <3>1, <3>2, KeepsTyped
  <2> QED BY <1>2, <2>5, <2>6, <2>7, <2>8, <2>9, <2>10
<1> QED BY <1>1, <1>2 DEF ServerStep

\* The client stub, programs that end, SIGINT.
LEMMA NextTyped == Typed /\ [Next]_vars => Typed'
<1> SUFFICES ASSUME Typed, [Next]_vars PROVE Typed' OBVIOUS
<1>1. ASSUME UNCHANGED serverVars, req' \in Seq(Request), rep' \in Seq(Answer),
             waiting' \subseteq Task, late' \in 0..MaxLate, lost' \in Nat
      PROVE  Typed'
  BY <1>1 DEF serverVars, Typed, TypeOK
<1>2. ASSUME NEW t \in Task, Send(t) PROVE Typed'
  <2>1. PICK r \in Named \cup ById : req' = Append(req, r) BY <1>2 DEF Send
  <2>2. req' \in Seq(Request) BY <2>1 DEF Named, ById, Typed, TypeOK
  <2> QED BY <1>1, <1>2, <2>2 DEF Send, Typed, TypeOK
<1>3. ASSUME NEW t \in Task, Receive(t) PROVE Typed'
  BY <1>1, <1>3 DEF Receive, Typed, TypeOK
<1>4. ASSUME NEW t \in Task, GiveUp(t) PROVE Typed'
  BY <1>1, <1>4, ProcessAssumption DEF GiveUp, Typed, TypeOK
<1>5. ASSUME NEW p \in Pid, Exit(p) PROVE Typed'
  <2>1. kid' \in [Pid -> Kid] BY <1>5 DEF Exit, Typed, TypeOK, Kid, State, FreePid
  <2> QED BY <1>5, <2>1 DEF Exit, Typed, TypeOK, Kid
<1>6. ASSUME NEW s \in Server, ServerStep(s) PROVE Typed' BY <1>6, ServerTyped
<1>7. CASE Quit
  <2>1. Main \in Server /\ kid \in [Pid -> Kid] BY DEF Server, Typed, TypeOK, Kid
  <2>2. kid' \in [Pid -> Kid] BY <1>7, <2>1, KilledTyped DEF Quit
  <2>3. table' = [table EXCEPT ![Main] = {}] /\ job[Main] = NONE BY <1>7 DEF Quit
  <2>4. /\ exited' \in BOOLEAN /\ req' \in Seq(Request) /\ rep' \in Seq(Answer)
        /\ waiting' \subseteq Task /\ late' \in 0..MaxLate /\ lost' \in Nat
        /\ UNCHANGED <<lastid, job>>
    BY <1>7, ProcessAssumption DEF Quit
  <2>5. {} \in SUBSET Entry OBVIOUS
  <2> QED BY <2>1, <2>2, <2>3, <2>4, <2>5, KeepsTyped
<1>8. CASE UNCHANGED vars BY <1>1, <1>8 DEF vars, serverVars, Typed, TypeOK
<1> QED BY <1>2, <1>3, <1>4, <1>5, <1>6, <1>7, <1>8 DEF Next

\* No counter and no table leaves its range, whatever execvp does not find
\* (process_handle, process_start, process_alloc_id).
THEOREM SpecTypeOK == Spec => []TypeOK
<1>1. Typed => TypeOK BY DEF Typed
<1> QED BY <1>1, InitTyped, NextTyped, PTL DEF Spec

-----------------------------------------------------------------------------
(* Ids *)

\* Only FinishStart of Main adds an id to its table, and that is a new one.
LEMMA NextIds ==
    ASSUME Typed, [Next]_vars, NEW f \in table'[Main]
    PROVE  f.id > lastid[Main] \/ \E e \in table[Main] : e.id = f.id /\ e.name = f.name
<1> DEFINE Goal == f.id > lastid[Main] \/ \E e \in table[Main] : e.id = f.id /\ e.name = f.name
<1>0. Main \in Server /\ table \in [Server -> SUBSET Entry] /\ Main \notin Pid
  BY ProcessAssumption DEF Server, Typed, TypeOK
<1>1. ASSUME table'[Main] \subseteq table[Main] PROVE Goal BY <1>1
<1>2. ASSUME NEW e \in table[Main], NEW q \in Pid \cup {0},
             table'[Main] = (table[Main] \ {e}) \cup {[e EXCEPT !.pid = q]}
      PROVE  Goal
  <2>1. e \in Entry BY <1>0
  <2>2. [e EXCEPT !.pid = q].id = e.id /\ [e EXCEPT !.pid = q].name = e.name BY <2>1 DEF Entry
  <2> QED BY <1>2, <2>2
<1>3. CASE UNCHANGED table BY <1>1, <1>3
<1>4. CASE (\E t \in Task : Send(t) \/ Receive(t) \/ GiveUp(t)) \/ (\E p \in Pid : Exit(p)) \/ UNCHANGED vars
  BY <1>3, <1>4 DEF Send, Receive, GiveUp, Exit, serverVars, vars
<1>5. CASE Quit BY <1>0, <1>1, <1>5 DEF Quit
<1>6. ASSUME NEW s \in Server, NEW r, NEW k, NEW tab, Fork(s, r, k, tab)
      PROVE  table'[Main] = IF s = Main THEN tab ELSE table[Main]
  <2>1. PICK p \in Pid : \E x : table' = [table EXCEPT ![s] = tab, ![p] = x] BY <1>6 DEF Fork
  <2> QED BY <1>0, <2>1
<1>7. ASSUME NEW s \in Server, NEW r \in NextRequest,
             HandleLookup(s, r) \/ HandleUnknown(s, r) \/ HandleStop(s, r)
             \/ HandleStartAgain(s, r) \/ HandleStart(s, r) \/ HandleDeamon(s, r)
             \/ HandleNoRoom(s, r)
      PROVE  Goal
  <2>1. CASE HandleLookup(s, r) \/ HandleUnknown(s, r) \/ HandleStartAgain(s, r) \/ HandleDeamon(s, r)
             \/ HandleNoRoom(s, r)
    BY <1>3, <2>1 DEF HandleLookup, HandleUnknown, HandleStartAgain, HandleDeamon, HandleNoRoom
  <2>2. CASE HandleStop(s, r) BY <1>0, <1>1, <2>2 DEF HandleStop
  <2>3. CASE HandleStart(s, r) BY <1>0, <1>1, <1>6, <2>3 DEF HandleStart
  <2> QED BY <1>7, <2>1, <2>2, <2>3
<1>8. ASSUME NEW s \in Server, NEW r \in NextRequest, HandleRestart(s, r) PROVE Goal
  <2>1. PICK e \in Lookup(s, r) : \E k : Fork(s, r, k, (table[s] \ {e}) \cup {[e EXCEPT !.pid = 0]})
    BY <1>8 DEF HandleRestart
  <2>2. table'[Main] = IF s = Main THEN (table[s] \ {e}) \cup {[e EXCEPT !.pid = 0]} ELSE table[Main]
    BY <1>6, <2>1
  <2>3. CASE s = Main BY <1>2, <2>2, <2>3 DEF Lookup
  <2>4. CASE s # Main BY <1>1, <2>2, <2>4
  <2> QED BY <2>3, <2>4
<1>9. ASSUME NEW s \in Server, FinishStart(s) PROVE Goal
  <2> DEFINE r == job[s].r
             p == job[s].pid
  <2>1. r \in Request /\ p \in Pid \cup {0} BY <1>9 DEF FinishStart, Typed, TypeOK, Job
  <2>2. CASE UNCHANGED table BY <1>3, <2>2
  <2>3. CASE table' = [table EXCEPT ![s] = @ \cup
                           {[name |-> r.name, id |-> process_alloc_id(s), pid |-> p]}]
    <3>1. lastid[Main] \in Nat BY <1>0, ProcessAssumption DEF Typed, TypeOK
    <3> QED BY <1>0, <2>3, <3>1 DEF process_alloc_id
  <2>4. CASE \E e \in Lookup(s, r) : table' = [table EXCEPT ![s] = (@ \ {e}) \cup {[e EXCEPT !.pid = p]}]
    <3>1. PICK e \in Lookup(s, r) : table' = [table EXCEPT ![s] = (@ \ {e}) \cup {[e EXCEPT !.pid = p]}]
      BY <2>4
    <3>2. CASE s = Main BY <1>0, <1>2, <2>1, <3>1, <3>2 DEF Lookup
    <3>3. CASE s # Main BY <1>0, <1>1, <3>1, <3>3
    <3> QED BY <3>2, <3>3
  <2> QED BY <1>9, <2>2, <2>3, <2>4 DEF FinishStart
<1> QED BY <1>4, <1>5, <1>7, <1>8, <1>9 DEF Next, ServerStep

\* An id stays with its program, and none is given again (process_alloc_id,
\* process_stop, process_restart), whatever execvp does not find.
THEOREM SpecIdsStable == Spec => IdsStable
<1>1. Typed /\ [Next]_vars => [KeepsIds]_vars BY NextIds DEF KeepsIds
<1>2. Spec => []Typed BY InitTyped, NextTyped, PTL DEF Spec
<1> QED BY <1>1, <1>2, PTL DEF Spec, IdsStable

-----------------------------------------------------------------------------
(* The table of Main, when execvp finds every program *)

\* process_lookup_api finds in the table what Found finds.
LEMMA FoundIsLookup == ASSUME NEW s, NEW r PROVE Lookup(s, r) = Found(table[s], r)
BY DEF Lookup, Found

\* A request finds one entry at most, and has its name.
LEMMA OneFound ==
    ASSUME NEW tab, Unique(tab), NEW r, NEW e \in Found(tab, r), NEW f \in Found(tab, r)
    PROVE  e = f
BY DEF Unique, Found

\* The name a request is about is that of the entry it finds.
LEMMA NameFound ==
    ASSUME Unique(table[Main]), NEW r, NEW e \in Lookup(Main, r)
    PROVE  NameOf(Main, r) = e.name
<1>1. (CHOOSE f \in Lookup(Main, r) : TRUE) \in Lookup(Main, r) OBVIOUS
<1>2. (CHOOSE f \in Lookup(Main, r) : TRUE) = e BY <1>1, OneFound DEF Lookup, Found
<1> QED BY <1>2 DEF NameOf

\* What is alive under a name between two requests is what its entry names.
LEMMA AliveListed ==
    ASSUME NoOrphan, Typed, NEW p \in Pid, kid[p].state = "alive", kid[p].name \in Name,
           job[Main] = NONE
    PROVE  \E e \in table[Main] : e.name = kid[p].name /\ e.pid = p
BY DEF NoOrphan, Alive

\* The table in which an entry has another pid.
Repid(tab, e, q) == (tab \ {e}) \cup {[e EXCEPT !.pid = q]}

\* A new pid in an entry leaves names and ids unique, and requests find the
\* entry as before.
LEMMA RepidUnique ==
    ASSUME NEW tab \in SUBSET Entry, Unique(tab), NEW e \in tab, NEW q
    PROVE  /\ Unique(Repid(tab, e, q))
           /\ \E g : /\ g.name = e.name /\ g.id = e.id /\ g.pid = q
                     /\ Repid(tab, e, q) = (tab \ {e}) \cup {g}
                     /\ \A r : e \in Found(tab, r) => Found(Repid(tab, e, q), r) = {g}
<1> DEFINE g == [e EXCEPT !.pid = q]
<1>1. e \in Entry OBVIOUS
<1>2. g.name = e.name /\ g.id = e.id /\ g.pid = q BY <1>1 DEF Entry
<1>3. Repid(tab, e, q) = (tab \ {e}) \cup {g} BY DEF Repid
<1> HIDE DEF g
<1>4. Unique(Repid(tab, e, q)) BY <1>2, <1>3 DEF Unique
<1>5. ASSUME NEW r, e \in Found(tab, r) PROVE Found(Repid(tab, e, q), r) = {g}
  <2>1. g \in Found(Repid(tab, e, q), r) BY <1>2, <1>3, <1>5 DEF Found
  <2>2. ASSUME NEW f \in Found(Repid(tab, e, q), r) PROVE f = g
    BY <2>1, <2>2, <1>4, OneFound
  <2> QED BY <2>1, <2>2
<1> QED BY <1>2, <1>3, <1>4, <1>5

\* The inductive invariant holds when the server starts.
LEMMA InitIInv == Init => IInv
<1> SUFFICES ASSUME Init PROVE IInv OBVIOUS
<1>1. Typed BY InitTyped
<1>2. Alone BY DEF Init, Alone, FreePid, Server
<1>3. table[Main] = {} /\ job[Main] = NONE BY DEF Init, Server
<1>4. TableInv BY <1>3 DEF TableInv, Unique
<1>5. NoOrphan BY DEF Init, NoOrphan, Alive, FreePid
<1>6. CountInv
  <2>1. {s \in Server : job[s] # NONE} = {} BY DEF Init
  <2>2. Cardinality({s \in Server : job[s] # NONE}) = 0 BY <2>1, FS_EmptySet
  <2>3. IsFiniteSet(waiting) /\ Cardinality(waiting) = 0 BY FS_EmptySet DEF Init
  <2>4. Len(req) = 0 /\ Len(rep) = 0 /\ late = 0 /\ lost = 0 BY DEF Init
  <2> QED BY <2>2, <2>3, <2>4 DEF CountInv, OneAnswer
<1> QED BY <1>1, <1>2, <1>4, <1>5, <1>6 DEF IInv

\* Sleeping servers: none but Main.
LEMMA Asleep ==
    ASSUME Alone
    PROVE  Cardinality({s \in Server : job[s] # NONE}) = IF job[Main] = NONE THEN 0 ELSE 1
<1>1. CASE job[Main] = NONE
  <2>1. {s \in Server : job[s] # NONE} = {} BY <1>1 DEF Alone, Server
  <2> QED BY <1>1, <2>1, FS_EmptySet
<1>2. CASE job[Main] # NONE
  <2>1. {s \in Server : job[s] # NONE} = {Main} BY <1>2 DEF Alone, Server
  <2> QED BY <1>2, <2>1, FS_Singleton
<1> QED BY <1>1, <1>2

\* NoOrphan, process by process.
Kept(p) ==
    kid[p].state = "alive" /\ kid[p].name \in Name =>
        \/ \E e \in table[Main] : e.name = kid[p].name /\ e.pid = p
        \/ job[Main] # NONE /\ job[Main].pid = p /\ NameOf(Main, job[Main].r) = kid[p].name

\* NoOrphan, said of one process at a time.
LEMMA NoOrphanKept == NoOrphan <=> \A p \in Pid : Kept(p)
BY DEF NoOrphan, Alive, Kept

\* fork of a program that execvp finds.
LEMMA ForkAlone ==
    ASSUME Typed, Alone, Broken = {}, NEW r, NEW k \in [Pid -> Kid], NEW tab,
           \A q \in Pid : k[q].state # "twin", Fork(Main, r, k, tab)
    PROVE  /\ Alone'
           /\ table'[Main] = tab /\ lastid'[Main] = lastid[Main]
           /\ \E p \in Pid : /\ job'[Main] = [r |-> r, pid |-> p]
                             /\ kid' = [k EXCEPT ![p] = [state |-> "alive", parent |-> Main,
                                                         name |-> NameOf(Main, r)]]
<1>1. PICK p \in Pid :
          /\ kid' = [k EXCEPT ![p] = [state |-> "alive", name |-> NameOf(Main, r), parent |-> Main]]
          /\ table' = [table EXCEPT ![Main] = tab, ![p] = {}]
          /\ lastid' = [lastid EXCEPT ![p] = 0]
          /\ job' = [job EXCEPT ![Main] = [r |-> r, pid |-> p], ![p] = NONE]
  BY DEF Fork
<1>2. Main \in Server /\ p \in Server /\ p # Main BY ProcessAssumption DEF Server
<1>3. /\ table'[Main] = tab /\ lastid'[Main] = lastid[Main]
      /\ job'[Main] = [r |-> r, pid |-> p]
  BY <1>1, <1>2 DEF Typed, TypeOK
<1>4. ASSUME NEW q \in Pid PROVE kid'[q].state # "twin" /\ job'[q] = NONE
  <2>1. q \in Server /\ q # Main BY ProcessAssumption DEF Server
  <2>2. job'[q] = NONE BY <1>1, <2>1 DEF Typed, TypeOK, Alone
  <2>3. kid'[q].state # "twin" BY <1>1
  <2> QED BY <2>2, <2>3
<1> QED BY <1>1, <1>3, <1>4 DEF Alone

\* A new process that is started for an entry without a pid, or for a name without
\* an entry, with the processes k and the table tab of that time.
LEMMA ForkInv ==
    ASSUME Typed, Alone, Broken = {}, NEW r \in Request, NEW k \in [Pid -> Kid],
           NEW tab \in SUBSET Entry, Unique(tab), Fork(Main, r, k, tab),
           \A q \in Pid : k[q].state # "twin",
           \A e \in tab : e.id <= lastid[Main],
           \A e \in tab : e.pid = 0 <=> e \in Found(tab, r),
           Found(tab, r) = {} <=> Lookup(Main, r) = {},
           \A e \in Found(tab, r) : e.name = NameOf(Main, r),
           \A q \in Pid : k[q].state = "alive" /\ k[q].name \in Name =>
                              \E e \in tab : e.name = k[q].name /\ e.pid = q
    PROVE  Alone' /\ TableInv' /\ NoOrphan'
<1>1. Alone' /\ table'[Main] = tab /\ lastid'[Main] = lastid[Main] BY ForkAlone
<1>2. PICK p \in Pid : /\ job'[Main] = [r |-> r, pid |-> p]
                       /\ kid' = [k EXCEPT ![p] = [state |-> "alive", parent |-> Main,
                                                   name |-> NameOf(Main, r)]]
  BY ForkAlone
<1>3. job'[Main] # NONE /\ job'[Main].r = r /\ job'[Main].pid = p /\ p # 0
  BY <1>2, JobAssumption, ProcessAssumption DEF Job
<1>4. TableInv' BY <1>1, <1>3 DEF TableInv
<1>5. NameOf(Main, r)' = NameOf(Main, r)
  <2>1. Lookup(Main, r)' = Found(tab, r) BY <1>1 DEF Lookup, Found
  <2>2. CASE Found(tab, r) = {} BY <2>1, <2>2 DEF NameOf
  <2>3. CASE Found(tab, r) # {}
    <3>1. (CHOOSE f \in Found(tab, r) : TRUE) \in Found(tab, r) BY <2>3
    <3>2. NameOf(Main, r)' = (CHOOSE f \in Found(tab, r) : TRUE).name BY <2>1, <2>3 DEF NameOf
    <3> QED BY <3>1, <3>2
  <2> QED BY <2>2, <2>3
<1>6. ASSUME NEW q \in Pid PROVE Kept(q)'
  <2>1. CASE q = p BY <1>2, <1>3, <1>5, <2>1 DEF Kept
  <2>2. CASE q # p
    <3>1. kid'[q] = k[q] BY <1>2, <2>2
    <3> QED BY <1>1, <3>1 DEF Kept
  <2> QED BY <2>1, <2>2
<1>7. NoOrphan' <=> \A q \in Pid : Kept(q)' BY DEF NoOrphan, Alive, Kept
<1> QED BY <1>1, <1>4, <1>6, <1>7

\* A step between requests that starts nothing: entries go only with their process.
LEMMA CalmInv ==
    ASSUME Typed, Alone, TableInv, NoOrphan, job[Main] = NONE, UNCHANGED <<lastid, job>>,
           table'[Main] \subseteq table[Main],
           \A p \in Pid : kid'[p].state # "twin",
           \A p \in Pid : kid'[p].state = "alive" =>
               /\ kid[p].state = "alive" /\ kid'[p].name = kid[p].name
               /\ \A e \in table[Main] \ table'[Main] : e.pid # p
    PROVE  Alone' /\ TableInv' /\ NoOrphan'
<1>1. Alone' BY DEF Alone
<1>2. TableInv' BY DEF TableInv, Unique
<1>3. ASSUME NEW p \in Pid PROVE Kept(p)'
  <2>1. Kept(p) BY NoOrphanKept
  <2> QED BY <2>1 DEF Kept
<1>4. NoOrphan' <=> \A q \in Pid : Kept(q)' BY DEF NoOrphan, Alive, Kept
<1> QED BY <1>1, <1>2, <1>3, <1>4

-----------------------------------------------------------------------------
(* The steps of Main *)

\* Every branch of process_handle keeps the table and what is alive together.
LEMMA RequestInv ==
    ASSUME IInv, Broken = {}, job[Main] = NONE, NEW r \in NextRequest,
           \/ HandleLookup(Main, r) \/ HandleUnknown(Main, r) \/ HandleStop(Main, r)
           \/ HandleStartAgain(Main, r) \/ HandleStart(Main, r) \/ HandleRestart(Main, r)
           \/ HandleDeamon(Main, r) \/ HandleNoRoom(Main, r)
    PROVE  Alone' /\ TableInv' /\ NoOrphan'
<1>0. /\ Typed /\ Alone /\ TableInv /\ NoOrphan /\ Main \in Server
      /\ table[Main] \in SUBSET Entry /\ kid \in [Pid -> Kid] /\ r \in Request
      /\ Unique(table[Main]) /\ \A e \in table[Main] : e.pid # 0 /\ e.id <= lastid[Main]
  BY NextRequestTyped DEF IInv, Typed, TypeOK, Kid, Server, TableInv
<1>1. \A p \in Pid : kid[p].state # "twin" BY <1>0 DEF Alone
<1>2. CASE \/ HandleLookup(Main, r) \/ HandleUnknown(Main, r) \/ HandleDeamon(Main, r)
           \/ HandleNoRoom(Main, r)
  <2>1. UNCHANGED <<table, lastid, job, kid>>
    BY <1>2 DEF HandleLookup, HandleUnknown, HandleDeamon, HandleNoRoom
  <2> QED BY <1>0, <1>1, <2>1, CalmInv
<1>3. CASE HandleStop(Main, r)
  <2>1. PICK e \in Lookup(Main, r) :
            /\ kid' = IF e.pid # 0 THEN Killed(kid, Main, {e.pid}) ELSE kid
            /\ table' = [table EXCEPT ![Main] = @ \ {e}]
            /\ UNCHANGED <<lastid, job>>
    BY <1>3 DEF HandleStop
  <2>2. e \in table[Main] /\ e.pid # 0 BY <1>0 DEF Lookup
  <2>3. kid' = Killed(kid, Main, {e.pid}) BY <2>1, <2>2
  <2>4. table'[Main] = table[Main] \ {e} BY <1>0, <2>1 DEF Typed, TypeOK
  <2>5. \A p \in Pid : kid'[p].state # "twin" BY <1>0, <1>1, <2>3, KilledAlive
  <2>6. ASSUME NEW p \in Pid, kid'[p].state = "alive"
        PROVE  kid[p].state = "alive" /\ kid'[p].name = kid[p].name /\ e.pid # p
    BY <1>0, <2>3, <2>6, KilledAlive
  <2> QED BY <1>0, <2>1, <2>4, <2>5, <2>6, CalmInv
<1>4. CASE HandleStartAgain(Main, r)
  <2>1. PICK e \in Lookup(Main, r) :
            /\ kid' = IF Reapable(Main, e.pid) THEN [kid EXCEPT ![e.pid] = FreePid] ELSE kid
            /\ UNCHANGED <<table, lastid, job>>
    BY <1>4 DEF HandleStartAgain
  <2>2. ASSUME NEW p \in Pid
        PROVE  kid'[p] = kid[p] \/ kid'[p].state = "free"
    BY <1>0, <2>1 DEF FreePid
  <2> QED BY <1>0, <1>1, <2>1, <2>2, CalmInv
<1>5. CASE HandleStart(Main, r)
  <2>1. Lookup(Main, r) = {} BY <1>0, <1>5 DEF HandleStart, Lookup
  <2>2. Fork(Main, r, kid, table[Main]) BY <1>5 DEF HandleStart
  <2>3. Found(table[Main], r) = {} BY <2>1, FoundIsLookup
  <2>4. ASSUME NEW q \in Pid, kid[q].state = "alive", kid[q].name \in Name
        PROVE  \E e \in table[Main] : e.name = kid[q].name /\ e.pid = q
    BY <1>0, <2>4, AliveListed
  <2> QED BY <1>0, <1>1, <2>1, <2>2, <2>3, <2>4, ForkInv
<1>6. CASE HandleRestart(Main, r)
  <2>1. PICK e \in Lookup(Main, r) :
            Fork(Main, r, IF e.pid # 0 THEN Killed(kid, Main, {e.pid}) ELSE kid,
                 (table[Main] \ {e}) \cup {[e EXCEPT !.pid = 0]})
    BY <1>6 DEF HandleRestart
  <2> DEFINE k == Killed(kid, Main, {e.pid})
             tab == Repid(table[Main], e, 0)
  <2>2. e \in table[Main] /\ e.pid # 0 /\ e \in Found(table[Main], r) /\ e \in Entry
    BY <1>0 DEF Lookup, Found
  <2>3. Fork(Main, r, k, tab) BY <2>1, <2>2 DEF Repid
  <2>4. PICK g : /\ g.name = e.name /\ g.id = e.id /\ g.pid = 0
                 /\ tab = (table[Main] \ {e}) \cup {g}
                 /\ Found(tab, r) = {g}
    BY <1>0, <2>2, RepidUnique
  <2>5. tab \in SUBSET Entry BY <1>0, <2>2 DEF Entry, Repid
  <2>6. k \in [Pid -> Kid] BY <1>0, KilledTyped
  <2>7. \A q \in Pid : k[q].state # "twin" BY <1>0, <1>1, KilledAlive
  <2>8. Unique(tab) BY <1>0, <2>2, RepidUnique
  <2>9. \A f \in tab : f.id <= lastid[Main] BY <1>0, <2>2, <2>4
  <2>10. \A f \in tab : f.pid = 0 <=> f \in Found(tab, r) BY <1>0, <2>4
  <2>11. \A f \in Found(tab, r) : f.name = NameOf(Main, r) BY <1>0, <2>1, <2>4, NameFound
  <2>12. ASSUME NEW q \in Pid, k[q].state = "alive", k[q].name \in Name
         PROVE  \E f \in tab : f.name = k[q].name /\ f.pid = q
    <3>1. kid[q].state = "alive" /\ q # e.pid /\ k[q].name = kid[q].name
      BY <1>0, <2>12, KilledAlive
    <3>2. PICK f \in table[Main] : f.name = kid[q].name /\ f.pid = q
      BY <1>0, <2>12, <3>1, AliveListed
    <3> QED BY <3>1, <3>2, <2>4
  <2>13. Found(tab, r) = {} <=> Lookup(Main, r) = {} BY <2>1, <2>4
  <2> HIDE DEF k, tab
  <2> QED BY <1>0, <2>3, <2>5, <2>6, <2>7, <2>8, <2>9, <2>10, <2>11, <2>12, <2>13, ForkInv
<1> QED BY <1>2, <1>3, <1>4, <1>5, <1>6

\* So does the end of a start, when the server has slept.
LEMMA FinishInv ==
    ASSUME IInv, Broken = {}, FinishStart(Main)
    PROVE  Alone' /\ TableInv' /\ NoOrphan' /\ job'[Main] = NONE
<1> DEFINE r == job[Main].r
           p == job[Main].pid
           reaped == Reapable(Main, p)
<1>0. /\ Typed /\ Alone /\ TableInv /\ NoOrphan /\ Main \in Server /\ Main \notin Pid
      /\ table[Main] \in SUBSET Entry /\ kid \in [Pid -> Kid]
      /\ job[Main] # NONE /\ job[Main] \in Job /\ r \in Request /\ p \in Pid /\ p # 0
      /\ Unique(table[Main])
      /\ \A e \in table[Main] : e.id <= lastid[Main] /\ (e.pid = 0 <=> e \in Found(table[Main], r))
      /\ lastid[Main] \in Nat
  BY ProcessAssumption DEF IInv, Typed, TypeOK, Kid, Server, TableInv, FinishStart, Job
<1>1. /\ job' = [job EXCEPT ![Main] = NONE]
      /\ kid' = IF reaped THEN [kid EXCEPT ![p] = FreePid] ELSE kid
  BY DEF FinishStart
<1>2. Alone' /\ job'[Main] = NONE
  <2>1. \A q \in Pid : kid'[q].state # "twin" /\ job'[q] = NONE
    BY <1>0, <1>1 DEF Alone, FreePid, Typed, TypeOK, Server
  <2> QED BY <1>0, <1>1, <2>1 DEF Alone, Typed, TypeOK
<1>3. ASSUME NEW q \in Pid, kid'[q].state = "alive"
      PROVE  /\ kid[q].state = "alive" /\ kid'[q] = kid[q] /\ Kept(q)
             /\ q = p => ~reaped
  BY <1>0, <1>1, <1>3, NoOrphanKept DEF FreePid
<1>4. NoOrphan' <=> \A q \in Pid : Kept(q)' BY DEF NoOrphan, Alive, Kept
<1>5. CASE Lookup(Main, r) = {} /\ (p = 0 \/ reaped) /\ UNCHANGED <<table, lastid>>
  <2>1. Found(table[Main], r) = {} BY <1>5, FoundIsLookup
  <2>2. TableInv' BY <1>0, <1>2, <1>5, <2>1 DEF TableInv
  <2>3. ASSUME NEW q \in Pid PROVE Kept(q)' BY <1>0, <1>3, <1>5 DEF Kept
  <2> QED BY <1>2, <1>4, <2>2, <2>3
<1>6. CASE /\ Lookup(Main, r) = {}
           /\ lastid' = [lastid EXCEPT ![Main] = @ + 1]
           /\ table' = [table EXCEPT ![Main] = @ \cup
                          {[name |-> r.name, id |-> process_alloc_id(Main), pid |-> p]}]
  <2> DEFINE g == [name |-> r.name, id |-> process_alloc_id(Main), pid |-> p]
  <2>1. Found(table[Main], r) = {} BY <1>6, FoundIsLookup
  <2>2. r.name # NONE BY <1>0, <2>1 DEF Typed, Startable
  <2>3. /\ table'[Main] = table[Main] \cup {g} /\ lastid'[Main] = lastid[Main] + 1
        /\ g.id = lastid[Main] + 1 /\ g.name = r.name /\ g.pid = p
    BY <1>0, <1>6 DEF Typed, TypeOK, process_alloc_id
  <2> HIDE DEF g
  <2>4. \A e \in table[Main] : e.name # g.name /\ e.id # g.id /\ e.id \in Nat
    BY <1>0, <2>1, <2>2, <2>3, ProcessAssumption DEF Found, Entry
  <2>5. Unique(table'[Main]) BY <1>0, <2>3, <2>4 DEF Unique
  <2>6. \A e \in table'[Main] : e.id <= lastid'[Main] /\ e.pid # 0
    BY <1>0, <2>1, <2>3, <2>4
  <2>7. TableInv' BY <1>2, <2>5, <2>6 DEF TableInv
  <2>8. NameOf(Main, r) = r.name BY <1>6 DEF NameOf
  <2>9. ASSUME NEW q \in Pid PROVE Kept(q)' BY <1>0, <1>3, <2>3, <2>8 DEF Kept
  <2> QED BY <1>2, <1>4, <2>7, <2>9
<1>7. ASSUME NEW e \in Lookup(Main, r), UNCHANGED lastid,
             table' = [table EXCEPT ![Main] = (@ \ {e}) \cup {[e EXCEPT !.pid = p]}]
      PROVE  TableInv' /\ NoOrphan'
  <2>1. e \in table[Main] /\ e \in Found(table[Main], r) /\ e.pid = 0
    BY <1>0 DEF Lookup, Found
  <2>2. table'[Main] = Repid(table[Main], e, p) BY <1>0, <1>7 DEF Repid, Typed, TypeOK
  <2>3. PICK g : /\ g.name = e.name /\ g.id = e.id /\ g.pid = p
                 /\ table'[Main] = (table[Main] \ {e}) \cup {g}
    BY <1>0, <2>1, <2>2, RepidUnique
  <2>4. Unique(table'[Main]) BY <1>0, <2>1, <2>2, RepidUnique
  <2>5. \A f \in table[Main] \ {e} : f.pid # 0 BY <1>0, <2>1, OneFound
  <2>6. TableInv' BY <1>0, <1>2, <1>7, <2>1, <2>3, <2>4, <2>5 DEF TableInv
  <2>7. NameOf(Main, r) = e.name BY <1>0, NameFound
  <2>8. ASSUME NEW q \in Pid PROVE Kept(q)' BY <1>0, <1>3, <2>1, <2>3, <2>7, ProcessAssumption DEF Kept
  <2> QED BY <1>4, <2>6, <2>8
<1> QED BY <1>2, <1>5, <1>6, <1>7 DEF FinishStart

\* Only Main runs.
LEMMA OnlyMain == ASSUME Alone, NEW s \in Server, ServerStep(s) PROVE s = Main
BY DEF ServerStep, Running, Alone

\* One answer is appended for each request taken, at once or after the sleep.
LEMMA ServerCount ==
    ASSUME IInv, Broken = {}, ServerStep(Main), Alone'
    PROVE  CountInv'
<1>0. /\ Typed /\ Alone /\ CountInv /\ Main \in Server
      /\ req \in Seq(Request) /\ rep \in Seq(Answer) /\ late \in Nat /\ lost \in Nat
  BY ProcessAssumption DEF IInv, Typed, TypeOK, Server
<1>1. IsFiniteSet(waiting) /\ Cardinality(waiting) \in Nat /\ OneAnswer
  BY <1>0, FS_CardinalityType DEF CountInv
<1> DEFINE busy == IF job[Main] = NONE THEN 0 ELSE 1
<1>2. Len(req) + busy + Len(rep) + lost = Cardinality(waiting) + late
  BY <1>0, <1>1, Asleep DEF OneAnswer
<1>3. OneAnswer' <=> Len(req') + (IF job'[Main] = NONE THEN 0 ELSE 1) + Len(rep') + lost'
                        = Cardinality(waiting') + late'
  <2>1. Cardinality({s \in Server : job'[s] # NONE}) = IF job'[Main] = NONE THEN 0 ELSE 1
    <3>1. CASE job'[Main] = NONE
      <4>1. {s \in Server : job'[s] # NONE} = {} BY <3>1 DEF Alone, Server
      <4> QED BY <3>1, <4>1, FS_EmptySet
    <3>2. CASE job'[Main] # NONE
      <4>1. {s \in Server : job'[s] # NONE} = {Main} BY <3>2 DEF Alone, Server
      <4> QED BY <3>2, <4>1, FS_Singleton
    <3> QED BY <3>1, <3>2
  <2> QED BY <2>1 DEF OneAnswer
<1>4. CASE FinishStart(Main)
  <2>1. Len(rep') = Len(rep) + 1 BY <1>0, <1>4, FinishTyped
  <2>2. job[Main] # NONE /\ job'[Main] = NONE /\ UNCHANGED <<req, waiting, late, lost>>
    BY <1>0, <1>4 DEF FinishStart, Typed, TypeOK
  <2>3. Len(req') + 0 + Len(rep') + lost' = Cardinality(waiting') + late' BY <1>0, <1>2, <2>1, <2>2
  <2> QED BY <1>1, <1>3, <2>2, <2>3 DEF CountInv
<1>5. ASSUME NEW r \in NextRequest, Takes(Main, r), UNCHANGED <<job, lost>>, \E v : Respond(Main, r, v)
      PROVE  CountInv'
  <2>1. Len(rep') = Len(rep) + 1 BY <1>0, <1>5, RespondTyped
  <2>2. Len(req') = Len(req) - 1 BY <1>0, <1>5, NextRequestTyped DEF Takes
  <2>3. job[Main] = NONE /\ UNCHANGED <<waiting, late>> BY <1>5 DEF Takes
  <2> QED BY <1>0, <1>1, <1>2, <1>3, <1>5, <2>1, <2>2, <2>3 DEF CountInv
<1>6. ASSUME NEW r \in NextRequest, Takes(Main, r), UNCHANGED <<rep, lost>>,
             NEW k, NEW tab, Fork(Main, r, k, tab)
      PROVE  CountInv'
  <2>1. PICK p \in Pid : \E x : job' = [job EXCEPT ![Main] = [r |-> r, pid |-> p], ![p] = x]
    BY <1>6 DEF Fork
  <2>2. job'[Main] = [r |-> r, pid |-> p]
    BY <1>0, <2>1, ProcessAssumption DEF Typed, TypeOK
  <2>3. r \in Request /\ Len(req') = Len(req) - 1 BY <1>0, <1>6, NextRequestTyped DEF Takes
  <2>4. job'[Main] # NONE BY <2>2, <2>3, JobAssumption DEF Job
  <2>5. job[Main] = NONE /\ UNCHANGED <<waiting, late>> BY <1>6 DEF Takes
  <2> QED BY <1>0, <1>1, <1>2, <1>3, <1>6, <2>3, <2>4, <2>5 DEF CountInv
<1>7. ASSUME NEW r \in NextRequest,
             \/ HandleLookup(Main, r) \/ HandleUnknown(Main, r) \/ HandleStop(Main, r)
             \/ HandleStartAgain(Main, r) \/ HandleDeamon(Main, r)
      PROVE  CountInv'
  BY <1>5, <1>7 DEF HandleLookup, HandleUnknown, HandleStop, HandleStartAgain, HandleDeamon
<1>8. ASSUME NEW r \in NextRequest, HandleStart(Main, r) \/ HandleRestart(Main, r)
      PROVE  CountInv'
  BY <1>6, <1>8 DEF HandleStart, HandleRestart
<1>9. ASSUME NEW r \in NextRequest, HandleNoRoom(Main, r) PROVE CountInv'
  <2>1. Len(req') = Len(req) - 1 BY <1>0, <1>9, NextRequestTyped DEF HandleNoRoom, Takes
  <2>2. lost' = lost + 1 /\ UNCHANGED <<job, rep, waiting, late>> BY <1>9 DEF HandleNoRoom, Takes
  <2>3. busy \in Nat /\ Len(req) \in Nat /\ Len(rep) \in Nat BY <1>0
  <2> HIDE DEF busy
  <2>4. Len(req') + busy + Len(rep') + lost' = Cardinality(waiting') + late'
    <3>1. Len(rep') = Len(rep) /\ Cardinality(waiting') = Cardinality(waiting) /\ late' = late
      BY <2>2
    <3>2. Len(req) + busy + Len(rep) + lost = Cardinality(waiting) + late BY <1>2
    <3>3. lost \in Nat /\ late \in Nat /\ Cardinality(waiting) \in Nat BY <1>0, <1>1
    <3> QED BY <2>1, <2>2, <2>3, <3>1, <3>2, <3>3
  <2> QED BY <1>1, <1>3, <2>2, <2>4 DEF CountInv, busy
<1> QED BY <1>4, <1>7, <1>8, <1>9 DEF ServerStep

-----------------------------------------------------------------------------
(* The inductive invariant *)

\* Every step keeps the inductive invariant.
LEMMA NextIInv == ASSUME IInv, Broken = {}, [Next]_vars PROVE IInv'
<1>0. /\ Typed /\ Alone /\ TableInv /\ NoOrphan /\ CountInv /\ Main \in Server
      /\ req \in Seq(Request) /\ rep \in Seq(Answer) /\ late \in Nat /\ lost \in Nat
      /\ kid \in [Pid -> Kid] /\ table[Main] \in SUBSET Entry
      /\ IsFiniteSet(waiting) /\ Cardinality(waiting) \in Nat
  BY FS_CardinalityType, ProcessAssumption DEF IInv, Typed, TypeOK, Server, Kid, CountInv
<1>1. Typed' BY <1>0, NextTyped
<1> DEFINE busy == Cardinality({s \in Server : job[s] # NONE})
<1>2. busy \in Nat /\ Len(req) + busy + Len(rep) + lost = Cardinality(waiting) + late
  BY <1>0, Asleep DEF CountInv, OneAnswer
<1> HIDE DEF busy
<1>3. ASSUME UNCHANGED serverVars, IsFiniteSet(waiting)',
             Len(req') + busy + Len(rep') + lost' = Cardinality(waiting') + late'
      PROVE  IInv'
  <2>1. busy' = busy BY <1>3 DEF serverVars, busy
  <2>2. CountInv' BY <1>3, <2>1 DEF CountInv, OneAnswer, busy
  <2>3. Alone' /\ TableInv' BY <1>0, <1>3 DEF serverVars, Alone, TableInv
  <2>4. NoOrphan' BY <1>0, <1>3 DEF serverVars, NoOrphan, Alive, NameOf, Lookup
  <2> QED BY <1>1, <2>2, <2>3, <2>4 DEF IInv
<1>4. ASSUME NEW t \in Task, Send(t) PROVE IInv'
  <2>1. PICK r \in Named \cup ById : req' = Append(req, r) BY <1>4 DEF Send
  <2>2. Len(req') = Len(req) + 1 BY <1>0, <2>1 DEF Named, ById
  <2>3. IsFiniteSet(waiting)' /\ Cardinality(waiting') = Cardinality(waiting) + 1
    BY <1>0, <1>4, FS_AddElement DEF Send
  <2>4. Len(req') + busy + Len(rep') + lost' = Cardinality(waiting') + late'
    <3>1. rep' = rep /\ late' = late /\ lost' = lost BY <1>4 DEF Send
    <3>2. Len(rep) \in Nat /\ Len(req) \in Nat /\ late \in Nat /\ lost \in Nat /\ Cardinality(waiting) \in Nat
      BY <1>0
    <3> QED BY <1>2, <2>2, <2>3, <3>1, <3>2
  <2> QED BY <1>3, <1>4, <2>3, <2>4 DEF Send
<1>5. ASSUME NEW t \in Task, Receive(t) PROVE IInv'
  <2>1. Len(rep') = Len(rep) - 1 BY <1>0, <1>5 DEF Receive
  <2>2. IsFiniteSet(waiting)' /\ Cardinality(waiting') = Cardinality(waiting) - 1
    BY <1>0, <1>5, FS_RemoveElement DEF Receive
  <2>3. Len(req') + busy + Len(rep') + lost' = Cardinality(waiting') + late'
    <3>1. Len(req') = Len(req) /\ late' = late /\ lost' = lost BY <1>5 DEF Receive
    <3>2. Len(rep) \in Nat /\ Len(req) \in Nat BY <1>0
    <3> DEFINE c == Cardinality(waiting)
    <3>3. Len(rep') = Len(rep) - 1 /\ Cardinality(waiting') = c - 1 BY <2>1, <2>2
    <3>4. Len(req) + busy + Len(rep) + lost = c + late /\ busy \in Nat BY <1>2
    <3>5. c \in Nat /\ late \in Nat /\ lost \in Nat BY <1>0
    <3> HIDE DEF c
    <3> QED BY <3>1, <3>2, <3>3, <3>4, <3>5
  <2> QED BY <1>3, <1>5, <2>2, <2>3 DEF Receive
<1>6. ASSUME NEW t \in Task, GiveUp(t) PROVE IInv'
  <2>1. IsFiniteSet(waiting)' /\ Cardinality(waiting') = Cardinality(waiting) - 1
    BY <1>0, <1>6, FS_RemoveElement DEF GiveUp
  <2>2. Len(req') + busy + Len(rep') + lost' = Cardinality(waiting') + late'
    <3>1. req' = req /\ rep' = rep /\ late' = late + 1 /\ lost' = lost BY <1>6 DEF GiveUp
    <3>2. Len(rep) \in Nat /\ Len(req) \in Nat /\ late \in Nat /\ lost \in Nat /\ Cardinality(waiting) \in Nat
      BY <1>0
    <3> QED BY <1>2, <2>1, <3>1, <3>2
  <2> QED BY <1>3, <1>6, <2>1, <2>2 DEF GiveUp
<1>7. ASSUME NEW p \in Pid, Exit(p) PROVE IInv'
  <2>1. UNCHANGED <<table, lastid, job, req, rep, waiting, late, lost>> BY <1>7 DEF Exit
  <2>2. ASSUME NEW q \in Pid
        PROVE  kid'[q] = kid[q] \/ kid'[q].state \in {"free", "zombie"}
    BY <1>0, <1>7 DEF Exit, FreePid, Kid
  <2>3. Alone' BY <1>0, <2>1, <2>2 DEF Alone
  <2>4. TableInv' BY <1>0, <2>1 DEF TableInv
  <2>5. ASSUME NEW q \in Pid PROVE Kept(q)'
    <3>1. Kept(q) BY <1>0, NoOrphanKept
    <3>2. NameOf(Main, job[Main].r)' = NameOf(Main, job[Main].r) BY <2>1 DEF NameOf, Lookup
    <3> QED BY <2>1, <2>2, <3>1, <3>2 DEF Kept
  <2>6. NoOrphan' BY <2>5 DEF NoOrphan, Alive, Kept
  <2>7. CountInv' BY <1>0, <2>1 DEF CountInv, OneAnswer
  <2> QED BY <1>1, <2>3, <2>4, <2>6, <2>7 DEF IInv
<1>8. ASSUME NEW s \in Server, ServerStep(s) PROVE IInv'
  <2>1. ServerStep(Main) BY <1>0, <1>8, OnlyMain
  <2>2. Alone' /\ TableInv' /\ NoOrphan'
    <3>1. CASE FinishStart(Main) BY <3>1, FinishInv
    <3>2. ASSUME NEW r \in NextRequest,
                 \/ HandleLookup(Main, r) \/ HandleUnknown(Main, r) \/ HandleStop(Main, r)
                 \/ HandleStartAgain(Main, r) \/ HandleStart(Main, r) \/ HandleRestart(Main, r)
                 \/ HandleDeamon(Main, r) \/ HandleNoRoom(Main, r)
          PROVE  Alone' /\ TableInv' /\ NoOrphan'
      <4>1. job[Main] = NONE
        BY <3>2 DEF HandleLookup, HandleUnknown, HandleStop, HandleStartAgain, HandleStart,
                    HandleRestart, HandleDeamon, HandleNoRoom, Takes
      <4> QED BY <3>2, <4>1, RequestInv
    <3> QED BY <2>1, <3>1, <3>2 DEF ServerStep
  <2>3. CountInv' BY <2>1, <2>2, ServerCount
  <2> QED BY <1>1, <2>2, <2>3 DEF IInv
<1>9. CASE Quit
  <2> DEFINE ps == {Main} \cup {e.pid : e \in table[Main]}
  <2>1. /\ job[Main] = NONE /\ kid' = Killed(kid, Main, ps) /\ table'[Main] = {}
        /\ UNCHANGED <<lastid, job>>
    BY <1>0, <1>9 DEF Quit, Typed, TypeOK
  <2>2. \A p \in Pid : kid'[p].state # "twin" BY <1>0, <2>1, KilledAlive DEF Alone
  <2>3. ASSUME NEW p \in Pid, kid'[p].state = "alive"
        PROVE  /\ kid[p].state = "alive" /\ kid'[p].name = kid[p].name
               /\ \A e \in table[Main] : e.pid # p
    BY <1>0, <2>1, <2>3, KilledAlive
  <2>4. Alone' /\ TableInv' /\ NoOrphan' BY <1>0, <2>1, <2>2, <2>3, CalmInv
  <2>5. CountInv'
    <3>1. {s \in Server : job'[s] # NONE} = {} BY <1>0, <2>1 DEF Alone, Server
    <3>2. Cardinality({s \in Server : job'[s] # NONE}) = 0 BY <3>1, FS_EmptySet
    <3>3. IsFiniteSet(waiting)' /\ Cardinality(waiting') = 0 BY <1>9, FS_EmptySet DEF Quit
    <3>4. Len(req') = 0 /\ Len(rep') = 0 /\ late' = 0 /\ lost' = 0 BY <1>9 DEF Quit
    <3> QED BY <3>2, <3>3, <3>4 DEF CountInv, OneAnswer
  <2> QED BY <1>1, <2>4, <2>5 DEF IInv
<1>10. CASE UNCHANGED vars BY <1>0, <1>2, <1>3, <1>10 DEF vars, serverVars
<1> QED BY <1>4, <1>5, <1>6, <1>7, <1>8, <1>9, <1>10 DEF Next

\* The table of Main, its processes and the answers it owes agree throughout.
THEOREM SpecIInv == ASSUME Broken = {} PROVE Spec => []IInv
<1>1. IInv /\ [Next]_vars => IInv' BY NextIInv
<1> QED BY <1>1, InitIInv, PTL DEF Spec

\* STOP and process_exit leave no process behind, and every live process is the
\* one its entry names or the one that is being started (process_stop,
\* process_exit, process_start).
THEOREM SpecNoOrphan == ASSUME Broken = {} PROVE Spec => []NoOrphan
<1>1. IInv => NoOrphan BY DEF IInv
<1> QED BY <1>1, SpecIInv, PTL

\* Under one name at most one process is alive, however pids are used again
\* (process_start, process_restart).
THEOREM SpecOneProcess == ASSUME Broken = {} PROVE Spec => []OneProcess
<1>1. IInv => OneProcess
  <2> SUFFICES ASSUME IInv, NEW n \in Name PROVE Cardinality(Alive(n)) <= 1 BY DEF OneProcess
  <2>0. /\ NoOrphan /\ Unique(table[Main]) /\ NONE \notin Name /\ 0 \notin Pid
        /\ job[Main] # NONE => \A e \in table[Main] :
                                   e.pid = 0 <=> e \in Lookup(Main, job[Main].r)
    BY ProcessAssumption, FoundIsLookup DEF IInv, TableInv
  <2>1. ASSUME NEW p \in Alive(n), NEW e \in table[Main], e.name = n, e.pid = p,
               job[Main] # NONE, NameOf(Main, job[Main].r) = n
        PROVE  FALSE
    <3>1. p # 0 BY <2>0 DEF Alive
    <3>2. e \notin Lookup(Main, job[Main].r) BY <2>0, <2>1, <3>1
    <3>3. CASE Lookup(Main, job[Main].r) = {}
      <4>1. job[Main].r.name = n BY <2>1, <3>3 DEF NameOf
      <4> QED BY <2>0, <2>1, <3>2, <4>1 DEF Lookup
    <3>4. ASSUME NEW f \in Lookup(Main, job[Main].r) PROVE FALSE
      <4>1. f.name = n BY <2>0, <2>1, <3>4, NameFound
      <4>2. f = e BY <2>0, <2>1, <4>1 DEF Unique, Lookup
      <4> QED BY <3>2, <4>2
    <3> QED BY <3>3, <3>4
  <2>2. ASSUME NEW p \in Alive(n), NEW q \in Alive(n) PROVE p = q
    BY <2>0, <2>1 DEF NoOrphan, Unique
  <2>3. CASE Alive(n) = {} BY <2>3, FS_EmptySet
  <2>4. ASSUME NEW p \in Alive(n) PROVE Cardinality(Alive(n)) <= 1
    <3>1. Alive(n) = {p} BY <2>2
    <3>2. Cardinality(Alive(n)) = 1 BY <3>1, FS_Singleton
    <3> QED BY <3>2
  <2> QED BY <2>3, <2>4
<1> QED BY <1>1, SpecIInv, PTL

\* The connection carries or owes one answer for each request that has not got
\* its own, unless process_get has refused its arguments (process_handle,
\* os_process_action), whatever dies, who gives up and what does not fit.
THEOREM SpecOneAnswer == ASSUME Broken = {} PROVE Spec => []OneAnswer
<1>1. IInv => OneAnswer BY DEF IInv, CountInv
<1> QED BY <1>1, SpecIInv, PTL
===============================================================================
