------------------------------ MODULE HalIpcProofs ------------------------------
(* Theorems about the registration of the driver in HalIpc, for every value of  *)
(* its constants.                                                               *)
EXTENDS HalIpc, SequenceTheorems, FiniteSetTheorems, FunctionTheorems, TLAPS

TimeFunc == {"connect_timeout", "register", "hwport", "start_done", "timeout"}
Boards == [state : {"CLOSE", "CONNECT"}, sock : 0..MaxConns,
           handle : [Handle -> Func \cup {NULL}], sched : [Func -> Nat]]
Links == [end : {"free", "connecting", "open", "closed", "reset"},
          node : Node, up : Seq(Msg), down : Nat, owed : Nat]
Recs == [ipctype : {"NONE", "CMD", "EVENT"},
         state : {"NONE", "CONNECT", "INIT", "REGISTER"},
         t_read : BOOLEAN, ports : BOOLEAN]

\* The handles of a node b name threads that are scheduled.
Handles(b) ==
    /\ b \in Boards
    /\ b.handle["t_read"] \in {NULL, "read", "connect_check"}
    /\ b.handle["t_connect"] \in {NULL, "connect"}
    /\ b.handle["t_time"] \in TimeFunc \cup {NULL}
    /\ b.handle["t_time"] # NULL => b.sched[b.handle["t_time"]] > 0
    /\ b.sched["connect"] = (IF b.handle["t_connect"] = NULL THEN 0 ELSE 1)
    /\ b.sched["connect_check"] = (IF b.handle["t_read"] = "connect_check" THEN 1 ELSE 0)
    /\ b.sched["read"] = (IF b.handle["t_read"] = "read" THEN 1 ELSE 0)

Idle(b) == \A f \in {"register", "hwport", "start_done"} : b.sched[f] = 0

\* Where a node b stands with its socket.
Attached(b) ==
    /\ Handles(b)
    /\ b.sock = 0 <=> b.handle["t_connect"] # NULL
    /\ b.sock = 0 => b.state = "CLOSE" /\ b.handle["t_read"] = NULL
    /\ b.state = "CLOSE" /\ b.sock # 0 => b.handle["t_read"] = "connect_check" /\ Idle(b)
    /\ b.handle["t_read"] = "read" => b.state = "CONNECT"
    /\ b.handle["t_read"] = "connect_check" => b.state = "CLOSE"

\* The connection of a node is in its state.
Owns(n, b, l) ==
    b.sock # 0 => /\ l[b.sock].node = n
                  /\ l[b.sock].end = (IF b.state = "CONNECT" THEN "open" ELSE "connecting")

\* The table of ports has been sent: it is known or on its way.
Told(s, ports) == ports \/ \E j \in 1..Len(s) : s[j] = "HWPORT"

\* It is on its way before the driver says that it is done.
DoneAfter(s, ports) ==
    \A i \in 1..Len(s) : s[i] = "DONE" => ports \/ \E j \in 1..(i - 1) : s[j] = "HWPORT"

Owing(l) == l.down + Cardinality(Acks(l.up)) <= l.owed

\* A connection l and the record r of it.
Path(l, r) ==
    /\ l \in Links /\ r \in Recs /\ Owing(l)
    /\ l.end \in {"free", "connecting"} => l.up = <<>> /\ r.state = "NONE" /\ r.ipctype = "NONE"
    /\ l.node = "cmd" => DoneAfter(l.up, r.ports)
    /\ r.state = "REGISTER" /\ l.node = "cmd" => r.ports
    /\ r.ipctype = "CMD" => l.node = "cmd"
    /\ r.state = "REGISTER" /\ r.ipctype # "EVENT" => ~r.t_read

BoardInv ==
    /\ node \in [Node -> Boards]
    /\ \A n \in Node : Attached(node[n]) /\ Owns(n, node[n], link)
    /\ bsp \in Node \cup {"idle", "gone"}
    /\ bsp \in Node => node[bsp].state = "CONNECT" /\ node[bsp].handle["t_read"] = NULL
    /\ starter \in Node \cup {"begin", "end"} /\ portnum \in BOOLEAN

PathInv ==
    /\ link \in [Conn -> Links] /\ rec \in [Conn -> Recs] /\ client_list \in Seq(Conn)
    /\ \A c \in Conn : Path(link[c], rec[c]) /\ (rec[c].ports => Listed(c))

\* The driver says that it is done on a connection that has carried its ports.
ToldInv ==
    LET b == node["cmd"]
    IN  b.state = "CONNECT" /\ b.sched["start_done"] > 0
            => Told(link[b.sock].up, rec[b.sock].ports)

ReqInv ==
    /\ req \in [pc : {"idle", "read", "next", "loop"}, at : 0..MaxConns, all : BOOLEAN]
    /\ req.pc # "idle" => /\ req.at \in Conn /\ Listed(req.at)
                          /\ rec[req.at].state = "REGISTER" /\ ~rec[req.at].t_read

\* The inductive invariant.
IInv == BoardInv /\ PathInv /\ ToldInv /\ ReqInv

-----------------------------------------------------------------------------
(* Messages that wait to be read *)

IsAck(m) == m \in {"ACK", "ACK_ERROR"}

\* Answers in a stream can be counted.
LEMMA AcksFinite ==
    ASSUME NEW s \in Seq(Msg)
    PROVE  IsFiniteSet(Acks(s)) /\ Cardinality(Acks(s)) \in Nat
<1>1. Acks(s) \in SUBSET (1..Len(s)) BY DEF Acks
<1>2. IsFiniteSet(1..Len(s)) BY FS_Interval
<1>3. IsFiniteSet(Acks(s)) BY <1>1, <1>2, FS_Subset
<1> QED BY <1>3, FS_CardinalityType

\* A message that is added counts if it is an answer.
LEMMA AcksAppend ==
    ASSUME NEW s \in Seq(Msg), NEW m \in Msg
    PROVE  Cardinality(Acks(Append(s, m)))
              = IF IsAck(m) THEN Cardinality(Acks(s)) + 1 ELSE Cardinality(Acks(s))
<1>1. /\ Len(Append(s, m)) = Len(s) + 1 /\ Append(s, m)[Len(s) + 1] = m
      /\ \A i \in 1..Len(s) : Append(s, m)[i] = s[i]
  BY AppendProperties
<1>2. Acks(Append(s, m)) = IF IsAck(m) THEN Acks(s) \cup {Len(s) + 1} ELSE Acks(s)
  BY <1>1 DEF Acks, IsAck
<1>3. Len(s) + 1 \notin Acks(s) BY DEF Acks
<1>4. Cardinality(Acks(s) \cup {Len(s) + 1}) = Cardinality(Acks(s)) + 1
  BY <1>3, AcksFinite, FS_AddElement
<1> QED BY <1>2, <1>4

\* A message that is read does not count any more.
LEMMA AcksTail ==
    ASSUME NEW s \in Seq(Msg), s # <<>>
    PROVE  Cardinality(Acks(Tail(s)))
              <= IF IsAck(Head(s)) THEN Cardinality(Acks(s)) - 1 ELSE Cardinality(Acks(s))
<1>1. /\ Tail(s) \in Seq(Msg) /\ Len(Tail(s)) = Len(s) - 1
      /\ \A i \in 1..Len(Tail(s)) : Tail(s)[i] = s[i + 1]
  BY HeadTailProperties
<1>2. Head(s) = s[1] /\ Len(s) \in Nat \ {0} OBVIOUS
<1> DEFINE S == Acks(Tail(s))
           T == Acks(s) \ {1}
           f == [i \in S |-> i + 1]
<1>3. \A i \in S : i \in Int /\ i + 1 \in T
  <2> SUFFICES ASSUME NEW i \in S PROVE i \in Int /\ i + 1 \in T OBVIOUS
  <2>1. i \in 1..Len(Tail(s)) /\ IsAck(Tail(s)[i]) BY DEF Acks, IsAck
  <2>2. i + 1 \in 1..Len(s) /\ i + 1 # 1 /\ s[i + 1] = Tail(s)[i] BY <1>1, <1>2, <2>1
  <2> QED BY <2>1, <2>2 DEF Acks, IsAck
<1>4. f \in Injection(S, T)
  <2>1. f \in [S -> T] BY <1>3
  <2>2. \A i, j \in S : f[i] = f[j] => i = j BY <1>3
  <2> QED BY <2>1, <2>2 DEF Injection, IsInjective
<1>5. IsFiniteSet(Acks(s)) /\ Cardinality(Acks(s)) \in Nat BY AcksFinite
<1>6. /\ IsFiniteSet(T)
      /\ Cardinality(T) = IF 1 \in Acks(s) THEN Cardinality(Acks(s)) - 1
                                             ELSE Cardinality(Acks(s))
  BY <1>5, FS_RemoveElement
<1>7. Cardinality(S) <= Cardinality(T) BY <1>4, <1>6, FS_Injection
<1>8. (1 \in Acks(s)) = IsAck(Head(s)) BY <1>2 DEF Acks, IsAck
<1> QED BY <1>6, <1>7, <1>8

\* What is told stays told when messages are added, and when one is read that is
\* no table of ports or makes them known.
LEMMA ToldAppend ==
    ASSUME NEW s \in Seq(Msg), NEW m \in Msg, NEW ports
    PROVE  /\ Told(s, ports) => Told(Append(s, m), ports)
           /\ m = "HWPORT" => Told(Append(s, m), ports)
           /\ DoneAfter(s, ports) /\ (m = "DONE" => Told(s, ports))
                  => DoneAfter(Append(s, m), ports)
<1>1. /\ Len(Append(s, m)) = Len(s) + 1 /\ Append(s, m)[Len(s) + 1] = m
      /\ \A i \in 1..Len(s) : Append(s, m)[i] = s[i] /\ i \in 1..(Len(s) + 1)
      /\ Len(s) \in Nat
  BY AppendProperties
<1>2. Told(s, ports) => Told(Append(s, m), ports) BY <1>1 DEF Told
<1>3. m = "HWPORT" => Told(Append(s, m), ports) BY <1>1 DEF Told
<1>4. ASSUME DoneAfter(s, ports), m = "DONE" => Told(s, ports)
      PROVE  DoneAfter(Append(s, m), ports)
  <2> SUFFICES ASSUME NEW i \in 1..(Len(s) + 1), Append(s, m)[i] = "DONE", ~ports
               PROVE  \E j \in 1..(i - 1) : Append(s, m)[j] = "HWPORT"
    BY <1>1 DEF DoneAfter
  <2>1. CASE i = Len(s) + 1
    <3>1. PICK j \in 1..Len(s) : s[j] = "HWPORT" BY <1>1, <1>4, <2>1 DEF Told
    <3> QED BY <1>1, <2>1, <3>1
  <2>2. CASE i \in 1..Len(s)
    <3>1. PICK j \in 1..(i - 1) : s[j] = "HWPORT" BY <1>1, <1>4, <2>2 DEF DoneAfter
    <3> QED BY <1>1, <2>2, <3>1
  <2> QED BY <1>1, <2>1, <2>2
<1> QED BY <1>2, <1>3, <1>4

\* Reading the head of a stream keeps the table of ports before STARTDONE.
LEMMA ToldTail ==
    ASSUME NEW s \in Seq(Msg), s # <<>>, NEW p, NEW q, p => q,
           Head(s) = "HWPORT" => q
    PROVE  /\ Told(s, p) => Told(Tail(s), q)
           /\ DoneAfter(s, p) => DoneAfter(Tail(s), q)
           /\ DoneAfter(s, p) /\ Head(s) = "DONE" => p
<1>1. /\ Tail(s) \in Seq(Msg) /\ Len(Tail(s)) = Len(s) - 1
      /\ \A i \in 1..Len(Tail(s)) : Tail(s)[i] = s[i + 1]
  BY HeadTailProperties
<1>2. Head(s) = s[1] /\ Len(s) \in Nat \ {0} OBVIOUS
<1>3. ASSUME NEW j \in 1..Len(s), s[j] = "HWPORT", ~q
      PROVE  j - 1 \in 1..Len(Tail(s)) /\ Tail(s)[j - 1] = "HWPORT"
  <2>1. j # 1 BY <1>2, <1>3
  <2>2. j - 1 \in 1..Len(Tail(s)) /\ (j - 1) + 1 = j BY <1>1, <1>2, <2>1
  <2> QED BY <1>1, <1>3, <2>2
<1>4. Told(s, p) => Told(Tail(s), q) BY <1>3 DEF Told
<1>5. ASSUME DoneAfter(s, p) PROVE DoneAfter(Tail(s), q)
  <2> SUFFICES ASSUME NEW i \in 1..Len(Tail(s)), Tail(s)[i] = "DONE", ~q
               PROVE  \E j \in 1..(i - 1) : Tail(s)[j] = "HWPORT"
    BY DEF DoneAfter
  <2>1. i + 1 \in 1..Len(s) /\ s[i + 1] = "DONE" BY <1>1, <1>2
  <2>2. PICK j \in 1..((i + 1) - 1) : s[j] = "HWPORT" BY <1>5, <2>1 DEF DoneAfter
  <2>3. j \in 1..Len(s) BY <1>1, <1>2, <2>2
  <2>4. j - 1 \in 1..Len(Tail(s)) /\ Tail(s)[j - 1] = "HWPORT" BY <1>3, <2>2, <2>3
  <2>5. j - 1 \in 1..(i - 1) BY <2>2, <2>4, <1>1, <1>2
  <2> QED BY <2>4, <2>5
<1>6. DoneAfter(s, p) /\ Head(s) = "DONE" => p
  <2> SUFFICES ASSUME DoneAfter(s, p), Head(s) = "DONE" PROVE p OBVIOUS
  <2>1. 1 \in 1..Len(s) /\ s[1] = "DONE" BY <1>2
  <2>2. p \/ \E j \in 1..(1 - 1) : s[j] = "HWPORT" BY <2>1 DEF DoneAfter
  <2> QED BY <2>2
<1> QED BY <1>4, <1>5, <1>6

-----------------------------------------------------------------------------
(* The threads of a node *)

\* A callback is not NULL.
LEMMA FuncNotNull == NULL \notin Func
BY HalIpcAssumption DEF Func

\* Scheduling a callback sets its handle and changes nothing else.
LEMMA PutFacts ==
    ASSUME NEW b \in Boards, NEW h \in Handle, NEW f \in Func
    PROVE  /\ Put(b, h, f) \in Boards
           /\ Put(b, h, f).sched = [b.sched EXCEPT ![f] = @ + 1]
           /\ Put(b, h, f).handle = [b.handle EXCEPT ![h] = f]
           /\ Put(b, h, f).state = b.state /\ Put(b, h, f).sock = b.sock
<1>1. b.sched \in [Func -> Nat] /\ b.handle \in [Handle -> Func \cup {NULL}] BY DEF Boards
<1>2. [b.sched EXCEPT ![f] = b.sched[f] + 1] \in [Func -> Nat] BY <1>1
<1>3. [b.handle EXCEPT ![h] = f] \in [Handle -> Func \cup {NULL}] BY <1>1
<1>4. Put(b, h, f).sched = [b.sched EXCEPT ![f] = @ + 1] BY DEF Put, Boards
<1>5. Put(b, h, f).handle = [b.handle EXCEPT ![h] = f] BY DEF Put, Boards
<1>6. Put(b, h, f).state = b.state /\ Put(b, h, f).sock = b.sock BY DEF Put, Boards
<1>7. Put(b, h, f) \in Boards BY <1>2, <1>3 DEF Put, Boards
<1> QED BY <1>4, <1>5, <1>6, <1>7

\* A callback that is taken to be run clears its handle and changes nothing else.
LEMMA RanFacts ==
    ASSUME NEW b \in Boards, NEW h \in Handle, NEW f \in Func, b.sched[f] > 0
    PROVE  /\ Ran(b, h, f) \in Boards
           /\ Ran(b, h, f).sched = [b.sched EXCEPT ![f] = @ - 1]
           /\ Ran(b, h, f).handle = [b.handle EXCEPT ![h] = NULL]
           /\ Ran(b, h, f).state = b.state /\ Ran(b, h, f).sock = b.sock
<1>1. b.sched \in [Func -> Nat] /\ b.handle \in [Handle -> Func \cup {NULL}] BY DEF Boards
<1>2. [b.sched EXCEPT ![f] = b.sched[f] - 1] \in [Func -> Nat]
  <2>1. b.sched[f] - 1 \in Nat BY <1>1
  <2> QED BY <1>1, <2>1
<1>3. [b.handle EXCEPT ![h] = NULL] \in [Handle -> Func \cup {NULL}] BY <1>1
<1>4. Ran(b, h, f).sched = [b.sched EXCEPT ![f] = @ - 1] BY DEF Ran, Boards
<1>5. Ran(b, h, f).handle = [b.handle EXCEPT ![h] = NULL] BY DEF Ran, Boards
<1>6. Ran(b, h, f).state = b.state /\ Ran(b, h, f).sock = b.sock BY DEF Ran, Boards
<1>7. Ran(b, h, f) \in Boards BY <1>2, <1>3 DEF Ran, Boards
<1> QED BY <1>4, <1>5, <1>6, <1>7

\* A timer f of the registration, or of the waiting for it, is started.
LEMMA PutTime ==
    ASSUME NEW b, Handles(b), NEW f \in TimeFunc
    PROVE  LET d == Put(b, "t_time", f)
           IN  /\ Handles(d) /\ d.state = b.state /\ d.sock = b.sock
               /\ d.handle["t_read"] = b.handle["t_read"]
               /\ d.handle["t_connect"] = b.handle["t_connect"]
               /\ d.handle["t_time"] = f
               /\ \A g \in Func \ {f} : d.sched[g] = b.sched[g]
<1> DEFINE d == Put(b, "t_time", f)
<1>0. b \in Boards /\ f \in Func /\ "t_time" \in Handle BY DEF Handles, TimeFunc, Func, Handle
<1>1. /\ d \in Boards /\ d.sched = [b.sched EXCEPT ![f] = @ + 1]
      /\ d.handle = [b.handle EXCEPT !["t_time"] = f]
      /\ d.state = b.state /\ d.sock = b.sock
  BY <1>0, PutFacts
<1> HIDE DEF d
<1>2. b.sched \in [Func -> Nat] /\ b.handle \in [Handle -> Func \cup {NULL}] BY <1>0 DEF Boards
<1>3. d.sched[f] > 0 /\ \A g \in Func \ {f} : d.sched[g] = b.sched[g] BY <1>0, <1>1, <1>2
<1>4. /\ d.handle["t_time"] = f
      /\ d.handle["t_read"] = b.handle["t_read"]
      /\ d.handle["t_connect"] = b.handle["t_connect"]
  BY <1>1, <1>2 DEF Handle
<1>5. Handles(d) BY <1>1, <1>3, <1>4 DEF Handles, TimeFunc, Func
<1> QED BY <1>1, <1>3, <1>4, <1>5 DEF d

\* It runs, or is cancelled.
LEMMA RanTime ==
    ASSUME NEW b, Handles(b), NEW f \in TimeFunc, b.sched[f] > 0
    PROVE  LET d == Ran(b, "t_time", f)
           IN  /\ Handles(d) /\ d.state = b.state /\ d.sock = b.sock
               /\ d.handle["t_read"] = b.handle["t_read"]
               /\ d.handle["t_connect"] = b.handle["t_connect"]
               /\ d.handle["t_time"] = NULL
               /\ \A g \in Func : d.sched[g] <= b.sched[g]
<1> DEFINE d == Ran(b, "t_time", f)
<1>0. b \in Boards /\ f \in Func /\ "t_time" \in Handle BY DEF Handles, TimeFunc, Func, Handle
<1>1. /\ d \in Boards /\ d.sched = [b.sched EXCEPT ![f] = @ - 1]
      /\ d.handle = [b.handle EXCEPT !["t_time"] = NULL]
      /\ d.state = b.state /\ d.sock = b.sock
  BY <1>0, RanFacts
<1> HIDE DEF d
<1>2. b.sched \in [Func -> Nat] /\ b.handle \in [Handle -> Func \cup {NULL}] BY <1>0 DEF Boards
<1>3. \A g \in Func : g # f => d.sched[g] = b.sched[g] BY <1>0, <1>1, <1>2
<1>6. d.sched[f] = b.sched[f] - 1 BY <1>0, <1>1, <1>2
<1>7. \A g \in Func : d.sched[g] <= b.sched[g] BY <1>0, <1>2, <1>3, <1>6
<1>4. /\ d.handle["t_time"] = NULL
      /\ d.handle["t_read"] = b.handle["t_read"]
      /\ d.handle["t_connect"] = b.handle["t_connect"]
  BY <1>1, <1>2 DEF Handle
<1>5. Handles(d) BY <1>0, <1>1, <1>3, <1>4 DEF Handles, TimeFunc, Func
<1> QED BY <1>1, <1>4, <1>5, <1>7 DEF d

\* THREAD_OFF of t_time leaves the other handles and schedules nothing.
LEMMA OffTime ==
    ASSUME NEW b, Handles(b)
    PROVE  LET d == Off(b, "t_time")
           IN  /\ Handles(d) /\ d.state = b.state /\ d.sock = b.sock
               /\ d.handle["t_read"] = b.handle["t_read"]
               /\ d.handle["t_connect"] = b.handle["t_connect"]
               /\ d.handle["t_time"] = NULL
               /\ \A g \in Func : d.sched[g] <= b.sched[g]
<1>1. CASE b.handle["t_time"] = NULL
  <2>1. b.sched \in [Func -> Nat] BY DEF Handles, Boards
  <2> QED BY <1>1, <2>1 DEF Off
<1>2. CASE b.handle["t_time"] # NULL
  <2>1. b.handle["t_time"] \in TimeFunc /\ b.sched[b.handle["t_time"]] > 0
    BY <1>2 DEF Handles
  <2>2. Off(b, "t_time") = Ran(b, "t_time", b.handle["t_time"]) BY <1>2 DEF Off
  <2> QED BY <2>1, <2>2, RanTime
<1> QED BY <1>1, <1>2

\* A thread f of h, which is the only one of its function, is started, ...
LEMMA PutOther ==
    ASSUME NEW b, Handles(b), NEW h \in {"t_read", "t_connect"}, b.handle[h] = NULL,
           NEW f \in IF h = "t_read" THEN {"read", "connect_check"} ELSE {"connect"}
    PROVE  LET d == Put(b, h, f)
           IN  /\ Handles(d) /\ d.state = b.state /\ d.sock = b.sock
               /\ d.handle[h] = f
               /\ \A k \in Handle \ {h} : d.handle[k] = b.handle[k]
               /\ \A g \in TimeFunc : d.sched[g] = b.sched[g]
<1> DEFINE d == Put(b, h, f)
<1>0. b \in Boards /\ f \in Func /\ h \in Handle BY DEF Handles, Func, Handle
<1>1. /\ d \in Boards /\ d.sched = [b.sched EXCEPT ![f] = @ + 1]
      /\ d.handle = [b.handle EXCEPT ![h] = f]
      /\ d.state = b.state /\ d.sock = b.sock
  BY <1>0, PutFacts
<1> HIDE DEF d
<1>2. b.sched \in [Func -> Nat] /\ b.handle \in [Handle -> Func \cup {NULL}] BY <1>0 DEF Boards
<1>3. d.sched[f] = b.sched[f] + 1 /\ \A g \in Func \ {f} : d.sched[g] = b.sched[g]
  BY <1>0, <1>1, <1>2
<1>4. d.handle[h] = f /\ \A k \in Handle \ {h} : d.handle[k] = b.handle[k]
  BY <1>0, <1>1, <1>2
<1>5. \A g \in TimeFunc : g \in Func /\ g # f BY DEF TimeFunc, Func
<1>6. Handles(d)
  <2>1. CASE h = "t_connect"
    BY <2>1, <1>1, <1>3, <1>4, <1>5, FuncNotNull DEF Handles, Handle, Func
  <2>2. CASE h = "t_read" /\ f = "read"
    BY <2>2, <1>1, <1>3, <1>4, <1>5, FuncNotNull DEF Handles, Handle, Func
  <2>3. CASE h = "t_read" /\ f = "connect_check"
    BY <2>3, <1>1, <1>3, <1>4, <1>5, FuncNotNull DEF Handles, Handle, Func
  <2> QED BY <2>1, <2>2, <2>3
<1> QED BY <1>1, <1>3, <1>4, <1>5, <1>6 DEF d

\* ... and runs, or is cancelled.
LEMMA RanOther ==
    ASSUME NEW b, Handles(b), NEW h \in {"t_read", "t_connect"},
           b.handle[h] # NULL, NEW f, f = b.handle[h]
    PROVE  LET d == Ran(b, h, f)
           IN  /\ Handles(d) /\ d.state = b.state /\ d.sock = b.sock
               /\ d.handle[h] = NULL
               /\ \A k \in Handle \ {h} : d.handle[k] = b.handle[k]
               /\ \A g \in TimeFunc : d.sched[g] = b.sched[g]
<1> DEFINE d == Ran(b, h, f)
<1>0. /\ b \in Boards /\ f \in Func /\ h \in Handle /\ b.sched[f] = 1
      /\ f \in IF h = "t_read" THEN {"read", "connect_check"} ELSE {"connect"}
  BY FuncNotNull DEF Handles, Func, Handle
<1>1. /\ d \in Boards /\ d.sched = [b.sched EXCEPT ![f] = @ - 1]
      /\ d.handle = [b.handle EXCEPT ![h] = NULL]
      /\ d.state = b.state /\ d.sock = b.sock
  BY <1>0, RanFacts
<1> HIDE DEF d
<1>2. b.sched \in [Func -> Nat] /\ b.handle \in [Handle -> Func \cup {NULL}] BY <1>0 DEF Boards
<1>3. d.sched[f] = 0 /\ \A g \in Func \ {f} : d.sched[g] = b.sched[g]
  BY <1>0, <1>1, <1>2
<1>4. d.handle[h] = NULL /\ \A k \in Handle \ {h} : d.handle[k] = b.handle[k]
  BY <1>0, <1>1, <1>2
<1>5. \A g \in TimeFunc : g \in Func /\ g # f BY <1>0 DEF TimeFunc, Func
<1>6. Handles(d)
  <2>1. CASE h = "t_connect"
    BY <2>1, <1>0, <1>1, <1>3, <1>4, <1>5, FuncNotNull DEF Handles, Handle, Func
  <2>2. CASE h = "t_read" /\ f = "read"
    BY <2>2, <1>0, <1>1, <1>3, <1>4, <1>5, FuncNotNull DEF Handles, Handle, Func
  <2>3. CASE h = "t_read" /\ f = "connect_check"
    BY <2>3, <1>0, <1>1, <1>3, <1>4, <1>5, FuncNotNull DEF Handles, Handle, Func
  <2> QED BY <1>0, <2>1, <2>2, <2>3
<1> QED BY <1>1, <1>3, <1>4, <1>5, <1>6 DEF d

\* THREAD_OFF of t_read or t_connect clears that handle only.
LEMMA OffOther ==
    ASSUME NEW b, Handles(b), NEW h \in {"t_read", "t_connect"}
    PROVE  LET d == Off(b, h)
           IN  /\ Handles(d) /\ d.state = b.state /\ d.sock = b.sock
               /\ d.handle[h] = NULL
               /\ \A k \in Handle \ {h} : d.handle[k] = b.handle[k]
<1>1. CASE b.handle[h] = NULL BY <1>1 DEF Off
<1>2. CASE b.handle[h] # NULL
  <2>1. Off(b, h) = Ran(b, h, b.handle[h]) BY <1>2 DEF Off
  <2> QED BY <1>2, <2>1, RanOther
<1> QED BY <1>1, <1>2

\* A node that has failed has nothing but the thread that connects again.
LEMMA FailedBoard ==
    ASSUME NEW b, Handles(b)
    PROVE  LET d == EventConnect(Stop(b))
           IN  Attached(d) /\ d.sock = 0 /\ d.state = "CLOSE"
<1> DEFINE b1 == Off(b, "t_read")
           b2 == Off(b1, "t_connect")
           b3 == Off(b2, "t_time")
           e == Stop(b)
<1>1. Handles(b1) /\ b1.handle["t_read"] = NULL BY OffOther DEF Handle
<1> HIDE DEF b1
<1>2. Handles(b2) /\ b2.handle["t_connect"] = NULL /\ b2.handle["t_read"] = NULL
  BY <1>1, OffOther DEF Handle
<1> HIDE DEF b2
<1>3. Handles(b3) /\ b3.handle["t_connect"] = NULL /\ b3.handle["t_read"] = NULL
  BY <1>2, OffTime DEF Handle
<1> HIDE DEF b3
<1>4. e = [b3 EXCEPT !.state = "CLOSE", !.sock = 0] BY DEF Stop, b1, b2, b3
<1>5. b3 \in Boards BY <1>3 DEF Handles
<1>6. /\ e \in Boards /\ e.state = "CLOSE" /\ e.sock = 0
      /\ e.handle = b3.handle /\ e.sched = b3.sched
  <2>1. 0 \in 0..MaxConns BY HalIpcAssumption
  <2> HIDE DEF e
  <2> QED BY <1>4, <1>5, <2>1 DEF Boards
<1> HIDE DEF e
<1>7. Handles(e) BY <1>3, <1>6 DEF Handles
<1>8. EventConnect(e) = Put(e, "t_connect", "connect") BY <1>3, <1>6 DEF EventConnect
<1>9. LET d == Put(e, "t_connect", "connect")
      IN  /\ Handles(d) /\ d.state = "CLOSE" /\ d.sock = 0
          /\ d.handle["t_connect"] = "connect" /\ d.handle["t_read"] = NULL
  BY <1>3, <1>6, <1>7, PutOther DEF Handle
<1> QED BY <1>8, <1>9, HalIpcAssumption DEF e, Attached

-----------------------------------------------------------------------------
(* Steps of bspTask and of the task that starts the driver *)

\* Where the node of a connection is.
LEMMA BoardFacts ==
    ASSUME BoardInv, NEW n \in Node
    PROVE  /\ node[n] \in Boards /\ Handles(node[n]) /\ Attached(node[n])
           /\ Owns(n, node[n], link)
           /\ node[n].sock # 0 => node[n].sock \in Conn
           /\ node[n].state = "CONNECT" => node[n].sock # 0
<1>1. Attached(node[n]) /\ Owns(n, node[n], link) BY DEF BoardInv
<1>2. Handles(node[n]) /\ node[n] \in Boards BY <1>1 DEF Attached, Handles
<1>3. node[n].sock \in 0..MaxConns BY <1>2 DEF Boards
<1> QED BY <1>1, <1>2, <1>3, HalIpcAssumption DEF Attached, Conn

\* A connection is of one node.
LEMMA OneOwner ==
    ASSUME BoardInv, NEW n \in Node, NEW m \in Node, n # m, node[n].sock # 0
    PROVE  node[m].sock # node[n].sock
BY BoardFacts DEF Owns

\* Node n becomes d, which has its connection in link'.
LEMMA BoardStep ==
    ASSUME BoardInv, NEW n \in Node, NEW d, Attached(d), Owns(n, d, link'),
           node' = [node EXCEPT ![n] = d],
           \A m \in Node \ {n} : Owns(m, node[m], link'),
           bsp' = bsp \/ bsp' \in {"idle", "gone", n},
           bsp' = n => d.state = "CONNECT" /\ d.handle["t_read"] = NULL,
           starter' \in Node \cup {"begin", "end"}, portnum' \in BOOLEAN
    PROVE  BoardInv'
<1>1. node \in [Node -> Boards] /\ d \in Boards BY DEF BoardInv, Attached, Handles
<1>2. node' \in [Node -> Boards] BY <1>1
<1>3. node'[n] = d /\ \A m \in Node \ {n} : node'[m] = node[m] BY <1>1
<1>4. \A m \in Node : Attached(node'[m]) /\ Owns(m, node'[m], link') BY <1>3 DEF BoardInv
<1>5. "idle" \notin Node /\ "gone" \notin Node BY HalIpcAssumption
<1>6. bsp' \in Node => node'[bsp'].state = "CONNECT" /\ node'[bsp'].handle["t_read"] = NULL
  <2>1. CASE bsp' = n BY <1>3, <2>1
  <2>2. CASE bsp' # n /\ bsp' = bsp BY <1>3, <2>2 DEF BoardInv
  <2>3. CASE bsp' \in {"idle", "gone"} BY <1>5, <2>3
  <2> QED BY <2>1, <2>2, <2>3
<1>7. bsp' \in Node \cup {"idle", "gone"} BY DEF BoardInv
<1> QED BY <1>2, <1>4, <1>6, <1>7 DEF BoardInv

\* The server and the request are not looked at.
LEMMA SameReq ==
    ASSUME ReqInv, UNCHANGED <<srvVars, req>>
    PROVE  ReqInv' /\ \A c \in Conn : Listed(c)' = Listed(c)
BY DEF ReqInv, srvVars, Listed

\* One connection changes to l, on a path that is as good.
LEMMA PathStep ==
    ASSUME PathInv, NEW c \in Conn, NEW l, Path(l, rec[c]),
           link' = [link EXCEPT ![c] = l], UNCHANGED srvVars
    PROVE  PathInv'
<1>1. l \in Links BY DEF Path
<1>2. link \in [Conn -> Links] BY DEF PathInv
<1>3. link' \in [Conn -> Links] BY <1>1, <1>2
<1>4. link'[c] = l /\ \A d \in Conn \ {c} : link'[d] = link[d] BY <1>2
<1>5. \A d \in Conn : Path(link'[d], rec'[d]) BY <1>4 DEF PathInv, srvVars
<1>6. \A d \in Conn : rec'[d].ports => Listed(d)' BY DEF PathInv, srvVars, Listed
<1> QED BY <1>3, <1>5, <1>6 DEF PathInv, srvVars

\* A node of which nothing but timers changes, and a message is sent or not.
LEMMA SendStep ==
    ASSUME IInv, NEW n \in Node, NEW d, Attached(d),
           d.state = node[n].state, d.sock = node[n].sock,
           node' = [node EXCEPT ![n] = d],
           NEW m \in {"HELLO", "REGISTER", "HWPORT", "DONE"},
           link' = Sent(d, m) \/ link' = link,
           m = "DONE" /\ n = "cmd" /\ node[n].state = "CONNECT" /\ link' # link
               => node[n].sched["start_done"] > 0,
           n = "cmd" /\ d.sched["start_done"] > 0
               => node[n].sched["start_done"] > 0
                  \/ (m = "HWPORT" /\ link' = Sent(d, m)),
           bsp' = bsp \/ bsp' = "idle",
           bsp' = n => d.handle["t_read"] = NULL,
           starter' \in Node \cup {"begin", "end"}, portnum' \in BOOLEAN,
           UNCHANGED <<srvVars, req>>
    PROVE  IInv'
<1> DEFINE c == node[n].sock
           l == [link[c] EXCEPT !.up = Append(@, m)]
           sent == node[n].state = "CONNECT" /\ link' = Sent(d, m)
<1>0. BoardInv /\ PathInv /\ ToldInv /\ ReqInv BY DEF IInv
<1>1. /\ Attached(node[n]) /\ Owns(n, node[n], link) /\ (c # 0 => c \in Conn)
      /\ node[n].state = "CONNECT" => c # 0
  BY <1>0, BoardFacts
<1>2. bsp' = n => d.state = "CONNECT"
  <2>1. bsp' = n => bsp = n BY HalIpcAssumption
  <2> QED BY <1>0, <2>1 DEF BoardInv
<1>3. ReqInv' BY <1>0, SameReq
<1>n. node'[n] = d /\ \A k \in Node \ {n} : node'[k] = node[k] BY <1>0 DEF BoardInv
<1>4. CASE ~sent
  <2>1. link' = link BY <1>4 DEF Sent
  <2>2. Owns(n, d, link') BY <1>1, <2>1 DEF Owns
  <2>3. BoardInv' BY <1>0, <1>2, <2>1, <2>2, BoardStep DEF BoardInv
  <2>4. PathInv' BY <1>0, <2>1, SameReq DEF PathInv, srvVars
  <2>5. ToldInv'
    <3>1. CASE n = "cmd"
      <4> SUFFICES ASSUME d.state = "CONNECT", d.sched["start_done"] > 0
                   PROVE  Told(link[c].up, rec[c].ports)
        BY <1>n, <2>1, <3>1 DEF ToldInv, srvVars
      <4>1. node[n].sched["start_done"] > 0 BY <1>4, <3>1
      <4> QED BY <1>0, <3>1, <4>1 DEF ToldInv
    <3>2. CASE n # "cmd"
      <4>1. node'["cmd"] = node["cmd"] BY <1>n, <3>2, HalIpcAssumption
      <4> QED BY <1>0, <2>1, <4>1 DEF ToldInv, srvVars
    <3> QED BY <3>1, <3>2
  <2> QED BY <1>3, <2>3, <2>4, <2>5 DEF IInv
<1>5. CASE sent
  <2>1. c \in Conn BY <1>1, <1>5
  <2>2. link \in [Conn -> Links] /\ Path(link[c], rec[c]) BY <1>0, <2>1 DEF PathInv
  <2>3. link[c] \in Links /\ link[c].up \in Seq(Msg) /\ m \in Msg BY <2>1, <2>2 DEF Links, Msg
  <2>4. link' = [link EXCEPT ![c] = l] BY <1>5 DEF Sent
  <2>5. /\ l \in Links /\ l.up = Append(link[c].up, m) /\ l.node = link[c].node
        /\ l.end = link[c].end /\ l.down = link[c].down /\ l.owed = link[c].owed
    BY <2>3, AppendProperties DEF Links
  <2> HIDE DEF l
  <2>6. link'[c] = l /\ \A k \in Conn \ {c} : link'[k] = link[k] BY <2>1, <2>2, <2>4
  <2>7. link[c].node = n /\ link[c].end = "open" BY <1>1, <1>5 DEF Owns
  <2>8. Owing(l)
    <3>1. Cardinality(Acks(l.up)) = Cardinality(Acks(link[c].up))
      BY <2>3, <2>5, AcksAppend DEF IsAck
    <3> QED BY <2>2, <2>5, <3>1 DEF Path, Owing
  <2>9. n = "cmd" => DoneAfter(l.up, rec[c].ports)
    <3> SUFFICES ASSUME n = "cmd" PROVE DoneAfter(l.up, rec[c].ports) OBVIOUS
    <3>1. DoneAfter(link[c].up, rec[c].ports) BY <2>2, <2>7 DEF Path
    <3>2. m = "DONE" => Told(link[c].up, rec[c].ports)
      <4>1. link' # link
        <5>1. Len(l.up) = Len(link[c].up) + 1 BY <2>3, <2>5, AppendProperties
        <5> QED BY <2>3, <2>6, <5>1
      <4>2. m = "DONE" => node[n].sched["start_done"] > 0 BY <1>5, <4>1
      <4> QED BY <1>0, <1>5, <4>2 DEF ToldInv
    <3> QED BY <2>3, <2>5, <3>1, <3>2, ToldAppend
  <2>10. Path(l, rec[c]) BY <2>2, <2>5, <2>7, <2>8, <2>9 DEF Path
  <2>11. PathInv' BY <1>0, <2>1, <2>4, <2>10, PathStep
  <2>12. Owns(n, d, link') BY <1>5, <2>5, <2>6, <2>7 DEF Owns
  <2>13. \A k \in Node \ {n} : Owns(k, node[k], link')
    <3> SUFFICES ASSUME NEW k \in Node \ {n}, node[k].sock # 0 PROVE Owns(k, node[k], link')
      BY DEF Owns
    <3>1. node[k].sock # c BY <1>0, <1>1, <1>5, OneOwner
    <3>2. node[k].sock \in Conn /\ Owns(k, node[k], link) BY <1>0, BoardFacts
    <3> QED BY <2>6, <3>1, <3>2 DEF Owns
  <2>14. BoardInv' BY <1>0, <1>2, <2>12, <2>13, BoardStep
  <2>15. ToldInv'
    <3>1. CASE n = "cmd"
      <4> SUFFICES ASSUME d.sched["start_done"] > 0 PROVE Told(l.up, rec[c].ports)
        BY <1>n, <2>6, <3>1 DEF ToldInv, srvVars
      <4>1. CASE node[n].sched["start_done"] > 0
        <5>1. Told(link[c].up, rec[c].ports) BY <1>0, <1>5, <3>1, <4>1 DEF ToldInv
        <5> QED BY <2>3, <2>5, <5>1, ToldAppend
      <4>2. CASE m = "HWPORT" BY <2>3, <2>5, <4>2, ToldAppend
      <4> QED BY <3>1, <4>1, <4>2
    <3>2. CASE n # "cmd"
      <4>1. node'["cmd"] = node["cmd"] BY <1>n, <3>2, HalIpcAssumption
      <4>2. ASSUME node["cmd"].state = "CONNECT"
            PROVE  link'[node["cmd"].sock] = link[node["cmd"].sock]
        <5>1. "cmd" \in Node BY HalIpcAssumption
        <5>2. node["cmd"].sock # c BY <1>0, <1>1, <1>5, <3>2, <5>1, OneOwner
        <5>3. node["cmd"].sock \in Conn BY <1>0, <4>2, <5>1, BoardFacts
        <5> QED BY <2>6, <5>2, <5>3
      <4> QED BY <1>0, <4>1, <4>2 DEF ToldInv, srvVars
    <3> QED BY <3>1, <3>2
  <2> QED BY <1>3, <2>11, <2>14, <2>15 DEF IInv
<1> QED BY <1>4, <1>5

\* A node of which nothing but timers changes.
LEMMA TimerStep ==
    ASSUME IInv, NEW n \in Node, NEW d, Attached(d),
           d.state = node[n].state, d.sock = node[n].sock,
           node' = [node EXCEPT ![n] = d], link' = link,
           n = "cmd" /\ d.sched["start_done"] > 0 => node[n].sched["start_done"] > 0,
           bsp' = bsp \/ bsp' = "idle",
           bsp' = n => d.handle["t_read"] = NULL,
           starter' \in Node \cup {"begin", "end"}, portnum' \in BOOLEAN,
           UNCHANGED <<srvVars, req>>
    PROVE  IInv'
<1>1. "HELLO" # "DONE" OBVIOUS
<1> QED BY <1>1, SendStep

\* A connection that carries nothing yet.
LEMMA EmptyPath ==
    ASSUME NEW n \in Node, NEW e \in {"free", "connecting"}, NEW s, s = <<>>,
           NEW l, l = [end |-> e, node |-> n, up |-> s, down |-> 0, owed |-> 0],
           NEW r \in Recs, r.state = "NONE", r.ipctype = "NONE"
    PROVE  Path(l, r) /\ l.node = n /\ l.end = e
<1>1. s \in Seq(Msg) /\ Len(s) = 0 OBVIOUS
<1>2. l.end = e /\ l.node = n /\ l.up = s /\ l.down = 0 /\ l.owed = 0 OBVIOUS
<1>3. l \in Links BY <1>1 DEF Links
<1>4. Acks(s) = {} BY <1>1 DEF Acks
<1>5. Cardinality(Acks(s)) = 0 BY <1>4, FS_EmptySet
<1>6. Owing(l) BY <1>2, <1>5 DEF Owing
<1>7. DoneAfter(s, r.ports) BY <1>1 DEF DoneAfter
<1> QED BY <1>2, <1>3, <1>6, <1>7 DEF Path

\* The node of commands keeps its connection while another one changes.
LEMMA SameTold ==
    ASSUME IInv, node'["cmd"] = node["cmd"], UNCHANGED srvVars,
           NEW n \in Node \ {"cmd"},
           NEW c \in Conn, c = node[n].sock \/ link[c].end = "free",
           \A k \in Conn \ {c} : link'[k] = link[k]
    PROVE  ToldInv'
<1>0. BoardInv /\ ToldInv /\ "cmd" \in Node BY HalIpcAssumption DEF IInv
<1>1. ASSUME node["cmd"].state = "CONNECT"
      PROVE  link'[node["cmd"].sock] = link[node["cmd"].sock]
  <2>1. node["cmd"].sock # 0 /\ node["cmd"].sock \in Conn BY <1>0, <1>1, BoardFacts
  <2>2. link[node["cmd"].sock].end = "open" BY <1>0, <1>1, <2>1, BoardFacts DEF Owns
  <2>3. node["cmd"].sock # node[n].sock BY <1>0, <2>1, OneOwner
  <2> QED BY <2>1, <2>2, <2>3
<1> QED BY <1>0, <1>1 DEF ToldInv, srvVars

\* hal_client_node_failed, from what is left of the node, b, and hal_client_reset.
LEMMA FailedStep ==
    ASSUME IInv, NEW n \in Node, NEW b, Handles(b), b.sock = node[n].sock, bsp = "idle",
           Failed(n, b), bsp' \in {bsp, "gone"},
           UNCHANGED <<portnum, starter, srvVars, req>>
    PROVE  IInv'
<1> DEFINE d == EventConnect(Stop(b))
           c == node[n].sock
<1>0. BoardInv /\ PathInv /\ ToldInv /\ ReqInv BY DEF IInv
<1>1. Attached(d) /\ d.sock = 0 /\ d.state = "CLOSE" BY FailedBoard
<1>2. node' = [node EXCEPT ![n] = d] /\ link' = Closed(c) BY DEF Failed
<1> HIDE DEF d
<1>3. node'[n] = d /\ \A k \in Node \ {n} : node'[k] = node[k] BY <1>0, <1>2 DEF BoardInv
<1>4. Owns(n, d, link') BY <1>1 DEF Owns
<1>5. bsp' # n BY HalIpcAssumption
<1>6. ReqInv' BY <1>0, SameReq
<1>7. starter' \in Node \cup {"begin", "end"} /\ portnum' \in BOOLEAN BY <1>0 DEF BoardInv
<1>8. CASE c = 0
  <2>1. link' = link BY <1>2, <1>8 DEF Closed
  <2>2. BoardInv' BY <1>0, <1>1, <1>2, <1>4, <1>5, <1>7, <2>1, BoardStep DEF BoardInv
  <2>3. PathInv' BY <1>0, <2>1, SameReq DEF PathInv, srvVars
  <2>4. ToldInv'
    <3>1. CASE n = "cmd" BY <1>1, <1>3, <3>1 DEF ToldInv
    <3>2. CASE n # "cmd" BY <1>0, <1>3, <2>1, <3>2, HalIpcAssumption DEF ToldInv, srvVars
    <3> QED BY <3>1, <3>2
  <2> QED BY <1>6, <2>2, <2>3, <2>4 DEF IInv
<1>9. CASE c # 0
  <2> DEFINE l == IF Listed(c) \/ link[c].end = "open"
                  THEN [link[c] EXCEPT !.end = "closed", !.down = 0] ELSE NoLink
  <2>1. c \in Conn /\ Owns(n, node[n], link) BY <1>0, <1>9, BoardFacts
  <2>2. link \in [Conn -> Links] /\ Path(link[c], rec[c]) BY <1>0, <2>1 DEF PathInv
  <2>3. link' = [link EXCEPT ![c] = l] BY <1>2, <1>9 DEF Closed
  <2>4. Path(l, rec[c])
    <3>1. CASE Listed(c) \/ link[c].end = "open"
      <4>1. l = [link[c] EXCEPT !.end = "closed", !.down = 0] BY <3>1
      <4>2. link[c] \in Links BY <2>1, <2>2
      <4>3. /\ l \in Links /\ l.end = "closed" /\ l.down = 0 /\ l.up = link[c].up
            /\ l.owed = link[c].owed /\ l.node = link[c].node
        <5> HIDE DEF l
        <5> QED BY <4>1, <4>2 DEF Links
      <4>4. Owing(l)
        <5>1. Cardinality(Acks(link[c].up)) \in Nat BY <4>2, AcksFinite DEF Links
        <5>2. link[c].down \in Nat /\ link[c].owed \in Nat BY <4>2 DEF Links
        <5>3. link[c].down + Cardinality(Acks(link[c].up)) <= link[c].owed
          BY <2>2 DEF Path, Owing
        <5>4. Cardinality(Acks(link[c].up)) <= link[c].owed BY <5>1, <5>2, <5>3
        <5> QED BY <4>3, <5>1, <5>4 DEF Owing
      <4> QED BY <2>2, <4>3, <4>4 DEF Path
    <3>2. CASE ~Listed(c) /\ link[c].end # "open"
      <4>1. link[c].end = "connecting" BY <1>9, <2>1, <3>2 DEF Owns
      <4>2. rec[c] \in Recs /\ rec[c].state = "NONE" /\ rec[c].ipctype = "NONE"
        BY <2>2, <4>1 DEF Path
      <4>3. l = [end |-> "free", node |-> "cmd", up |-> <<>>, down |-> 0, owed |-> 0]
        BY <3>2 DEF NoLink, NewLink
      <4> HIDE DEF l
      <4> QED BY <4>2, <4>3, EmptyPath, HalIpcAssumption
    <3> QED BY <3>1, <3>2
  <2> HIDE DEF l
  <2>5. PathInv' BY <1>0, <2>1, <2>3, <2>4, PathStep
  <2>6. \A k \in Conn \ {c} : link'[k] = link[k] BY <2>2, <2>3
  <2>7. \A k \in Node \ {n} : Owns(k, node[k], link')
    <3> SUFFICES ASSUME NEW k \in Node \ {n}, node[k].sock # 0 PROVE Owns(k, node[k], link')
      BY DEF Owns
    <3>1. node[k].sock # c BY <1>0, <1>9, OneOwner
    <3>2. node[k].sock \in Conn /\ Owns(k, node[k], link) BY <1>0, BoardFacts
    <3> QED BY <2>6, <3>1, <3>2 DEF Owns
  <2>8. BoardInv' BY <1>0, <1>1, <1>2, <1>4, <1>5, <1>7, <2>7, BoardStep
  <2>9. ToldInv'
    <3>1. CASE n = "cmd" BY <1>1, <1>3, <3>1 DEF ToldInv
    <3>2. CASE n # "cmd"
      <4>1. node'["cmd"] = node["cmd"] BY <1>3, <3>2, HalIpcAssumption
      <4> QED BY <2>1, <2>6, <3>2, <4>1, SameTold
    <3> QED BY <3>1, <3>2
  <2> QED BY <1>6, <2>5, <2>8, <2>9 DEF IInv
<1> QED BY <1>8, <1>9

\* Timers do not change where a node stands.
LEMMA AttachedTime ==
    ASSUME NEW b, Attached(b), NEW d, Handles(d), d.state = b.state, d.sock = b.sock,
           d.handle["t_read"] = b.handle["t_read"],
           d.handle["t_connect"] = b.handle["t_connect"],
           b.state = "CLOSE" => \A g \in {"register", "hwport", "start_done"} :
                                   d.sched[g] <= b.sched[g]
    PROVE  Attached(d)
<1>1. b.sched \in [Func -> Nat] /\ d.sched \in [Func -> Nat]
  BY DEF Attached, Handles, Boards
<1>2. b.state = "CLOSE" /\ Idle(b) => Idle(d) BY <1>1 DEF Idle, Func
<1> QED BY <1>2 DEF Attached

\* The start of a connection keeps IInv.
LEMMA ConnectThreadStep == ASSUME IInv, NEW n \in Node, connect_thread(n) PROVE IInv'
<1> DEFINE b == Ran(node[n], "t_connect", "connect")
<1>0. BoardInv /\ PathInv /\ ToldInv /\ ReqInv BY DEF IInv
<1>1. /\ bsp = "idle" /\ node[n].sched["connect"] > 0 /\ ~Registering(n)
      /\ UNCHANGED <<bsp, portnum, starter, srvVars, req>>
  BY DEF connect_thread, Runs
<1>2. Attached(node[n]) /\ Handles(node[n]) /\ node[n] \in Boards BY <1>0, BoardFacts
<1>3. /\ node[n].handle["t_connect"] = "connect" /\ node[n].sock = 0
      /\ node[n].state = "CLOSE" /\ node[n].handle["t_read"] = NULL
  BY <1>1, <1>2, FuncNotNull DEF Attached, Handles
<1>4. /\ Handles(b) /\ b.state = "CLOSE" /\ b.sock = 0
      /\ b.handle["t_connect"] = NULL /\ b.handle["t_read"] = NULL
      /\ \A g \in TimeFunc : b.sched[g] = node[n].sched[g]
  BY <1>2, <1>3, FuncNotNull, RanOther DEF Func, Handle
<1> HIDE DEF b
<1>5. bsp' # n /\ starter' \in Node \cup {"begin", "end"} /\ portnum' \in BOOLEAN
  BY <1>0, <1>1, HalIpcAssumption DEF BoardInv
<1>6. ReqInv' BY <1>0, <1>1, SameReq
<1>7. ASSUME NEW c \in Conn, link[c].end = "free",
             node' = [node EXCEPT ![n] = Put(Put([b EXCEPT !.sock = c],
                              "t_read", "connect_check"), "t_time", "connect_timeout")],
             link' = [link EXCEPT ![c] = NewLink("connecting", n)]
      PROVE  IInv'
  <2> DEFINE e == [b EXCEPT !.sock = c]
             f == Put(e, "t_read", "connect_check")
             d == Put(f, "t_time", "connect_timeout")
             l == NewLink("connecting", n)
  <2>1. /\ e \in Boards /\ e.sock = c /\ e.state = b.state
        /\ e.handle = b.handle /\ e.sched = b.sched
    <3>1. c \in 0..MaxConns /\ b \in Boards BY <1>4 DEF Conn, Handles
    <3> QED BY <3>1 DEF Boards
  <2> HIDE DEF e
  <2>2. Handles(e) BY <1>4, <2>1 DEF Handles
  <2>3. /\ Handles(f) /\ f.state = "CLOSE" /\ f.sock = c
        /\ f.handle["t_read"] = "connect_check" /\ f.handle["t_connect"] = NULL
        /\ \A g \in TimeFunc : f.sched[g] = b.sched[g]
    BY <1>4, <2>1, <2>2, PutOther DEF Handle
  <2> HIDE DEF f
  <2>4. /\ Handles(d) /\ d.state = "CLOSE" /\ d.sock = c
        /\ d.handle["t_read"] = "connect_check" /\ d.handle["t_connect"] = NULL
        /\ \A g \in Func \ {"connect_timeout"} : d.sched[g] = f.sched[g]
    BY <2>3, PutTime DEF TimeFunc
  <2>5. node' = [node EXCEPT ![n] = d] BY <1>7 DEF d, f, e
  <2> HIDE DEF d
  <2>6. Idle(d)
    <3> SUFFICES ASSUME NEW g \in {"register", "hwport", "start_done"} PROVE d.sched[g] = 0
      BY DEF Idle
    <3>1. d.sched[g] = node[n].sched[g] BY <1>4, <2>3, <2>4 DEF TimeFunc, Func
    <3>2. node[n].sched \in [Func -> Nat] BY <1>2 DEF Boards
    <3> QED BY <1>1, <3>1, <3>2 DEF Registering, Func
  <2>7. Attached(d)
    <3>1. c # 0 BY DEF Conn
    <3> QED BY <2>4, <2>6, <3>1 DEF Attached
  <2>8. l = [end |-> "connecting", node |-> n, up |-> <<>>, down |-> 0, owed |-> 0]
    BY DEF NewLink
  <2> HIDE DEF l
  <2>9. link \in [Conn -> Links] /\ rec[c] \in Recs /\ Path(link[c], rec[c])
    BY <1>0 DEF PathInv
  <2>10. rec[c].state = "NONE" /\ rec[c].ipctype = "NONE" BY <1>7, <2>9 DEF Path
  <2>11. Path(l, rec[c]) /\ l.node = n /\ l.end = "connecting"
    BY <2>8, <2>9, <2>10, EmptyPath
  <2>12. link' = [link EXCEPT ![c] = l] BY <1>7 DEF l
  <2>13. PathInv' BY <1>0, <1>1, <2>11, <2>12, PathStep
  <2>14. link'[c] = l /\ \A k \in Conn \ {c} : link'[k] = link[k] BY <2>9, <2>12
  <2>15. Owns(n, d, link') BY <2>4, <2>11, <2>14 DEF Owns
  <2>16. \A k \in Node \ {n} : Owns(k, node[k], link')
    <3> SUFFICES ASSUME NEW k \in Node \ {n}, node[k].sock # 0 PROVE Owns(k, node[k], link')
      BY DEF Owns
    <3>1. node[k].sock \in Conn /\ Owns(k, node[k], link) BY <1>0, BoardFacts
    <3>2. node[k].sock # c BY <1>7, <3>1 DEF Owns
    <3> QED BY <2>14, <3>1, <3>2 DEF Owns
  <2>17. BoardInv' BY <1>0, <1>1, <1>5, <2>5, <2>7, <2>15, <2>16, BoardStep
  <2>18. node'[n] = d /\ \A k \in Node \ {n} : node'[k] = node[k]
    BY <1>0, <2>5 DEF BoardInv
  <2>19. ToldInv'
    <3>1. CASE n = "cmd" BY <2>4, <2>18, <3>1 DEF ToldInv
    <3>2. CASE n # "cmd"
      <4>1. node'["cmd"] = node["cmd"] BY <2>18, <3>2, HalIpcAssumption
      <4> QED BY <1>1, <1>7, <2>14, <3>2, <4>1, SameTold
    <3> QED BY <3>1, <3>2
  <2> QED BY <1>6, <2>13, <2>17, <2>19 DEF IInv
<1>8. CASE node' = [node EXCEPT ![n] = EventConnect(b)] /\ link' = link
  <2> DEFINE d == Put(b, "t_connect", "connect")
  <2>1. EventConnect(b) = d BY <1>4 DEF EventConnect
  <2>2. /\ Handles(d) /\ d.state = "CLOSE" /\ d.sock = 0
        /\ d.handle["t_connect"] = "connect" /\ d.handle["t_read"] = NULL
        /\ \A g \in TimeFunc : d.sched[g] = b.sched[g]
    BY <1>4, PutOther DEF Handle
  <2> HIDE DEF d
  <2>3. Attached(d) BY <2>2, HalIpcAssumption DEF Attached
  <2>4. d.sched["start_done"] = node[n].sched["start_done"] BY <1>4, <2>2 DEF TimeFunc
  <2> QED BY <1>1, <1>3, <1>5, <1>8, <2>1, <2>2, <2>3, <2>4, TimerStep
<1> QED BY <1>7, <1>8 DEF connect_thread, b

\* A connection that could not be made keeps IInv.
LEMMA ConnectCheckFailedStep ==
    ASSUME IInv, NEW n \in Node, connect_check_failed(n) PROVE IInv'
<1> DEFINE b == Ran(node[n], "t_read", "connect_check")
<1>0. BoardInv BY DEF IInv
<1>1. /\ bsp = "idle" /\ node[n].sched["connect_check"] > 0 /\ Failed(n, Off(b, "t_time"))
      /\ UNCHANGED <<bsp, portnum, starter, srvVars, req>>
  BY DEF connect_check_failed, Runs
<1>2. Handles(node[n]) BY <1>0, BoardFacts
<1>3. node[n].handle["t_read"] = "connect_check" /\ "connect_check" # NULL
  BY <1>1, <1>2, FuncNotNull DEF Handles, Func
<1>4. Handles(b) /\ b.sock = node[n].sock BY <1>2, <1>3, RanOther
<1> HIDE DEF b
<1>5. Handles(Off(b, "t_time")) /\ Off(b, "t_time").sock = node[n].sock BY <1>4, OffTime
<1> QED BY <1>1, <1>5, FailedStep

\* A connection given up after its time keeps IInv.
LEMMA ConnectTimeoutStep == ASSUME IInv, NEW n \in Node, connect_timeout(n) PROVE IInv'
<1> DEFINE b == Ran(node[n], "t_time", "connect_timeout")
<1>0. BoardInv BY DEF IInv
<1>1. /\ bsp = "idle" /\ node[n].sched["connect_timeout"] > 0 /\ Failed(n, b)
      /\ UNCHANGED <<bsp, portnum, starter, srvVars, req>>
  BY DEF connect_timeout, Runs
<1>2. Handles(node[n]) BY <1>0, BoardFacts
<1>3. Handles(b) /\ b.sock = node[n].sock BY <1>1, <1>2, RanTime DEF TimeFunc
<1> QED BY <1>1, <1>3, FailedStep

\* The node of a connection that is up, with its timers and its reading thread.
LEMMA AttachedUp ==
    ASSUME NEW b, Attached(b), b.state = "CONNECT", NEW d, Handles(d),
           d.state = "CONNECT", d.sock = b.sock,
           d.handle["t_connect"] = b.handle["t_connect"],
           d.handle["t_read"] \in {NULL, "read"}
    PROVE  Attached(d)
<1>1. "connect_check" # NULL BY FuncNotNull DEF Func
<1> QED BY <1>1 DEF Attached

\* A connection that is made keeps IInv, up to the call of connected.
LEMMA ConnectCheckStep == ASSUME IInv, NEW n \in Node, connect_check(n) PROVE IInv'
<1> DEFINE b == Ran(node[n], "t_read", "connect_check")
           d == [b EXCEPT !.state = "CONNECT"]
           c == node[n].sock
           l == [link[c] EXCEPT !.end = "open"]
<1>0. BoardInv /\ PathInv /\ ToldInv /\ ReqInv BY DEF IInv
<1>1. /\ bsp = "idle" /\ node[n].sched["connect_check"] > 0
      /\ node' = [node EXCEPT ![n] = d] /\ link' = [link EXCEPT ![c] = l]
      /\ bsp' = n /\ UNCHANGED <<portnum, starter, srvVars, req>>
  <2>1. node \in [Node -> Boards] BY <1>0 DEF BoardInv
  <2> QED BY <2>1 DEF connect_check, Runs
<1>2. Handles(node[n]) /\ Attached(node[n]) /\ Owns(n, node[n], link) BY <1>0, BoardFacts
<1>3. node[n].handle["t_read"] = "connect_check" /\ "connect_check" # NULL
  BY <1>1, <1>2, FuncNotNull DEF Handles, Func
<1>4. node[n].state = "CLOSE" /\ c # 0 /\ c \in Conn /\ Idle(node[n])
      /\ node[n].handle["t_connect"] = NULL
  BY <1>0, <1>2, <1>3, BoardFacts DEF Attached
<1>5. /\ Handles(b) /\ b.sock = c /\ b.handle["t_read"] = NULL
      /\ b.handle["t_connect"] = NULL
      /\ \A g \in TimeFunc : b.sched[g] = node[n].sched[g]
  BY <1>2, <1>3, <1>4, RanOther DEF Handle
<1> HIDE DEF b
<1>6. /\ d \in Boards /\ d.state = "CONNECT" /\ d.sock = c
      /\ d.handle = b.handle /\ d.sched = b.sched
  BY <1>5 DEF Handles, Boards
<1> HIDE DEF d
<1>7. Handles(d) BY <1>5, <1>6 DEF Handles
<1>8. Attached(d) BY <1>4, <1>5, <1>6, <1>7, FuncNotNull DEF Attached, Func
<1>9. link \in [Conn -> Links] /\ Path(link[c], rec[c]) /\ link[c].node = n
      /\ link[c].end = "connecting"
  BY <1>0, <1>2, <1>4 DEF PathInv, Owns
<1>10. /\ l \in Links /\ l.end = "open" /\ l.node = n /\ l.up = link[c].up
       /\ l.down = link[c].down /\ l.owed = link[c].owed
  <2>1. link[c] \in Links BY <1>4, <1>9
  <2> QED BY <1>9, <2>1 DEF Links
<1> HIDE DEF l
<1>11. Path(l, rec[c]) BY <1>9, <1>10 DEF Path, Owing
<1>12. PathInv' BY <1>0, <1>1, <1>4, <1>11, PathStep
<1>13. link'[c] = l /\ \A k \in Conn \ {c} : link'[k] = link[k] BY <1>1, <1>4, <1>9
<1>14. Owns(n, d, link') BY <1>6, <1>10, <1>13 DEF Owns
<1>15. \A k \in Node \ {n} : Owns(k, node[k], link')
  <2> SUFFICES ASSUME NEW k \in Node \ {n}, node[k].sock # 0 PROVE Owns(k, node[k], link')
    BY DEF Owns
  <2>1. node[k].sock # c BY <1>0, <1>4, OneOwner
  <2>2. node[k].sock \in Conn /\ Owns(k, node[k], link) BY <1>0, BoardFacts
  <2> QED BY <1>13, <2>1, <2>2 DEF Owns
<1>16. starter' \in Node \cup {"begin", "end"} /\ portnum' \in BOOLEAN
  BY <1>0, <1>1 DEF BoardInv
<1>17. BoardInv' BY <1>0, <1>1, <1>5, <1>6, <1>8, <1>14, <1>15, <1>16, BoardStep
<1>18. node'[n] = d /\ \A k \in Node \ {n} : node'[k] = node[k] BY <1>0, <1>1 DEF BoardInv
<1>19. ToldInv'
  <2>1. CASE n = "cmd"
    <3>1. d.sched["start_done"] = 0 BY <1>4, <1>5, <1>6 DEF Idle, TimeFunc
    <3> QED BY <1>18, <2>1, <3>1 DEF ToldInv
  <2>2. CASE n # "cmd"
    <3>1. node'["cmd"] = node["cmd"] BY <1>18, <2>2, HalIpcAssumption
    <3> QED BY <1>1, <1>4, <1>13, <2>2, <3>1, SameTold
  <2> QED BY <2>1, <2>2
<1>20. ReqInv' BY <1>0, <1>1, SameReq
<1> QED BY <1>12, <1>17, <1>19, <1>20 DEF IInv

\* What is scheduled on a new connection keeps IInv.
LEMMA ConnectedStep == ASSUME IInv, NEW n \in Node, connected(n) PROVE IInv'
<1> DEFINE a == Off(node[n], "t_time")
           b == Put(a, "t_read", "read")
           d == IF portnum THEN Put(b, "t_time", "register") ELSE b
<1>0. BoardInv BY DEF IInv
<1>1. /\ bsp = n /\ bsp' = "idle" /\ node' = [node EXCEPT ![n] = d]
      /\ link' = Sent(node[n], "HELLO") /\ UNCHANGED <<portnum, starter, srvVars, req>>
  BY DEF connected
<1>2. Handles(node[n]) /\ Attached(node[n]) /\ node[n].state = "CONNECT"
      /\ node[n].handle["t_read"] = NULL
  BY <1>0, <1>1, BoardFacts DEF BoardInv
<1>3. /\ Handles(a) /\ a.state = "CONNECT" /\ a.sock = node[n].sock
      /\ a.handle["t_read"] = NULL /\ a.handle["t_connect"] = node[n].handle["t_connect"]
      /\ \A g \in Func : a.sched[g] <= node[n].sched[g]
  BY <1>2, OffTime
<1> HIDE DEF a
<1>4. /\ Handles(b) /\ b.state = "CONNECT" /\ b.sock = node[n].sock
      /\ b.handle["t_read"] = "read" /\ b.handle["t_connect"] = node[n].handle["t_connect"]
      /\ \A g \in TimeFunc : b.sched[g] = a.sched[g]
  BY <1>3, PutOther DEF Handle
<1> HIDE DEF b
<1>5. /\ Handles(d) /\ d.state = "CONNECT" /\ d.sock = node[n].sock
      /\ d.handle["t_read"] = "read" /\ d.handle["t_connect"] = node[n].handle["t_connect"]
      /\ d.sched["start_done"] = b.sched["start_done"]
  <2>1. CASE portnum BY <1>4, <2>1, PutTime DEF TimeFunc, Func
  <2>2. CASE ~portnum BY <1>4, <2>2
  <2> QED BY <2>1, <2>2
<1> HIDE DEF d
<1>6. Attached(d) BY <1>2, <1>5, AttachedUp
<1>7. d.sched["start_done"] > 0 => node[n].sched["start_done"] > 0
  <2>1. node[n].sched \in [Func -> Nat] /\ a.sched \in [Func -> Nat]
    BY <1>2, <1>3 DEF Handles, Boards
  <2>2. d.sched["start_done"] = a.sched["start_done"] BY <1>4, <1>5 DEF TimeFunc
  <2> QED BY <1>3, <2>1, <2>2 DEF Func
<1>8. Sent(node[n], "HELLO") = Sent(d, "HELLO") BY <1>2, <1>5 DEF Sent
<1>9. bsp' # n /\ starter' \in Node \cup {"begin", "end"} /\ portnum' \in BOOLEAN
  BY <1>0, <1>1, HalIpcAssumption DEF BoardInv
<1> QED BY <1>1, <1>2, <1>5, <1>6, <1>7, <1>8, <1>9, SendStep

\* A timer runs.
LEMMA RanBoard ==
    ASSUME NEW b, Attached(b), NEW f \in TimeFunc, b.sched[f] > 0
    PROVE  LET d == Ran(b, "t_time", f)
           IN  /\ Attached(d) /\ d.state = b.state /\ d.sock = b.sock
               /\ d.handle["t_read"] = b.handle["t_read"]
               /\ d.sched["start_done"] > 0 => b.sched["start_done"] > 0
<1> DEFINE d == Ran(b, "t_time", f)
<1>1. Handles(b) BY DEF Attached
<1>2. /\ Handles(d) /\ d.state = b.state /\ d.sock = b.sock
      /\ d.handle["t_read"] = b.handle["t_read"]
      /\ d.handle["t_connect"] = b.handle["t_connect"]
      /\ \A g \in Func : d.sched[g] <= b.sched[g]
  BY <1>1, RanTime
<1> HIDE DEF d
<1>3. Attached(d) BY <1>2, AttachedTime DEF Func
<1>4. d.sched["start_done"] > 0 => b.sched["start_done"] > 0
  <2>1. b.sched \in [Func -> Nat] /\ d.sched \in [Func -> Nat]
    BY <1>1, <1>2 DEF Handles, Boards
  <2>2. d.sched["start_done"] <= b.sched["start_done"] BY <1>2 DEF Func
  <2> QED BY <2>1, <2>2 DEF Func
<1> QED BY <1>2, <1>3, <1>4 DEF d

\* A timer is started; one of the registration only when the connection is up.
LEMMA PutBoard ==
    ASSUME NEW b, Attached(b), NEW f \in TimeFunc, b.state = "CLOSE" => f = "timeout"
    PROVE  LET d == Put(b, "t_time", f)
           IN  /\ Attached(d) /\ d.state = b.state /\ d.sock = b.sock
               /\ d.handle["t_read"] = b.handle["t_read"]
               /\ f # "start_done" => d.sched["start_done"] = b.sched["start_done"]
<1> DEFINE d == Put(b, "t_time", f)
<1>1. Handles(b) BY DEF Attached
<1>2. /\ Handles(d) /\ d.state = b.state /\ d.sock = b.sock
      /\ d.handle["t_read"] = b.handle["t_read"]
      /\ d.handle["t_connect"] = b.handle["t_connect"]
      /\ \A g \in Func \ {f} : d.sched[g] = b.sched[g]
  BY <1>1, PutTime
<1> HIDE DEF d
<1>3. b.sched \in [Func -> Nat] BY <1>1 DEF Handles, Boards
<1>4. b.state = "CLOSE" => \A g \in {"register", "hwport", "start_done"} :
                              d.sched[g] <= b.sched[g]
  BY <1>2, <1>3 DEF Func
<1>5. Attached(d) BY <1>2, <1>4, AttachedTime
<1> QED BY <1>2, <1>5 DEF d, Func

\* Sending the registration keeps IInv.
LEMMA RegisterThreadStep == ASSUME IInv, NEW n \in Node, register_thread(n) PROVE IInv'
<1> DEFINE b == Ran(node[n], "t_time", "register")
           d == IF b.state = "CONNECT" THEN Put(b, "t_time", "hwport") ELSE b
<1>0. BoardInv BY DEF IInv
<1>1. /\ bsp = "idle" /\ node[n].sched["register"] > 0
      /\ node' = [node EXCEPT ![n] = d] /\ link' = Sent(node[n], "REGISTER")
      /\ UNCHANGED <<bsp, portnum, starter, srvVars, req>>
  BY DEF register_thread, Runs
<1>2. /\ Attached(b) /\ b.state = node[n].state /\ b.sock = node[n].sock
      /\ b.sched["start_done"] > 0 => node[n].sched["start_done"] > 0
  BY <1>0, <1>1, BoardFacts, RanBoard DEF TimeFunc
<1> HIDE DEF b
<1>3. /\ Attached(d) /\ d.state = b.state /\ d.sock = b.sock
      /\ d.sched["start_done"] = b.sched["start_done"]
  BY <1>2, PutBoard DEF TimeFunc
<1> HIDE DEF d
<1>4. Sent(node[n], "REGISTER") = Sent(d, "REGISTER") BY <1>2, <1>3 DEF Sent
<1>5. bsp' # n /\ starter' \in Node \cup {"begin", "end"} /\ portnum' \in BOOLEAN
  BY <1>0, <1>1, HalIpcAssumption DEF BoardInv
<1> QED BY <1>1, <1>2, <1>3, <1>4, <1>5, SendStep

\* Sending the table of ports keeps IInv.
LEMMA HwportThreadStep == ASSUME IInv, NEW n \in Node, hwport_thread(n) PROVE IInv'
<1> DEFINE b == Ran(node[n], "t_time", "hwport")
           d == IF b.state = "CONNECT" THEN Put(b, "t_time", "start_done") ELSE b
<1>0. BoardInv BY DEF IInv
<1>1. /\ bsp = "idle" /\ node[n].sched["hwport"] > 0
      /\ node' = [node EXCEPT ![n] = d]
      /\ link' = IF n = "cmd" THEN Sent(node[n], "HWPORT") ELSE link
      /\ UNCHANGED <<bsp, portnum, starter, srvVars, req>>
  BY DEF hwport_thread, Runs
<1>2. /\ Attached(b) /\ b.state = node[n].state /\ b.sock = node[n].sock
  BY <1>0, <1>1, BoardFacts, RanBoard DEF TimeFunc
<1> HIDE DEF b
<1>3. Attached(d) /\ d.state = b.state /\ d.sock = b.sock
  BY <1>2, PutBoard DEF TimeFunc
<1> HIDE DEF d
<1>4. Sent(node[n], "HWPORT") = Sent(d, "HWPORT") BY <1>2, <1>3 DEF Sent
<1>5. bsp' # n /\ starter' \in Node \cup {"begin", "end"} /\ portnum' \in BOOLEAN
  BY <1>0, <1>1, HalIpcAssumption DEF BoardInv
<1>6. CASE n = "cmd" BY <1>1, <1>2, <1>3, <1>4, <1>5, <1>6, SendStep
<1>7. CASE n # "cmd" BY <1>1, <1>2, <1>3, <1>5, <1>7, TimerStep
<1> QED BY <1>6, <1>7

\* Sending STARTDONE keeps IInv.
LEMMA StartDoneThreadStep == ASSUME IInv, NEW n \in Node, start_done_thread(n) PROVE IInv'
<1> DEFINE b == Ran(node[n], "t_time", "start_done")
           d == Put(b, "t_time", "timeout")
<1>0. BoardInv BY DEF IInv
<1>1. /\ bsp = "idle" /\ node[n].sched["start_done"] > 0
      /\ node' = [node EXCEPT ![n] = d] /\ link' = Sent(node[n], "DONE")
      /\ UNCHANGED <<bsp, portnum, starter, srvVars, req>>
  <2>1. node \in [Node -> Boards] BY <1>0 DEF BoardInv
  <2> QED BY <2>1 DEF start_done_thread, Runs
<1>2. Attached(b) /\ b.state = node[n].state /\ b.sock = node[n].sock
  BY <1>0, <1>1, BoardFacts, RanBoard DEF TimeFunc
<1> HIDE DEF b
<1>3. Attached(d) /\ d.state = b.state /\ d.sock = b.sock BY <1>2, PutBoard DEF TimeFunc
<1> HIDE DEF d
<1>4. Sent(node[n], "DONE") = Sent(d, "DONE") BY <1>2, <1>3 DEF Sent
<1>5. bsp' # n /\ starter' \in Node \cup {"begin", "end"} /\ portnum' \in BOOLEAN
  BY <1>0, <1>1, HalIpcAssumption DEF BoardInv
<1> QED BY <1>1, <1>2, <1>3, <1>4, <1>5, SendStep

\* The timer that runs once a connection is registered keeps IInv.
LEMMA TimeoutThreadStep == ASSUME IInv, NEW n \in Node, timeout_thread(n) PROVE IInv'
<1> DEFINE b == Ran(node[n], "t_time", "timeout")
           d == Put(b, "t_time", "timeout")
<1>0. BoardInv BY DEF IInv
<1>1. /\ bsp = "idle" /\ node[n].sched["timeout"] > 0
      /\ node' = [node EXCEPT ![n] = d]
      /\ UNCHANGED <<bsp, portnum, starter, link, srvVars, req>>
  <2>1. node \in [Node -> Boards] BY <1>0 DEF BoardInv
  <2> QED BY <2>1 DEF timeout_thread, Runs
<1>2. /\ Attached(b) /\ b.state = node[n].state /\ b.sock = node[n].sock
      /\ b.sched["start_done"] > 0 => node[n].sched["start_done"] > 0
  BY <1>0, <1>1, BoardFacts, RanBoard DEF TimeFunc
<1> HIDE DEF b
<1>3. /\ Attached(d) /\ d.state = b.state /\ d.sock = b.sock
      /\ d.sched["start_done"] = b.sched["start_done"]
  BY <1>2, PutBoard DEF TimeFunc
<1> HIDE DEF d
<1>4. bsp' # n /\ starter' \in Node \cup {"begin", "end"} /\ portnum' \in BOOLEAN
  BY <1>0, <1>1, HalIpcAssumption DEF BoardInv
<1> QED BY <1>1, <1>2, <1>3, <1>4, TimerStep

\* The task that starts the driver may find it in the middle of connect_check.
LEMMA HwportRegisterNodeStep ==
    ASSUME IInv, NEW n \in Node, hwport_register_node(n) PROVE IInv'
<1> DEFINE d == IF node[n].state = "CONNECT" THEN Put(node[n], "t_time", "register")
                                             ELSE node[n]
<1>0. BoardInv BY DEF IInv
<1>1. /\ node' = [node EXCEPT ![n] = d] /\ starter' = After(n)
      /\ UNCHANGED <<bsp, portnum, link, srvVars, req>>
  <2>1. node \in [Node -> Boards] BY <1>0 DEF BoardInv
  <2> QED BY <2>1 DEF hwport_register_node
<1>2. /\ Attached(d) /\ d.state = node[n].state /\ d.sock = node[n].sock
      /\ d.handle["t_read"] = node[n].handle["t_read"]
      /\ d.sched["start_done"] = node[n].sched["start_done"]
  BY <1>0, BoardFacts, PutBoard DEF TimeFunc
<1> HIDE DEF d
<1>3. starter' \in Node \cup {"begin", "end"} /\ portnum' \in BOOLEAN
  BY <1>0, <1>1 DEF BoardInv, After
<1>4. bsp' = n => d.handle["t_read"] = NULL BY <1>0, <1>1, <1>2 DEF BoardInv
<1> QED BY <1>1, <1>2, <1>3, <1>4, TimerStep

\* A port that is added to the table keeps IInv.
LEMMA HwportRegisterStep == ASSUME IInv, hwport_register PROVE IInv'
<1>0. BoardInv /\ PathInv /\ ToldInv /\ ReqInv BY DEF IInv
<1>1. /\ portnum' = TRUE /\ starter' = "cmd" /\ "cmd" \in Node
      /\ UNCHANGED <<node, bsp, link, srvVars, req>>
  BY HalIpcAssumption DEF hwport_register
<1>2. BoardInv' BY <1>0, <1>1 DEF BoardInv, Owns
<1>3. PathInv' /\ ReqInv' BY <1>0, <1>1, SameReq DEF PathInv, srvVars
<1>4. ToldInv' BY <1>0, <1>1 DEF ToldInv, srvVars
<1> QED BY <1>2, <1>3, <1>4 DEF IInv

\* No node changes, and each keeps its connection.
LEMMA BoardKept ==
    ASSUME BoardInv, UNCHANGED boardVars,
           \A k \in Conn : link[k].end \in {"connecting", "open"}
               => link'[k].node = link[k].node /\ link'[k].end = link[k].end
    PROVE  BoardInv'
<1>1. ASSUME NEW n \in Node PROVE Owns(n, node[n], link')
  <2>1. Owns(n, node[n], link) /\ (node[n].sock # 0 => node[n].sock \in Conn)
    BY BoardFacts
  <2> QED BY <2>1 DEF Owns
<1> QED BY <1>1 DEF BoardInv, boardVars

\* ToldInv stays when the nodes do and no connection forgets the table of ports.
LEMMA ToldKept ==
    ASSUME BoardInv, ToldInv, node' = node,
           \A k \in Conn : /\ link[k].end = "open" /\ link[k].node = "cmd"
                           /\ Told(link[k].up, rec[k].ports)
               => Told(link'[k].up, rec'[k].ports)
    PROVE  ToldInv'
<1> DEFINE b == node["cmd"]
<1> SUFFICES ASSUME b.state = "CONNECT", b.sched["start_done"] > 0
             PROVE  Told(link'[b.sock].up, rec'[b.sock].ports)
  BY DEF ToldInv
<1>1. "cmd" \in Node BY HalIpcAssumption
<1>2. b.sock \in Conn /\ link[b.sock].end = "open" /\ link[b.sock].node = "cmd"
  BY <1>1, BoardFacts DEF Owns
<1>3. Told(link[b.sock].up, rec[b.sock].ports) BY DEF ToldInv
<1> QED BY <1>2, <1>3

\* Reading from the server keeps IInv.
LEMMA ReadThreadStep == ASSUME IInv, NEW n \in Node, read_thread(n) PROVE IInv'
<1> DEFINE c == node[n].sock
<1>0. BoardInv /\ PathInv /\ ToldInv /\ ReqInv BY DEF IInv
<1>1. PICK m \in {<<"ACK">>, <<"ACK_ERROR">>, <<>>} :
          link' = [link EXCEPT ![c].down = @ - 1, ![c].up = @ \o m]
  BY DEF read_thread
<1>2. /\ node[n].sched["read"] > 0 /\ link[c].down > 0
      /\ UNCHANGED <<boardVars, srvVars, req>>
  BY DEF read_thread, Runs
<1>3. node[n].state = "CONNECT" /\ c \in Conn /\ link[c].end = "open"
  <2>1. Handles(node[n]) /\ Attached(node[n]) /\ Owns(n, node[n], link) BY <1>0, BoardFacts
  <2>2. node[n].handle["t_read"] = "read" BY <1>2, <2>1 DEF Handles
  <2>3. node[n].state = "CONNECT" BY <2>1, <2>2 DEF Attached
  <2> QED BY <1>0, <2>1, <2>3, BoardFacts DEF Owns
<1> DEFINE s == link[c].up
           t == s \o m
           l == [link[c] EXCEPT !.down = @ - 1, !.up = t]
<1>4. link \in [Conn -> Links] /\ Path(link[c], rec[c]) BY <1>0, <1>3 DEF PathInv
<1>5. link[c] \in Links /\ s \in Seq(Msg) /\ link[c].down \in Nat /\ link[c].owed \in Nat
  BY <1>3, <1>4 DEF Links
<1>6. link' = [link EXCEPT ![c] = l] BY <1>1, <1>3, <1>4, <1>5
<1>7. Cardinality(Acks(s)) \in Nat BY <1>5, AcksFinite
<1>8. /\ t \in Seq(Msg) /\ Cardinality(Acks(t)) <= Cardinality(Acks(s)) + 1
      /\ Told(s, rec[c].ports) => Told(t, rec[c].ports)
      /\ DoneAfter(s, rec[c].ports) => DoneAfter(t, rec[c].ports)
  <2>1. CASE m = <<>>
    <3>1. t = s BY <1>5, <2>1, ConcatEmptySeq
    <3> QED BY <1>5, <1>7, <3>1
  <2>2. ASSUME NEW x \in {"ACK", "ACK_ERROR"}, m = <<x>> PROVE <1>8
    <3>1. x \in Msg /\ x # "DONE" BY DEF Msg
    <3>2. t = Append(s, x) BY <1>5, <2>2, <3>1, AppendIsConcat
    <3>3. Cardinality(Acks(Append(s, x))) = Cardinality(Acks(s)) + 1
      BY <1>5, <3>1, AcksAppend DEF IsAck
    <3>4. Append(s, x) \in Seq(Msg) BY <1>5, <3>1
    <3>5. /\ Told(s, rec[c].ports) => Told(Append(s, x), rec[c].ports)
          /\ DoneAfter(s, rec[c].ports) => DoneAfter(Append(s, x), rec[c].ports)
      BY <1>5, <3>1, ToldAppend
    <3> HIDE DEF s, t
    <3> QED BY <1>7, <3>2, <3>3, <3>4, <3>5
  <2> QED BY <2>1, <2>2
<1> HIDE DEF t
<1>9. /\ l \in Links /\ l.up = t /\ l.down = link[c].down - 1 /\ l.end = link[c].end
      /\ l.node = link[c].node /\ l.owed = link[c].owed
  <2>1. link[c].down - 1 \in Nat BY <1>2, <1>5
  <2> QED BY <1>5, <1>8, <2>1 DEF Links
<1> HIDE DEF l
<1>10. Owing(l)
  <2>1. link[c].down + Cardinality(Acks(s)) <= link[c].owed BY <1>4 DEF Path, Owing
  <2>2. Cardinality(Acks(t)) \in Nat BY <1>8, AcksFinite
  <2> QED BY <1>5, <1>7, <1>8, <1>9, <2>1, <2>2 DEF Owing
<1>11. Path(l, rec[c]) BY <1>3, <1>4, <1>8, <1>9, <1>10 DEF Path
<1>12. PathInv' BY <1>0, <1>2, <1>3, <1>6, <1>11, PathStep
<1>13. link'[c] = l /\ \A k \in Conn \ {c} : link'[k] = link[k] BY <1>3, <1>4, <1>6
<1>14. BoardInv' BY <1>0, <1>2, <1>9, <1>13, BoardKept
<1>15. ToldInv' BY <1>0, <1>2, <1>8, <1>9, <1>13, ToldKept DEF boardVars, srvVars
<1>16. ReqInv' BY <1>0, <1>2, SameReq
<1> QED BY <1>12, <1>14, <1>15, <1>16 DEF IInv

-----------------------------------------------------------------------------
(* Steps of halTask *)

\* The server accepting a connection keeps IInv.
LEMMA AcceptStep == ASSUME IInv, NEW c \in Conn, accept(c) PROVE IInv'
<1> DEFINE r == [NoRec EXCEPT !.t_read = TRUE]
<1>0. BoardInv /\ PathInv /\ ToldInv /\ ReqInv BY DEF IInv
<1>1. /\ link[c].end \in {"connecting", "open", "closed"} /\ ~Listed(c)
      /\ client_list' = Append(client_list, c) /\ rec' = [rec EXCEPT ![c] = r]
      /\ UNCHANGED <<boardVars, link, req>>
  BY DEF accept
<1>2. /\ link \in [Conn -> Links] /\ rec \in [Conn -> Recs] /\ client_list \in Seq(Conn)
      /\ Path(link[c], rec[c]) /\ ~rec[c].ports
  BY <1>0, <1>1 DEF PathInv
<1>3. /\ r \in Recs /\ r.ports = FALSE /\ r.state = "NONE" /\ r.ipctype = "NONE"
  BY DEF NoRec, Recs
<1> HIDE DEF r
<1>4. rec'[c] = r /\ \A k \in Conn \ {c} : rec'[k] = rec[k] BY <1>1, <1>2
<1>5. Path(link[c], r) BY <1>2, <1>3 DEF Path, DoneAfter
<1>6. client_list' \in Seq(Conn) /\ Listed(c)' /\ \A k \in Conn : Listed(k) => Listed(k)'
  <2>1. /\ client_list' \in Seq(Conn) /\ Len(client_list') = Len(client_list) + 1
        /\ client_list'[Len(client_list) + 1] = c /\ Len(client_list) \in Nat
        /\ \A i \in 1..Len(client_list) : client_list'[i] = client_list[i]
    BY <1>1, <1>2, AppendProperties
  <2> QED BY <2>1 DEF Listed
<1>7. rec' \in [Conn -> Recs] BY <1>1, <1>2, <1>3
<1>8. PathInv'
  <2>1. \A k \in Conn : Path(link'[k], rec'[k]) /\ (rec'[k].ports => Listed(k)')
    BY <1>0, <1>1, <1>4, <1>5, <1>6 DEF PathInv
  <2> QED BY <1>1, <1>2, <1>6, <1>7, <2>1 DEF PathInv
<1>9. BoardInv' BY <1>0, <1>1, BoardKept
<1>10. ToldInv'
  <2>1. \A k \in Conn : Told(link[k].up, rec[k].ports) => Told(link[k].up, rec'[k].ports)
    BY <1>2, <1>4 DEF Told
  <2> QED BY <1>0, <1>1, <2>1, ToldKept DEF boardVars
<1>11. ReqInv' BY <1>0, <1>1, <1>4, <1>6 DEF ReqInv
<1> QED BY <1>8, <1>9, <1>10, <1>11 DEF IInv

\* What reading a message does to the record of the client.
LEMMA HandledFacts ==
    ASSUME NEW l, NEW r, Path(l, r), l.up # <<>>
    PROVE  LET h == Handled(r, l.node, Head(l.up))
               d == [h EXCEPT !.t_read = ReadOn(h)]
           IN  /\ d \in Recs /\ d.ports = (r.ports \/ Head(l.up) = "HWPORT")
               /\ l.end \notin {"free", "connecting"}
               /\ d.state = "REGISTER" /\ l.node = "cmd" => d.ports
               /\ d.ipctype = "CMD" => l.node = "cmd"
               /\ d.state = "REGISTER" /\ d.ipctype # "EVENT" => ~d.t_read
<1> DEFINE m == Head(l.up)
           h == Handled(r, l.node, m)
           d == [h EXCEPT !.t_read = ReadOn(h)]
<1>1. l.up \in Seq(Msg) /\ m \in Msg /\ r \in Recs BY HeadTailProperties DEF Path, Links
<1>2. l.node = "cmd" /\ m = "DONE" => r.ports
  <2> SUFFICES ASSUME l.node = "cmd", m = "DONE" PROVE r.ports OBVIOUS
  <2>1. DoneAfter(l.up, r.ports) BY DEF Path
  <2>2. m # "HWPORT" OBVIOUS
  <2> QED BY <1>1, <2>1, <2>2, ToldTail
<1>3. /\ h \in Recs /\ h.ports = (r.ports \/ m = "HWPORT")
      /\ h.state = "REGISTER" => r.state = "REGISTER" \/ m = "DONE"
      /\ h.ipctype = "CMD" => r.ipctype = "CMD" \/ l.node = "cmd"
  <2>1. CASE m = "HELLO" BY <1>1, <2>1 DEF Handled, Recs
  <2>2. CASE m = "REGISTER" BY <1>1, <2>2 DEF Handled, Recs
  <2>3. CASE m = "HWPORT" BY <1>1, <2>3 DEF Handled, Recs
  <2>4. CASE m = "DONE" BY <1>1, <2>4 DEF Handled, Recs
  <2>5. CASE m \in {"ACK", "ACK_ERROR"} BY <1>1, <2>5 DEF Handled, Recs
  <2> QED BY <1>1, <2>1, <2>2, <2>3, <2>4, <2>5 DEF Msg
<1> HIDE DEF h
<1>4. /\ d \in Recs /\ d.ports = h.ports /\ d.state = h.state /\ d.ipctype = h.ipctype
      /\ d.t_read = ReadOn(h)
  BY <1>3 DEF Recs, ReadOn
<1> HIDE DEF d
<1>5. d.state = "REGISTER" /\ l.node = "cmd" => d.ports BY <1>2, <1>3, <1>4 DEF Path
<1>6. d.state = "REGISTER" /\ d.ipctype # "EVENT" => ~d.t_read BY <1>4 DEF ReadOn
<1> QED BY <1>3, <1>4, <1>5, <1>6 DEF Path, d, h, m

\* The server reading a message keeps IInv.
LEMMA ClientReadStep == ASSUME IInv, NEW c \in Conn, client_read(c) PROVE IInv'
<1> DEFINE s == link[c].up
           t == Tail(s)
           h == Handled(rec[c], link[c].node, Head(s))
           r == [h EXCEPT !.t_read = ReadOn(h)]
           l == [link[c] EXCEPT !.up = t]
<1>0. BoardInv /\ PathInv /\ ToldInv /\ ReqInv BY DEF IInv
<1>1. /\ Listed(c) /\ rec[c].t_read /\ s # <<>>
      /\ rec' = [rec EXCEPT ![c] = r] /\ link' = [link EXCEPT ![c].up = t]
      /\ UNCHANGED <<boardVars, client_list, req>>
  <2>1. link \in [Conn -> Links] BY <1>0 DEF PathInv
  <2> QED BY <2>1 DEF client_read
<1>2. /\ link \in [Conn -> Links] /\ rec \in [Conn -> Recs] /\ client_list \in Seq(Conn)
      /\ Path(link[c], rec[c])
  BY <1>0 DEF PathInv
<1>3. link[c] \in Links /\ s \in Seq(Msg) /\ link[c].down \in Nat /\ link[c].owed \in Nat
  BY <1>2 DEF Links
<1>4. /\ r \in Recs /\ r.ports = (rec[c].ports \/ Head(s) = "HWPORT")
      /\ link[c].end \notin {"free", "connecting"}
      /\ r.state = "REGISTER" /\ link[c].node = "cmd" => r.ports
      /\ r.ipctype = "CMD" => link[c].node = "cmd"
      /\ r.state = "REGISTER" /\ r.ipctype # "EVENT" => ~r.t_read
  BY <1>1, <1>2, HandledFacts
<1> HIDE DEF r
<1>5. /\ t \in Seq(Msg)
      /\ Told(s, rec[c].ports) => Told(t, r.ports)
      /\ DoneAfter(s, rec[c].ports) => DoneAfter(t, r.ports)
  BY <1>1, <1>3, <1>4, ToldTail, HeadTailProperties
<1>6. Cardinality(Acks(t)) <= Cardinality(Acks(s))
  <2>1. Cardinality(Acks(s)) \in Nat /\ Cardinality(Acks(t)) \in Nat BY <1>3, <1>5, AcksFinite
  <2>2. Cardinality(Acks(t)) <= IF IsAck(Head(s)) THEN Cardinality(Acks(s)) - 1
                                                  ELSE Cardinality(Acks(s))
    BY <1>1, <1>3, AcksTail
  <2> QED BY <2>1, <2>2
<1> HIDE DEF t
<1>7. /\ l \in Links /\ l.up = t /\ l.down = link[c].down /\ l.end = link[c].end
      /\ l.node = link[c].node /\ l.owed = link[c].owed
  BY <1>3, <1>5 DEF Links
<1>8. link' = [link EXCEPT ![c] = l] BY <1>1, <1>2
<1> HIDE DEF l
<1>9. Owing(l)
  <2>1. Cardinality(Acks(s)) \in Nat /\ Cardinality(Acks(t)) \in Nat BY <1>3, <1>5, AcksFinite
  <2>2. link[c].down + Cardinality(Acks(s)) <= link[c].owed BY <1>2 DEF Path, Owing
  <2> QED BY <1>3, <1>6, <1>7, <2>1, <2>2 DEF Owing
<1>10. Path(l, r) BY <1>2, <1>4, <1>5, <1>7, <1>9 DEF Path
<1>11. /\ link'[c] = l /\ \A k \in Conn \ {c} : link'[k] = link[k]
       /\ rec'[c] = r /\ \A k \in Conn \ {c} : rec'[k] = rec[k]
  BY <1>1, <1>2, <1>8
<1>12. link' \in [Conn -> Links] /\ rec' \in [Conn -> Recs] BY <1>1, <1>2, <1>4, <1>7, <1>8
<1>13. \A k \in Conn : Listed(k)' = Listed(k) BY <1>1 DEF Listed
<1>14. PathInv'
  <2>1. \A k \in Conn : Path(link'[k], rec'[k]) /\ (rec'[k].ports => Listed(k)')
    BY <1>0, <1>1, <1>10, <1>11, <1>13 DEF PathInv
  <2> QED BY <1>1, <1>2, <1>12, <2>1 DEF PathInv
<1>15. BoardInv' BY <1>0, <1>1, <1>7, <1>11, BoardKept
<1>16. ToldInv' BY <1>0, <1>1, <1>5, <1>7, <1>11, ToldKept DEF boardVars
<1>17. ReqInv'
  <2>1. req.pc # "idle" => req.at \in Conn /\ req.at # c BY <1>0, <1>1 DEF ReqInv
  <2> QED BY <1>0, <1>1, <1>11, <1>13, <2>1 DEF ReqInv
<1> QED BY <1>14, <1>15, <1>16, <1>17 DEF IInv

\* Removing a client leaves the others in the list.
LEMMA RemoveFacts ==
    ASSUME NEW S, NEW s \in Seq(S), NEW i \in 1..Len(s)
    PROVE  /\ RemoveAt(s, i) \in Seq(S)
           /\ \A j \in 1..Len(s) : j # i =>
                  \E k \in 1..Len(RemoveAt(s, i)) : RemoveAt(s, i)[k] = s[j]
<1> DEFINE a == SubSeq(s, 1, i - 1)
           b == SubSeq(s, i + 1, Len(s))
           n == Len(s)
<1>1. n \in Nat /\ i \in Int /\ 1 <= i /\ i <= n /\ \A j \in 1..n : s[j] \in S OBVIOUS
<1>2. /\ a \in Seq(S) /\ Len(a) = i - 1
      /\ \A j \in 1..(i - 1) : a[j] = s[j]
  <2>1. /\ a \in Seq(S) /\ Len(a) = IF 1 <= i - 1 THEN (i - 1) - 1 + 1 ELSE 0
        /\ \A j \in 1..((i - 1) - 1 + 1) : a[j] = s[1 + j - 1]
    <3>1. \A j \in 1..(i - 1) : s[j] \in S BY <1>1
    <3> QED BY <1>1, <3>1, SubSeqProperties
  <2> QED BY <1>1, <2>1
<1>3. /\ b \in Seq(S) /\ Len(b) = n - i
      /\ \A j \in 1..(n - i) : b[j] = s[i + j]
  <2>1. /\ b \in Seq(S) /\ Len(b) = IF i + 1 <= n THEN n - (i + 1) + 1 ELSE 0
        /\ \A j \in 1..(n - (i + 1) + 1) : b[j] = s[(i + 1) + j - 1]
    <3>1. \A j \in (i + 1)..n : s[j] \in S BY <1>1
    <3> QED BY <1>1, <3>1, SubSeqProperties
  <2> QED BY <1>1, <2>1
<1> HIDE DEF a, b, n
<1>4. /\ a \o b \in Seq(S) /\ Len(a \o b) = n - 1
      /\ \A j \in 1..(n - 1) : (a \o b)[j] = IF j <= i - 1 THEN a[j] ELSE b[j - (i - 1)]
  <2>1. /\ a \o b \in Seq(S) /\ Len(a \o b) = Len(a) + Len(b)
        /\ \A j \in 1..(Len(a) + Len(b)) :
               (a \o b)[j] = IF j <= Len(a) THEN a[j] ELSE b[j - Len(a)]
    BY <1>2, <1>3, ConcatProperties
  <2> QED BY <1>1, <1>2, <1>3, <2>1
<1>5. ASSUME NEW j \in 1..n, j # i PROVE \E k \in 1..(n - 1) : (a \o b)[k] = s[j]
  <2>1. CASE j < i
    <3>1. j \in 1..(n - 1) /\ j \in 1..(i - 1) /\ j <= i - 1 BY <1>1, <2>1
    <3>2. (a \o b)[j] = s[j] BY <1>2, <1>4, <3>1
    <3> QED BY <3>1, <3>2
  <2>2. CASE i < j
    <3>1. /\ j - 1 \in 1..(n - 1) /\ ~(j - 1 <= i - 1)
          /\ (j - 1) - (i - 1) = j - i /\ j - i \in 1..(n - i) /\ i + (j - i) = j
      BY <1>1, <2>2
    <3>2. (a \o b)[j - 1] = b[j - i] BY <1>4, <3>1
    <3>3. b[j - i] = s[j] BY <1>3, <3>1
    <3> QED BY <3>1, <3>2, <3>3
  <2>3. j < i \/ i < j BY <1>1, <1>5
  <2> QED BY <2>1, <2>2, <2>3
<1>6. RemoveAt(s, i) = a \o b BY DEF RemoveAt, a, b
<1> QED BY <1>4, <1>5, <1>6 DEF n

\* The server closing a connection keeps IInv.
LEMMA ClientReadCloseStep == ASSUME IInv, NEW c \in Conn, client_read_close(c) PROVE IInv'
<1>0. BoardInv /\ PathInv /\ ToldInv /\ ReqInv BY DEF IInv
<1>1. /\ rec[c].t_read /\ link[c].end \in {"closed", "reset"}
      /\ rec' = [rec EXCEPT ![c] = NoRec] /\ link' = [link EXCEPT ![c] = NoLink]
      /\ UNCHANGED <<boardVars, req>>
  BY DEF client_read_close
<1>2. PICK i \in 1..Len(client_list) :
          client_list[i] = c /\ client_list' = RemoveAt(client_list, i)
  BY DEF client_read_close
<1>3. link \in [Conn -> Links] /\ rec \in [Conn -> Recs] /\ client_list \in Seq(Conn)
  BY <1>0 DEF PathInv
<1>4. NoRec \in Recs /\ NoRec.state = "NONE" /\ NoRec.ipctype = "NONE" /\ NoRec.ports = FALSE
  BY DEF NoRec, Recs
<1>5. NoLink = [end |-> "free", node |-> "cmd", up |-> <<>>, down |-> 0, owed |-> 0]
  BY DEF NoLink, NewLink
<1>6. Path(NoLink, NoRec) BY <1>4, <1>5, EmptyPath, HalIpcAssumption
<1>7. /\ link'[c] = NoLink /\ \A k \in Conn \ {c} : link'[k] = link[k]
      /\ rec'[c] = NoRec /\ \A k \in Conn \ {c} : rec'[k] = rec[k]
  BY <1>1, <1>3
<1>8. client_list' \in Seq(Conn) BY <1>2, <1>3, RemoveFacts
<1>9. ASSUME NEW k \in Conn \ {c}, Listed(k) PROVE Listed(k)'
  <2>1. PICK j \in 1..Len(client_list) : client_list[j] = k BY <1>9 DEF Listed
  <2>2. j # i BY <1>2, <2>1
  <2>3. \E m \in 1..Len(client_list') : client_list'[m] = client_list[j]
    BY <1>2, <1>3, <2>2, RemoveFacts
  <2> QED BY <2>1, <2>3 DEF Listed
<1>10. link' \in [Conn -> Links] /\ rec' \in [Conn -> Recs]
  BY <1>1, <1>3, <1>4, <1>6 DEF Path
<1>11. PathInv'
  <2>1. ASSUME NEW k \in Conn PROVE Path(link'[k], rec'[k]) /\ (rec'[k].ports => Listed(k)')
    <3>1. CASE k = c BY <1>4, <1>6, <1>7, <3>1
    <3>2. CASE k # c BY <1>0, <1>7, <1>9, <3>2 DEF PathInv
    <3> QED BY <3>1, <3>2
  <2> QED BY <1>8, <1>10, <2>1 DEF PathInv
<1>12. BoardInv' BY <1>0, <1>1, <1>7, BoardKept
<1>13. ToldInv' BY <1>0, <1>1, <1>7, ToldKept DEF boardVars
<1>14. ReqInv'
  <2>1. req.pc # "idle" => req.at \in Conn \ {c} BY <1>0, <1>1 DEF ReqInv
  <2> QED BY <1>0, <1>1, <1>7, <1>9, <2>1 DEF ReqInv
<1> QED BY <1>11, <1>12, <1>13, <1>14 DEF IInv

-----------------------------------------------------------------------------
(* Steps of a task that sends a request *)

\* The connections stay as they are.
LEMMA QuietStep ==
    ASSUME IInv, UNCHANGED <<boardVars, link, srvVars>>, ReqInv' PROVE IInv'
<1>0. BoardInv /\ PathInv /\ ToldInv BY DEF IInv
<1>1. BoardInv' BY <1>0, BoardKept
<1>2. PathInv' BY <1>0 DEF PathInv, srvVars, Listed
<1>3. ToldInv' BY <1>0, ToldKept DEF boardVars, srvVars
<1> QED BY <1>1, <1>2, <1>3 DEF IInv

\* The end of the driver keeps IInv.
LEMMA ReadThreadStopsStep == ASSUME IInv, NEW n \in Node, read_thread_stops(n) PROVE IInv'
<1> DEFINE b == Ran(node[n], "t_read", "read")
<1>0. BoardInv /\ PathInv /\ ToldInv /\ ReqInv BY DEF IInv
<1>1. /\ bsp = "idle" /\ bsp' = "gone" /\ node[n].sched["read"] > 0
      /\ UNCHANGED <<portnum, starter, srvVars, req>>
      /\ Failed(n, b) \/ UNCHANGED <<node, link>>
  BY DEF read_thread_stops, Runs
<1>2. CASE Failed(n, b)
  <2>1. Handles(node[n]) BY <1>0, BoardFacts
  <2>2. node[n].handle["t_read"] = "read" /\ "read" # NULL
    BY <1>1, <2>1, FuncNotNull DEF Handles, Func
  <2>3. Handles(b) /\ b.sock = node[n].sock BY <2>1, <2>2, RanOther
  <2> HIDE DEF b
  <2> QED BY <1>1, <1>2, <2>3, FailedStep
<1>3. CASE UNCHANGED <<node, link>>
  <2>1. "gone" \notin Node BY HalIpcAssumption
  <2>2. BoardInv' BY <1>0, <1>1, <1>3, <2>1 DEF BoardInv
  <2>3. PathInv' BY <1>0, <1>1, <1>3 DEF PathInv, srvVars, Listed
  <2>4. ToldInv' BY <1>0, <1>1, <1>3, ToldKept DEF srvVars
  <2>5. ReqInv' BY <1>0, <1>1, SameReq
  <2> QED BY <2>2, <2>3, <2>4, <2>5 DEF IInv
<1> QED BY <1>1, <1>2, <1>3

\* A connection c of a client changes to l, but for its end of the driver when
\* this is up and for what it carries of the ports.
LEMMA RequestStep ==
    ASSUME IInv, NEW c \in Conn, NEW l, Path(l, rec[c]), l.node = link[c].node,
           link[c].end \in {"connecting", "open"} => l.end = link[c].end,
           link[c].node = "cmd" /\ Told(link[c].up, rec[c].ports) => Told(l.up, rec[c].ports),
           link' = [link EXCEPT ![c] = l], UNCHANGED <<boardVars, srvVars>>, ReqInv'
    PROVE  IInv'
<1>0. BoardInv /\ PathInv /\ ToldInv BY DEF IInv
<1>1. link \in [Conn -> Links] BY <1>0 DEF PathInv
<1>2. link'[c] = l /\ \A k \in Conn \ {c} : link'[k] = link[k] BY <1>1
<1>3. BoardInv' BY <1>0, <1>2, BoardKept
<1>4. PathInv' BY <1>0, PathStep
<1>5. ToldInv' BY <1>0, <1>2, ToldKept DEF boardVars, srvVars
<1> QED BY <1>3, <1>4, <1>5 DEF IInv

\* A request that is sent to one driver keeps IInv.
LEMMA WriteStep ==
    ASSUME IInv, NEW c \in Conn, NEW all \in BOOLEAN, Listed(c),
           rec[c].state = "REGISTER", rec[c].ipctype # "EVENT",
           Write(c, all), UNCHANGED <<boardVars, client_list>>
    PROVE  IInv'
<1> DEFINE l == IF link[c].end = "open"
                THEN [link[c] EXCEPT !.down = @ + 1, !.owed = @ + 1]
                ELSE [link[c] EXCEPT !.end = "reset", !.owed = @ + 1]
<1>0. BoardInv /\ PathInv /\ ReqInv BY DEF IInv
<1>1. link \in [Conn -> Links] /\ Path(link[c], rec[c]) BY <1>0 DEF PathInv
<1>2. ~rec[c].t_read /\ link[c].end \notin {"free", "connecting"} BY <1>1 DEF Path
<1>s. UNCHANGED <<boardVars, srvVars>>
  <2>1. rec \in [Conn -> Recs] /\ rec[c] \in Recs BY <1>0 DEF PathInv
  <2>2. [rec[c] EXCEPT !.t_read = FALSE] = rec[c] BY <1>2, <2>1 DEF Recs
  <2>3. rec' = [rec EXCEPT ![c] = [rec[c] EXCEPT !.t_read = FALSE]] BY DEF Write
  <2> QED BY <2>1, <2>2, <2>3 DEF srvVars
<1>3. c \in 0..MaxConns BY DEF Conn
<1>4. ASSUME NEW p \in {"loop", "read"}, req' = [pc |-> p, at |-> c, all |-> all]
      PROVE  ReqInv'
  <2>1. req' \in [pc : {"idle", "read", "next", "loop"}, at : 0..MaxConns, all : BOOLEAN]
    BY <1>3, <1>4
  <2>2. req'.at = c BY <1>4
  <2>3. Listed(c)' BY <1>s DEF Listed, srvVars
  <2> QED BY <1>2, <1>s, <2>1, <2>2, <2>3 DEF ReqInv, srvVars
<1>5. CASE link[c].end = "reset"
  <2>1. req' = [pc |-> "loop", at |-> c, all |-> all] /\ link' = link BY <1>5 DEF Write
  <2> QED BY <1>4, <1>s, <2>1, QuietStep
<1>6. CASE link[c].end # "reset"
  <2>1. /\ req' = [pc |-> "read", at |-> c, all |-> all]
        /\ link' = [link EXCEPT ![c] = l]
    BY <1>1, <1>6 DEF Write
  <2>2. ReqInv' BY <1>4, <2>1
  <2>3. /\ link[c] \in Links /\ link[c].up \in Seq(Msg) /\ link[c].down \in Nat
        /\ link[c].owed \in Nat
    BY <1>1 DEF Links
  <2>4. /\ l \in Links /\ l.up = link[c].up /\ l.node = link[c].node
        /\ l.owed = link[c].owed + 1 /\ l.down \in {link[c].down, link[c].down + 1}
        /\ l.end \notin {"free", "connecting"}
        /\ link[c].end \in {"connecting", "open"} => l.end = link[c].end
    <3>1. CASE link[c].end = "open"
      <4>1. l = [link[c] EXCEPT !.down = @ + 1, !.owed = @ + 1] BY <3>1
      <4>2. link[c].down + 1 \in Nat /\ link[c].owed + 1 \in Nat BY <2>3
      <4> HIDE DEF l
      <4> QED BY <2>3, <3>1, <4>1, <4>2 DEF Links
    <3>2. CASE link[c].end # "open"
      <4>1. l = [link[c] EXCEPT !.end = "reset", !.owed = @ + 1] BY <3>2
      <4>2. link[c].owed + 1 \in Nat BY <2>3
      <4> HIDE DEF l
      <4> QED BY <1>2, <2>3, <3>2, <4>1, <4>2 DEF Links
    <3> QED BY <3>1, <3>2
  <2> HIDE DEF l
  <2>5. Owing(l)
    <3>1. Cardinality(Acks(link[c].up)) \in Nat BY <2>3, AcksFinite
    <3>2. link[c].down + Cardinality(Acks(link[c].up)) <= link[c].owed
      BY <1>1 DEF Path, Owing
    <3> QED BY <2>3, <2>4, <3>1, <3>2 DEF Owing
  <2>6. Path(l, rec[c]) BY <1>1, <2>4, <2>5 DEF Path
  <2> QED BY <2>1, <2>2, <1>s, <2>4, <2>6, RequestStep
<1> QED BY <1>5, <1>6

\* With no request under way there is nothing to keep of one.
LEMMA IdleReq == ASSUME req' = NoReq PROVE ReqInv'
<1>1. NoReq \in [pc : {"idle", "read", "next", "loop"}, at : 0..MaxConns, all : BOOLEAN]
      /\ NoReq.pc = "idle"
  BY HalIpcAssumption DEF NoReq
<1> QED BY <1>1 DEF ReqInv

\* The walk along client_list for a request keeps IInv.
LEMMA WalkStep ==
    ASSUME IInv, NEW i \in Nat \ {0}, NEW all \in BOOLEAN, Walk(i, all),
           UNCHANGED <<boardVars, client_list>>
    PROVE  IInv'
<1>1. CASE \E j \in Commands(i) : /\ rec[client_list[j]].state = "REGISTER"
                                  /\ Write(client_list[j], all)
  <2>1. PICK j \in Commands(i) : /\ rec[client_list[j]].state = "REGISTER"
                                 /\ Write(client_list[j], all)
    BY <1>1
  <2>2. client_list \in Seq(Conn) BY DEF IInv, PathInv
  <2>3. j \in 1..Len(client_list) /\ rec[client_list[j]].ipctype # "EVENT"
    BY <2>2 DEF Commands
  <2>4. client_list[j] \in Conn /\ Listed(client_list[j]) BY <2>2, <2>3 DEF Listed
  <2> QED BY <2>1, <2>3, <2>4, WriteStep
<1>2. CASE req' = NoReq /\ UNCHANGED <<link, rec>>
  BY <1>2, IdleReq, QuietStep DEF srvVars
<1> QED BY <1>1, <1>2 DEF Walk

\* Going on to the next driver keeps IInv.
LEMMA WriteNextStep == ASSUME IInv, write_next PROVE IInv'
<1>1. PICK i \in 1..Len(client_list) : Walk(i + 1, TRUE) BY DEF write_next
<1>2. client_list \in Seq(Conn) BY DEF IInv, PathInv
<1>3. i + 1 \in Nat \ {0} BY <1>2
<1> QED BY <1>1, <1>3, WalkStep DEF write_next

\* A message s that was read from the connection by the task that waits on it.
LEMMA ReadStep ==
    ASSUME IInv, NEW c, c = req.at, req.pc = "read", link[c].up # <<>>,
           NEW o, o = (IF IsAck(Head(link[c].up)) THEN link[c].owed - 1 ELSE link[c].owed),
           link' = [link EXCEPT ![c].up = Tail(@), ![c].owed = o],
           UNCHANGED <<boardVars, srvVars>>, ReqInv'
    PROVE  IInv'
<1> DEFINE s == link[c].up
           t == Tail(s)
           l == [link[c] EXCEPT !.up = t, !.owed = o]
<1>0. c \in Conn /\ rec[c].state = "REGISTER" BY DEF IInv, ReqInv
<1>1. link \in [Conn -> Links] /\ Path(link[c], rec[c]) BY <1>0 DEF IInv, PathInv
<1>2. /\ link[c] \in Links /\ s \in Seq(Msg) /\ link[c].down \in Nat
      /\ link[c].owed \in Nat
  BY <1>0, <1>1 DEF Links
<1>3. t \in Seq(Msg) BY <1>2, HeadTailProperties
<1>4. /\ Cardinality(Acks(s)) \in Nat /\ Cardinality(Acks(t)) \in Nat
      /\ Cardinality(Acks(t)) <= IF IsAck(Head(s)) THEN Cardinality(Acks(s)) - 1
                                                   ELSE Cardinality(Acks(s))
  BY <1>2, <1>3, AcksFinite, AcksTail
<1>5. link[c].down + Cardinality(Acks(s)) <= link[c].owed BY <1>1 DEF Path, Owing
<1>6. o \in Nat /\ link[c].down + Cardinality(Acks(t)) <= o BY <1>2, <1>4, <1>5
<1>7. link' = [link EXCEPT ![c] = l] BY <1>0, <1>1
<1>8. link[c].node = "cmd" => /\ Told(s, rec[c].ports) => Told(t, rec[c].ports)
                              /\ DoneAfter(s, rec[c].ports) => DoneAfter(t, rec[c].ports)
  <2> SUFFICES ASSUME link[c].node = "cmd"
               PROVE  /\ Told(s, rec[c].ports) => Told(t, rec[c].ports)
                      /\ DoneAfter(s, rec[c].ports) => DoneAfter(t, rec[c].ports)
    OBVIOUS
  <2>1. rec[c].ports BY <1>0, <1>1 DEF Path
  <2> QED BY <1>2, <2>1, ToldTail
<1> HIDE DEF t
<1>9. /\ l \in Links /\ l.up = t /\ l.down = link[c].down /\ l.end = link[c].end
      /\ l.node = link[c].node /\ l.owed = o
  BY <1>2, <1>3, <1>6 DEF Links
<1> HIDE DEF l
<1>10. Owing(l) BY <1>6, <1>9 DEF Owing
<1>11. Path(l, rec[c]) BY <1>0, <1>1, <1>8, <1>9, <1>10 DEF Path
<1> QED BY <1>0, <1>7, <1>8, <1>9, <1>11, RequestStep

\* An answer that is read keeps IInv.
LEMMA MsgReadOkStep == ASSUME IInv, msg_read_ok PROVE IInv'
<1> DEFINE c == req.at
<1>0. BoardInv /\ PathInv /\ ReqInv BY DEF IInv
<1>1. /\ req.pc = "read" /\ link[c].up # <<>> /\ Head(link[c].up) = "ACK"
      /\ req' = (IF req.all THEN [req EXCEPT !.pc = "next"] ELSE NoReq)
      /\ UNCHANGED <<boardVars, srvVars>>
  BY DEF msg_read_ok
<1>2. c \in Conn /\ link \in [Conn -> Links] BY <1>0, <1>1 DEF ReqInv, PathInv
<1>3. link' = [link EXCEPT ![c].up = Tail(@), ![c].owed = link[c].owed - 1]
  BY <1>2 DEF msg_read_ok
<1>4. ReqInv'
  <2>1. CASE req.all
    <3>1. req' = [req EXCEPT !.pc = "next"] BY <1>1, <2>1
    <3>2. /\ req' \in [pc : {"idle", "read", "next", "loop"}, at : 0..MaxConns, all : BOOLEAN]
          /\ req'.at = req.at
      BY <1>0, <3>1 DEF ReqInv
    <3>3. \A k \in Conn : Listed(k)' = Listed(k) BY <1>1 DEF Listed, srvVars
    <3> QED BY <1>0, <1>1, <1>2, <3>2, <3>3 DEF ReqInv, srvVars
  <2>2. CASE ~req.all BY <1>1, <2>2, IdleReq
  <2> QED BY <2>1, <2>2
<1> QED BY <1>1, <1>3, <1>4, ReadStep DEF IsAck

\* An answer that says the request failed, or is none, keeps IInv.
LEMMA MsgReadErrorStep == ASSUME IInv, msg_read_error PROVE IInv'
<1> DEFINE c == req.at
           o == IF IsAck(Head(link[c].up)) THEN link[c].owed - 1 ELSE link[c].owed
<1>0. BoardInv /\ PathInv /\ ReqInv BY DEF IInv
<1>1. /\ req.pc = "read" /\ link[c].up # <<>> /\ Head(link[c].up) # "ACK"
      /\ req' = NoReq /\ UNCHANGED <<boardVars, srvVars>>
  BY DEF msg_read_error
<1>2. c \in Conn /\ link \in [Conn -> Links] BY <1>0, <1>1 DEF ReqInv, PathInv
<1>3. link' = [link EXCEPT ![c].up = Tail(@), ![c].owed =
                   IF Head(link[c].up) = "ACK_ERROR" THEN @ - 1 ELSE @]
  BY DEF msg_read_error
<1>4. IsAck(Head(link[c].up)) = (Head(link[c].up) = "ACK_ERROR") BY <1>1 DEF IsAck
<1>5. link' = [link EXCEPT ![c].up = Tail(@), ![c].owed = o]
  BY <1>2, <1>3, <1>4
<1> QED BY <1>1, <1>5, IdleReq, ReadStep

-----------------------------------------------------------------------------
(* The theorems *)

\* IInv holds before the first connection.
LEMMA InitIInv == Init => IInv
<1> SUFFICES ASSUME Init PROVE IInv OBVIOUS
<1> DEFINE H == [h \in Handle |-> IF h = "t_connect" THEN "connect" ELSE NULL]
           F == [f \in Func |-> IF f = "connect" THEN 1 ELSE 0]
           b == [state |-> "CLOSE", sock |-> 0, handle |-> H, sched |-> F]
<1>1. /\ node = [n \in Node |-> b]
      /\ bsp = "idle" /\ portnum = FALSE /\ starter = "begin"
      /\ link = [c \in Conn |-> NoLink] /\ client_list = <<>>
      /\ rec = [c \in Conn |-> NoRec] /\ req = NoReq
  BY DEF Init
<1>2. /\ H \in [Handle -> Func \cup {NULL}] /\ F \in [Func -> Nat]
      /\ H["t_read"] = NULL /\ H["t_time"] = NULL /\ H["t_connect"] = "connect"
      /\ F["connect"] = 1 /\ \A f \in Func \ {"connect"} : F[f] = 0
  BY DEF Handle, Func
<1> HIDE DEF H, F
<1>3. /\ b \in Boards /\ b.state = "CLOSE" /\ b.sock = 0 /\ b.handle = H /\ b.sched = F
  BY <1>2, HalIpcAssumption DEF Boards
<1> HIDE DEF b
<1>4. "connect" # NULL /\ "read" # NULL /\ "connect_check" # NULL BY HalIpcAssumption
<1>5. Handles(b) BY <1>2, <1>3, <1>4 DEF Handles, Func
<1>6. Attached(b) BY <1>2, <1>3, <1>4, <1>5 DEF Attached
<1>7. BoardInv
  <2>1. "idle" \notin Node BY HalIpcAssumption
  <2> QED BY <1>1, <1>3, <1>6, <2>1 DEF BoardInv, Owns
<1>8. NoRec \in Recs /\ NoRec.state = "NONE" /\ NoRec.ipctype = "NONE" /\ NoRec.ports = FALSE
  BY DEF NoRec, Recs
<1>9. NoLink = [end |-> "free", node |-> "cmd", up |-> <<>>, down |-> 0, owed |-> 0]
  BY DEF NoLink, NewLink
<1>10. Path(NoLink, NoRec) BY <1>8, <1>9, EmptyPath, HalIpcAssumption
<1>11. PathInv
  <2>1. NoLink \in Links BY <1>10 DEF Path
  <2>2. client_list \in Seq(Conn) BY <1>1
  <2> QED BY <1>1, <1>8, <1>10, <2>1, <2>2 DEF PathInv
<1>12. ToldInv BY <1>1, <1>3, HalIpcAssumption DEF ToldInv
<1>13. ReqInv
  <2>1. NoReq \in [pc : {"idle", "read", "next", "loop"}, at : 0..MaxConns, all : BOOLEAN]
        /\ NoReq.pc = "idle"
    BY HalIpcAssumption DEF NoReq
  <2> QED BY <1>1, <2>1 DEF ReqInv
<1> QED BY <1>7, <1>11, <1>12, <1>13 DEF IInv

\* Every step keeps IInv.
LEMMA NextIInv == IInv /\ [Next]_vars => IInv'
<1> SUFFICES ASSUME IInv, [Next]_vars PROVE IInv' OBVIOUS
<1>1. CASE Starter
  <2>1. CASE hwport_register BY <2>1, HwportRegisterStep
  <2>2. ASSUME NEW n \in Node, hwport_register_node(n) PROVE IInv'
    BY <2>2, HwportRegisterNodeStep
  <2> QED BY <1>1, <2>1, <2>2 DEF Starter
<1>2. ASSUME NEW n \in Node, Board(n) PROVE IInv'
  <2>1. CASE connect_thread(n) BY <2>1, ConnectThreadStep
  <2>2. CASE connect_check_failed(n) BY <2>2, ConnectCheckFailedStep
  <2>3. CASE connect_check(n) BY <2>3, ConnectCheckStep
  <2>4. CASE connected(n) BY <2>4, ConnectedStep
  <2>5. CASE connect_timeout(n) BY <2>5, ConnectTimeoutStep
  <2>6. CASE register_thread(n) BY <2>6, RegisterThreadStep
  <2>7. CASE hwport_thread(n) BY <2>7, HwportThreadStep
  <2>8. CASE start_done_thread(n) BY <2>8, StartDoneThreadStep
  <2>9. CASE timeout_thread(n) BY <2>9, TimeoutThreadStep
  <2>10. CASE read_thread(n) BY <2>10, ReadThreadStep
  <2>11. CASE read_thread_stops(n) BY <2>11, ReadThreadStopsStep
  <2> QED BY <1>2, <2>1, <2>2, <2>3, <2>4, <2>5, <2>6, <2>7, <2>8, <2>9, <2>10, <2>11
          DEF Board, Registers
<1>3. ASSUME NEW c \in Conn, Server(c) PROVE IInv'
  <2>1. CASE accept(c) BY <2>1, AcceptStep
  <2>2. CASE client_read(c) BY <2>2, ClientReadStep
  <2>3. CASE client_read_close(c) BY <2>3, ClientReadCloseStep
  <2> QED BY <1>3, <2>1, <2>2, <2>3 DEF Server
<1>4. CASE Request
  <2>1. ASSUME NEW all \in BOOLEAN, send_message(all) PROVE IInv'
    <3>1. Walk(1, all) /\ UNCHANGED <<boardVars, client_list>> BY <2>1 DEF send_message
    <3> QED BY <3>1, WalkStep
  <2>2. CASE msg_read_ok BY <2>2, MsgReadOkStep
  <2>3. CASE write_next BY <2>3, WriteNextStep
  <2>4. CASE msg_read_error BY <2>4, MsgReadErrorStep
  <2>5. CASE msg_read_timeout BY <2>5, IdleReq, QuietStep DEF msg_read_timeout
  <2> QED BY <1>4, <2>1, <2>2, <2>3, <2>4, <2>5 DEF Request
<1>5. CASE UNCHANGED vars
  <2>1. ReqInv' BY <1>5, SameReq DEF vars, IInv
  <2> QED BY <1>5, <2>1, QuietStep DEF vars
<1> QED BY <1>1, <1>2, <1>3, <1>4, <1>5 DEF Next, Ended

\* The inductive invariant holds in every state that the system reaches.
THEOREM SpecIInv == Spec => []IInv
<1> QED BY InitIInv, NextIInv, PTL DEF Spec

\* Type correctness of the driver's nodes, the connections and the server: the
\* counts of scheduled threads and of answers that are owed do not go below zero.
THEOREM SpecTypeOK == Spec => []TypeOK
<1>1. IInv => TypeOK
  BY DEF IInv, BoardInv, PathInv, ReqInv, TypeOK, Boards, Links, Recs
<1> QED BY <1>1, SpecIInv, PTL

\* hal_ipcsrv_client_read is not scheduled for a driver that hal_ipcsrv_msg_write
\* sends requests to, nor is the record freed of one that another task waits on.
THEOREM SpecOneReader == Spec => []OneReader
<1>1. IInv => OneReader BY DEF IInv, PathInv, Path, ReqInv, OneReader
<1> QED BY <1>1, SpecIInv, PTL

\* hal_client_read_thread and the handlers of the driver answer a request of
\* hal_ipcsrv_msg_write at most once, whatever was given up before.
THEOREM SpecAnsweredOnce == Spec => []AnsweredOnce
<1>1. IInv => AnsweredOnce BY DEF IInv, PathInv, Path, Owing, AnsweredOnce
<1> QED BY <1>1, SpecIInv, PTL

\* A driver whose record is registered has sent its table of ports on the same
\* connection, whichever of bspTask and the starting task came first.
THEOREM SpecPortsKnown == Spec => []PortsKnown
<1>1. IInv => PortsKnown BY DEF IInv, PathInv, Path, PortsKnown
<1> QED BY <1>1, SpecIInv, PTL
===============================================================================
