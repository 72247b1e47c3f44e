------------------------------ MODULE OsTimeProofs ------------------------------
(***************************************************************************)
(* Proofs about OsTime, for clients that do not cancel (Canceller = {}):   *)
(* they destroy, restart and forget their timers, and keep the ids of      *)
(* timers that have run or have become another client's.  The run          *)
(* os_time_restart shows what a client that restarts a cancelled timer     *)
(* does to the lists.  The proofs rest on OsListProofs.                    *)
(***************************************************************************)
EXTENDS OsTime, OsListProofs

\* Every struct is in one place only.
Listed == On(lst, "time") \cup On(lst, "unuse") \cup On(lst, "tmp")

PlaceInv ==
    /\ Sound(lst)
    /\ Listed \subseteq alloc
    /\ cur \notin Listed
    /\ \A c \in Client : got[c] # NULL => got[c] \in alloc /\ got[c] \notin Listed /\ got[c] # cur
    /\ \A c, d \in Client : got[c] # NULL /\ got[c] = got[d] => c = d
    /\ cur # NULL => cur \in alloc
    /\ \A n \in alloc : n \in Listed \/ n = cur \/ \E c \in Client : got[c] = n
    /\ cur # NULL <=> pc \in {"call", "called"}

\* What the fields of a struct say where it is.
FieldInv ==
    /\ \A n \in Waiting : /\ timer[n].state = "TRUE" /\ timer[n].lstid = "READY"
                          /\ timer[n].msec \in Delay /\ timer[n].pVoid \in Client
    /\ \A n \in On(lst, "unuse") : timer[n].state = "FALSE" /\ timer[n].lstid = "UNUSE"
    /\ \A n \in On(lst, "tmp") : timer[n].due <= 0
    /\ \A c \in Client : got[c] # NULL => timer[got[c]].msec \in Delay /\ timer[got[c]].pVoid = c
    /\ cur # NULL =>
          /\ timer[cur].msec \in Delay /\ timer[cur].pVoid \in Client
          /\ timer[cur].type = "DEFAULT" => timer[cur].state = "TRUE" /\ timer[cur].lstid = "READY"

\* Where the loops of os_time_task are.
WalkInv ==
    /\ pc \in {"wait", "woken"} => On(lst, "tmp") = {}
    /\ pc = "collect" => walk \in On(lst, "time") \cup {NULL}
    /\ pc \in {"run", "call", "called"} => walk = Nth(Chain(lst, "tmp"), 1)

IInv == TypeOK /\ PlaceInv /\ FieldInv /\ WalkInv
-----------------------------------------------------------------------------
\* When the clock stands still while a callback runs, what is left in time_list
\* after the first loop is not due before the next signal.
TimeOrder == InOrder(Chain(lst, "time"), Due(timer))

AllLater == \A n \in On(lst, "time") : timer[n].due > 0

WakeInv ==
    /\ TimeOrder
    /\ pc \in {"run", "call", "called"} \/ (pc = "wait" /\ ~sem) => AllLater
    /\ pc = "collect" => \E k \in 1..(Len(Chain(lst, "time")) + 1) :
          /\ walk = Nth(Chain(lst, "time"), k)
          /\ \A i \in 1..(k - 1) : timer[Chain(lst, "time")[i]].due > 0
    /\ NoLostWakeup
-----------------------------------------------------------------------------
\* The lists, and what the assumptions say of the values.
LEMMA Names ==
    /\ List = {"time", "unuse", "tmp"}
    /\ NULL \notin Node /\ NULL \notin Client
    /\ MaxDelay \in Nat \ {0} /\ Delay \subseteq 0..MaxDelay
    /\ \A d \in Delay : d \in Int /\ d > 0
BY OsListAssumption, OsTimeAssumption DEF Delay

\* The first node of a list.
LEMMA HeadIs ==
    ASSUME NEW m, Sound(m), NEW L \in List
    PROVE  /\ m.HEAD[L] = Nth(Chain(m, L), 1)
           /\ m.HEAD[L] = NULL <=> On(m, L) = {}
           /\ m.HEAD[L] # NULL => m.HEAD[L] \in On(m, L)
<1> DEFINE c == Chain(m, L)
<1>1. /\ IsChain(m, L, c) /\ On(m, L) = NodesOf(c) /\ Len(c) \in Nat
      /\ \A i \in 1..Len(c) : c[i] \in On(m, L)
      /\ On(m, L) \subseteq Node
  BY SoundChain
<1> HIDE DEF c
<1>2. m.HEAD[L] = Nth(c, 1) BY <1>1 DEF IsChain
<1>3. CASE Len(c) = 0
  <2>1. m.HEAD[L] = NULL /\ On(m, L) = {} BY <1>1, <1>2, <1>3 DEF Nth, NodesOf
  <2> QED BY <1>2, <2>1 DEF c
<1>4. CASE Len(c) # 0
  <2>1. 1 \in 1..Len(c) BY <1>1, <1>4
  <2>2. m.HEAD[L] = c[1] /\ c[1] \in On(m, L) /\ c[1] # NULL
    BY <1>1, <1>2, <2>1, OsListAssumption DEF Nth
  <2> QED BY <1>2, <2>2 DEF c
<1> QED BY <1>3, <1>4

\* The next node of one in a list.
LEMMA NextIs ==
    ASSUME NEW m, Sound(m), NEW L \in List, NEW k \in 1..Len(Chain(m, L))
    PROVE  /\ m.next[Chain(m, L)[k]] = Nth(Chain(m, L), k + 1)
           /\ Nth(Chain(m, L), k + 1) \in On(m, L) \cup {NULL}
<1> DEFINE c == Chain(m, L)
<1>1. /\ IsChain(m, L, c) /\ Len(c) \in Nat /\ \A i \in 1..Len(c) : c[i] \in On(m, L)
  BY SoundChain
<1> HIDE DEF c
<1>2. m.next[c[k]] = Nth(c, k + 1) BY <1>1 DEF IsChain, c
<1>3. Nth(c, k + 1) \in On(m, L) \cup {NULL} BY <1>1 DEF Nth
<1> QED BY <1>2, <1>3 DEF c

\* The POSIX timers that os_time_interval_refresh sets expire within MaxDelay.
LEMMA RefreshTyped ==
    ASSUME NEW m, Sound(m), NEW t \in [Node -> Struct],
           \A n \in On(m, "time") : t[n].msec \in Delay
    PROVE  Refresh(m, t) \subseteq Delay
<1> DEFINE h == m.HEAD["time"]
<1>1. CASE h = NULL BY <1>1 DEF Refresh
<1>2. CASE h # NULL
  <2>1. h \in On(m, "time") /\ h \in Node BY <1>2, HeadIs, SoundChain, Names
  <2>2. t[h].msec \in Delay /\ t[h].due \in -1..MaxDelay BY <2>1 DEF Struct
  <2>3. t[h].due > 0 => t[h].due \in Delay BY <2>2, Names DEF Delay
  <2> QED BY <2>2, <2>3 DEF Refresh
<1> QED BY <1>1, <1>2

\* The three lists share no node; a struct whose callback runs, or that is being
\* created, is in none.
LEMMA Apart ==
    ASSUME IInv
    PROVE  /\ Sound(lst) /\ lst \in Memory
           /\ On(lst, "time") \subseteq Node /\ On(lst, "unuse") \subseteq Node
           /\ On(lst, "tmp") \subseteq Node
           /\ On(lst, "time") \cap On(lst, "unuse") = {}
           /\ On(lst, "time") \cap On(lst, "tmp") = {}
           /\ On(lst, "unuse") \cap On(lst, "tmp") = {}
           /\ timer \in [Node -> Struct] /\ cur \in Node \cup {NULL}
           /\ handle \in [Client -> Node \cup {NULL}]
           /\ got \in [Client -> Node \cup {NULL}] /\ ret \in [Client -> Node \cup {NULL}]
           /\ alloc \subseteq Node /\ alarms \subseteq Delay
<1>1. Sound(lst) /\ lst \in Memory BY DEF IInv, PlaceInv, Sound
<1>2. \A L \in List : On(lst, L) \subseteq Node BY <1>1, SoundChain
<1>3. \A K, L \in List : K # L => On(lst, K) \cap On(lst, L) = {} BY <1>1 DEF Sound
<1>4. On(lst, "time") \subseteq Node /\ On(lst, "unuse") \subseteq Node /\ On(lst, "tmp") \subseteq Node
  BY <1>2, Names
<1>5. /\ On(lst, "time") \cap On(lst, "unuse") = {}
      /\ On(lst, "time") \cap On(lst, "tmp") = {}
      /\ On(lst, "unuse") \cap On(lst, "tmp") = {}
  BY <1>3, Names
<1> QED BY <1>1, <1>4, <1>5 DEF IInv, TypeOK

\* The same of any lists that are sound.
LEMMA PlacesOf ==
    ASSUME NEW m, Sound(m)
    PROVE  /\ On(m, "time") \cap On(m, "unuse") = {} /\ On(m, "time") \cap On(m, "tmp") = {}
           /\ On(m, "unuse") \cap On(m, "tmp") = {}
BY Names DEF Sound
-----------------------------------------------------------------------------
\* Writing one struct leaves the others.
LEMMA SetStruct ==
    ASSUME NEW t \in [Node -> Struct], NEW n \in Node, NEW r \in Struct
    PROVE  /\ [t EXCEPT ![n] = r] \in [Node -> Struct]
           /\ \A k \in Node \ {n} : [t EXCEPT ![n] = r][k] = t[k]
           /\ [t EXCEPT ![n] = r][n] = r
OBVIOUS

\* Writing msec leaves the other fields.
LEMMA SetMsec ==
    ASSUME NEW r \in Struct, NEW v \in 0..MaxDelay
    PROVE  LET s == [r EXCEPT !.msec = v]
           IN  /\ s \in Struct
               /\ s.msec = v /\ s.t_id = r.t_id /\ s.state = r.state
               /\ s.lstid = r.lstid /\ s.type = r.type /\ s.due = r.due
               /\ s.pVoid = r.pVoid
BY DEF Struct

\* Writing due leaves the other fields.
LEMMA SetDue ==
    ASSUME NEW r \in Struct, NEW v \in -1..MaxDelay
    PROVE  LET s == [r EXCEPT !.due = v]
           IN  /\ s \in Struct
               /\ s.due = v /\ s.t_id = r.t_id /\ s.state = r.state
               /\ s.lstid = r.lstid /\ s.type = r.type /\ s.msec = r.msec
               /\ s.pVoid = r.pVoid
BY DEF Struct

\* Writing state leaves the other fields.
LEMMA SetState ==
    ASSUME NEW r \in Struct, NEW v \in {"FALSE", "TRUE", "CANCEL"}
    PROVE  LET s == [r EXCEPT !.state = v]
           IN  /\ s \in Struct
               /\ s.state = v /\ s.t_id = r.t_id /\ s.lstid = r.lstid
               /\ s.type = r.type /\ s.msec = r.msec /\ s.due = r.due
               /\ s.pVoid = r.pVoid
BY DEF Struct

\* Writing lstid leaves the other fields.
LEMMA SetLstid ==
    ASSUME NEW r \in Struct, NEW v \in {"READY", "UNUSE"}
    PROVE  LET s == [r EXCEPT !.lstid = v]
           IN  /\ s \in Struct
               /\ s.lstid = v /\ s.t_id = r.t_id /\ s.state = r.state
               /\ s.type = r.type /\ s.msec = r.msec /\ s.due = r.due
               /\ s.pVoid = r.pVoid
BY DEF Struct

\* Writing t_id leaves the other fields.
LEMMA SetTid ==
    ASSUME NEW r \in Struct, NEW v \in Node \cup {NULL}
    PROVE  LET s == [r EXCEPT !.t_id = v]
           IN  /\ s \in Struct
               /\ s.t_id = v /\ s.state = r.state /\ s.lstid = r.lstid
               /\ s.type = r.type /\ s.msec = r.msec /\ s.due = r.due
               /\ s.pVoid = r.pVoid
BY DEF Struct

\* What create and restart write.
LEMMA ReadyIs ==
    ASSUME NEW t \in Struct, NEW msec \in Delay
    PROVE  /\ Ready(t, msec) \in Struct
           /\ Ready(t, msec).t_id = t.t_id /\ Ready(t, msec).state = "TRUE"
           /\ Ready(t, msec).lstid = "READY" /\ Ready(t, msec).type = t.type
           /\ Ready(t, msec).msec = msec /\ Ready(t, msec).due = msec
           /\ Ready(t, msec).pVoid = t.pVoid
<1>0. /\ msec \in 0..MaxDelay /\ msec \in -1..MaxDelay /\ "READY" \in {"READY", "UNUSE"}
      /\ "TRUE" \in {"FALSE", "TRUE", "CANCEL"}
  BY Names
<1>1. PICK r1 : r1 = [t EXCEPT !.msec = msec] OBVIOUS
<1>2. PICK r2 : r2 = [r1 EXCEPT !.due = msec] OBVIOUS
<1>3. PICK r3 : r3 = [r2 EXCEPT !.state = "TRUE"] OBVIOUS
<1>4. PICK r4 : r4 = [r3 EXCEPT !.lstid = "READY"] OBVIOUS
<1>5. /\ r1 \in Struct /\ r1.t_id = t.t_id /\ r1.state = t.state /\ r1.lstid = t.lstid
      /\ r1.type = t.type /\ r1.msec = msec /\ r1.due = t.due /\ r1.pVoid = t.pVoid
  BY <1>0, <1>1, SetMsec
<1>6. /\ r2 \in Struct /\ r2.t_id = t.t_id /\ r2.state = t.state /\ r2.lstid = t.lstid
      /\ r2.type = t.type /\ r2.msec = msec /\ r2.due = msec /\ r2.pVoid = t.pVoid
  BY <1>0, <1>2, <1>5, SetDue
<1>7. /\ r3 \in Struct /\ r3.t_id = t.t_id /\ r3.state = "TRUE" /\ r3.lstid = t.lstid
      /\ r3.type = t.type /\ r3.msec = msec /\ r3.due = msec /\ r3.pVoid = t.pVoid
  BY <1>0, <1>3, <1>6, SetState
<1>8. /\ r4 \in Struct /\ r4.t_id = t.t_id /\ r4.state = "TRUE" /\ r4.lstid = "READY"
      /\ r4.type = t.type /\ r4.msec = msec /\ r4.due = msec /\ r4.pVoid = t.pVoid
  BY <1>0, <1>4, <1>7, SetLstid
<1>9. Ready(t, msec) = r4 BY <1>1, <1>2, <1>3, <1>4 DEF Ready
<1> QED BY <1>8, <1>9

\* What cancel writes.
LEMMA CancelledIs ==
    ASSUME NEW t \in Struct
    PROVE  /\ Cancelled(t) \in Struct
           /\ Cancelled(t).t_id = t.t_id /\ Cancelled(t).state = "CANCEL"
           /\ Cancelled(t).lstid = "UNUSE" /\ Cancelled(t).type = t.type
           /\ Cancelled(t).msec = t.msec /\ Cancelled(t).due = 0
           /\ Cancelled(t).pVoid = t.pVoid
<1>0. /\ 0 \in -1..MaxDelay /\ "UNUSE" \in {"READY", "UNUSE"} /\ "CANCEL" \in {"FALSE", "TRUE", "CANCEL"}
  BY Names
<1>1. PICK r1 : r1 = [t EXCEPT !.lstid = "UNUSE"] OBVIOUS
<1>2. PICK r2 : r2 = [r1 EXCEPT !.state = "CANCEL"] OBVIOUS
<1>3. PICK r3 : r3 = [r2 EXCEPT !.due = 0] OBVIOUS
<1>4. /\ r1 \in Struct /\ r1.t_id = t.t_id /\ r1.state = t.state /\ r1.lstid = "UNUSE"
      /\ r1.type = t.type /\ r1.msec = t.msec /\ r1.due = t.due /\ r1.pVoid = t.pVoid
  BY <1>0, <1>1, SetLstid
<1>5. /\ r2 \in Struct /\ r2.t_id = t.t_id /\ r2.state = "CANCEL" /\ r2.lstid = "UNUSE"
      /\ r2.type = t.type /\ r2.msec = t.msec /\ r2.due = t.due /\ r2.pVoid = t.pVoid
  BY <1>0, <1>2, <1>4, SetState
<1>6. /\ r3 \in Struct /\ r3.t_id = t.t_id /\ r3.state = "CANCEL" /\ r3.lstid = "UNUSE"
      /\ r3.type = t.type /\ r3.msec = t.msec /\ r3.due = 0 /\ r3.pVoid = t.pVoid
  BY <1>0, <1>3, <1>5, SetDue
<1>7. Cancelled(t) = r3 BY <1>1, <1>2, <1>3 DEF Cancelled
<1> QED BY <1>6, <1>7

\* What os_time_task writes to a one-shot timer before the callback.
LEMMA CalledOnce ==
    ASSUME NEW t \in Struct, t.type = "ONCE"
    PROVE  /\ Called(t) \in Struct
           /\ Called(t).t_id = NULL /\ Called(t).state = "FALSE"
           /\ Called(t).lstid = t.lstid /\ Called(t).type = t.type
           /\ Called(t).msec = t.msec /\ Called(t).due = 0
           /\ Called(t).pVoid = t.pVoid
<1>0. /\ 0 \in -1..MaxDelay /\ "FALSE" \in {"FALSE", "TRUE", "CANCEL"} /\ NULL \in Node \cup {NULL}
  BY Names
<1>1. PICK r1 : r1 = [t EXCEPT !.due = 0] OBVIOUS
<1>2. PICK r2 : r2 = [r1 EXCEPT !.state = "FALSE"] OBVIOUS
<1>3. PICK r3 : r3 = [r2 EXCEPT !.t_id = NULL] OBVIOUS
<1>4. /\ r1 \in Struct /\ r1.t_id = t.t_id /\ r1.state = t.state /\ r1.lstid = t.lstid
      /\ r1.type = t.type /\ r1.msec = t.msec /\ r1.due = 0 /\ r1.pVoid = t.pVoid
  BY <1>0, <1>1, SetDue
<1>5. /\ r2 \in Struct /\ r2.t_id = t.t_id /\ r2.state = "FALSE" /\ r2.lstid = t.lstid
      /\ r2.type = t.type /\ r2.msec = t.msec /\ r2.due = 0 /\ r2.pVoid = t.pVoid
  BY <1>0, <1>2, <1>4, SetState
<1>6. /\ r3 \in Struct /\ r3.t_id = NULL /\ r3.state = "FALSE" /\ r3.lstid = t.lstid
      /\ r3.type = t.type /\ r3.msec = t.msec /\ r3.due = 0 /\ r3.pVoid = t.pVoid
  BY <1>0, <1>3, <1>5, SetTid
<1>7. Called(t) = r3 BY <1>1, <1>2, <1>3 DEF Called
<1> QED BY <1>6, <1>7

\* And to a periodic one.
LEMMA CalledAgain ==
    ASSUME NEW t \in Struct, t.type # "ONCE"
    PROVE  /\ Called(t) \in Struct
           /\ Called(t).t_id = t.t_id /\ Called(t).state = t.state
           /\ Called(t).lstid = t.lstid /\ Called(t).type = t.type
           /\ Called(t).msec = t.msec /\ Called(t).due = 0
           /\ Called(t).pVoid = t.pVoid
<1>0. 0 \in -1..MaxDelay BY Names
<1>1. PICK r1 : r1 = [t EXCEPT !.due = 0] OBVIOUS
<1>2. /\ r1 \in Struct /\ r1.t_id = t.t_id /\ r1.state = t.state /\ r1.lstid = t.lstid
      /\ r1.type = t.type /\ r1.msec = t.msec /\ r1.due = 0 /\ r1.pVoid = t.pVoid
  BY <1>0, <1>1, SetDue
<1>3. Called(t) = r1 BY <1>1 DEF Called
<1> QED BY <1>2, <1>3

\* What a new timer is.
LEMMA EntryIs ==
    ASSUME NEW n \in Node, NEW type \in {"DEFAULT", "ONCE"}, NEW msec \in 0..MaxDelay, NEW c \in Client
    PROVE  /\ Entry(n, type, msec, c) \in Struct /\ Entry(n, type, msec, c).type = type
           /\ Entry(n, type, msec, c).msec = msec /\ Entry(n, type, msec, c).pVoid = c
<1>1. PICK r1 : r1 = [Blank EXCEPT !.t_id = n] OBVIOUS
<1>2. r1 = [t_id |-> n, state |-> "FALSE", lstid |-> "NONE", type |-> "DEFAULT",
            msec |-> 0, due |-> 0, pVoid |-> NULL]
  BY <1>1 DEF Blank
<1>3. PICK r2 : r2 = [r1 EXCEPT !.type = type] OBVIOUS
<1>4. r2 = [t_id |-> n, state |-> "FALSE", lstid |-> "NONE", type |-> type,
            msec |-> 0, due |-> 0, pVoid |-> NULL]
  BY <1>2, <1>3
<1>5. PICK r3 : r3 = [r2 EXCEPT !.msec = msec] OBVIOUS
<1>6. r3 = [t_id |-> n, state |-> "FALSE", lstid |-> "NONE", type |-> type,
            msec |-> msec, due |-> 0, pVoid |-> NULL]
  BY <1>4, <1>5
<1>7. [r3 EXCEPT !.pVoid = c] = [t_id |-> n, state |-> "FALSE", lstid |-> "NONE", type |-> type,
                                 msec |-> msec, due |-> 0, pVoid |-> c]
  BY <1>6
<1>8. [r3 EXCEPT !.pVoid = c] \in Struct BY <1>7, Names DEF Struct
<1>9. Entry(n, type, msec, c) = [r3 EXCEPT !.pVoid = c] BY <1>1, <1>3, <1>5 DEF Entry
<1> QED BY <1>7, <1>8, <1>9

\* An unused timer has no id.
LEMMA UnusedIs ==
    /\ Unused \in Struct /\ Unused.state = "FALSE" /\ Unused.lstid = "UNUSE"
    /\ Unused.t_id = NULL /\ Unused.type = "DEFAULT"
<1>1. Unused = [t_id |-> NULL, state |-> "FALSE", lstid |-> "UNUSE", type |-> "DEFAULT",
                msec |-> 0, due |-> 0, pVoid |-> NULL]
  BY DEF Unused, Blank
<1> QED BY <1>1, Names DEF Struct

\* What the lists are sorted by.
LEMMA DueIs ==
    ASSUME NEW t \in [Node -> Struct]
    PROVE  Due(t) \in [Node -> Int] /\ \A n \in Node : Due(t)[n] = t[n].due /\ t[n].due \in -1..MaxDelay
<1>1. \A n \in Node : t[n].due \in -1..MaxDelay BY DEF Struct
<1> QED BY <1>1, Names DEF Due
-----------------------------------------------------------------------------
\* os_time_get_node takes a struct that is in no list but the unused ones, and
\* leaves it in none.
LEMMA GetNodeTakes ==
    ASSUME IInv, NEW c \in Client, NEW type, NEW msec, os_time_get_node(c, type, msec)
    PROVE  \E n \in Node :
              /\ n \in On(lst, "unuse") \/ n \notin alloc
              /\ Sound(lst')
              /\ On(lst', "time") = On(lst, "time") /\ On(lst', "tmp") = On(lst, "tmp")
              /\ On(lst', "unuse") = On(lst, "unuse") \ {n}
              /\ Chain(lst', "time") = Chain(lst, "time") /\ Chain(lst', "tmp") = Chain(lst, "tmp")
              /\ lst'.HEAD["time"] = lst.HEAD["time"]
              /\ timer' = [timer EXCEPT ![n] = Entry(n, type, msec, c)]
              /\ alloc' = alloc \cup {n}
              /\ got' = [got EXCEPT ![c] = n]
<1> DEFINE u == Chain(lst, "unuse")
           Free == {i \in DOMAIN u : timer[u[i]].state = "FALSE"}
           first == CHOOSE i \in Free : \A j \in Free : i <= j
           clear(m, n) == [m EXCEPT !.next[n] = NULL, !.previous[n] = NULL]
<1>1. PICK n \in IF u # <<>> THEN {u[IF Free # {} THEN first ELSE Len(u)]} ELSE Node \ alloc :
         /\ lst' = clear(IF u # <<>> THEN lstDelete(lst, "unuse", n) ELSE lst, n)
         /\ timer' = [timer EXCEPT ![n] = Entry(n, type, msec, c)]
         /\ alloc' = alloc \cup {n}
         /\ got' = [got EXCEPT ![c] = n]
  BY DEF os_time_get_node
<1>2. /\ Sound(lst) /\ u \in Seq(Node) /\ Len(u) \in Nat /\ DOMAIN u = 1..Len(u)
      /\ On(lst, "unuse") \subseteq Node
      /\ \A i \in 1..Len(u) : u[i] \in On(lst, "unuse")
  BY Apart, SoundChain, Names
<1>3. CASE u # <<>>
  <2>1. Len(u) \in 1..Len(u)
    <3> HIDE DEF u
    <3> QED BY <1>2, <1>3
  <2>2. Free # {} => first \in 1..Len(u)
    <3>1. Free \subseteq Nat BY <1>2
    <3>2. Free # {} => \E i \in Free : \A j \in Free : i <= j
      <4> HIDE DEF Free
      <4> QED BY <3>1, Smallest
    <3>3. Free # {} => first \in Free
      <4> HIDE DEF Free
      <4> QED BY <3>2
    <3> QED BY <1>2, <3>3
  <2>3. n \in On(lst, "unuse")
    <3> HIDE DEF Free, first
    <3> QED BY <1>1, <1>2, <1>3, <2>1, <2>2
  <2> DEFINE d == lstDelete(lst, "unuse", n)
  <2>4. PICK k \in 1..Len(Chain(lst, "unuse")) : Takes(d, lst, "unuse", k) /\ Chain(lst, "unuse")[k] = n
    BY <1>2, <2>3, SoundDelete, Names
  <2>5. lst' = clear(d, n) BY <1>1, <1>3
  <2> HIDE DEF d
  <2>6. /\ Sound(d) /\ On(d, "unuse") = On(lst, "unuse") \ {n}
        /\ \A K \in List \ {"unuse"} : Chain(d, K) = Chain(lst, K) /\ On(d, K) = On(lst, K)
        /\ n \in Node
    BY <1>2, <2>3, <2>4 DEF Takes
  <2>7. \A K \in List : n \notin On(d, K) BY <2>3, <2>6, Apart, Names
  <2>8. Sound(lst') /\ \A K \in List : Chain(lst', K) = Chain(d, K) /\ On(lst', K) = On(d, K)
    BY <2>5, <2>6, <2>7, SoundCleared
  <2>9. /\ On(lst', "time") = On(lst, "time") /\ On(lst', "tmp") = On(lst, "tmp")
        /\ On(lst', "unuse") = On(lst, "unuse") \ {n}
        /\ Chain(lst', "time") = Chain(lst, "time") /\ Chain(lst', "tmp") = Chain(lst, "tmp")
    BY <2>6, <2>8, Names
  <2>10. lst'.HEAD["time"] = lst.HEAD["time"] BY <1>2, <2>8, <2>9, HeadIs, Names
  <2> QED BY <1>1, <2>3, <2>6, <2>8, <2>9, <2>10
<1>4. CASE u = <<>>
  <2>1. n \in Node /\ n \notin alloc /\ lst' = clear(lst, n) BY <1>1, <1>4
  <2>2. \A K \in List : n \notin On(lst, K) BY <2>1, Names DEF IInv, PlaceInv, Listed
  <2>3. Sound(lst') /\ \A K \in List : Chain(lst', K) = Chain(lst, K) /\ On(lst', K) = On(lst, K)
    BY <1>2, <2>1, <2>2, SoundCleared
  <2>4. /\ On(lst', "time") = On(lst, "time") /\ On(lst', "tmp") = On(lst, "tmp")
        /\ On(lst', "unuse") = On(lst, "unuse") \ {n}
        /\ Chain(lst', "time") = Chain(lst, "time") /\ Chain(lst', "tmp") = Chain(lst, "tmp")
    BY <2>2, <2>3, Names
  <2>5. lst'.HEAD["time"] = lst.HEAD["time"] BY <1>2, <2>3, <2>4, HeadIs, Names
  <2> QED BY <1>1, <2>1, <2>3, <2>4, <2>5
<1> QED BY <1>3, <1>4

\* What a client has created waits for it.
LEMMA GetNodeInv ==
    ASSUME IInv, NEW c \in Client, NEW msec \in Delay, NEW type \in Types(c),
           os_time_get_node(c, type, msec)
    PROVE  IInv'
<1>1. PICK n \in Node :
         /\ n \in On(lst, "unuse") \/ n \notin alloc
         /\ Sound(lst')
         /\ On(lst', "time") = On(lst, "time") /\ On(lst', "tmp") = On(lst, "tmp")
         /\ On(lst', "unuse") = On(lst, "unuse") \ {n}
         /\ Chain(lst', "tmp") = Chain(lst, "tmp")
         /\ timer' = [timer EXCEPT ![n] = Entry(n, type, msec, c)]
         /\ alloc' = alloc \cup {n}
         /\ got' = [got EXCEPT ![c] = n]
  BY GetNodeTakes
<1>2. /\ got[c] = NULL /\ ~Locked
      /\ alarms' = alarms /\ handle' = handle /\ ret' = ret
      /\ sem' = sem /\ pc' = pc /\ walk' = walk /\ cur' = cur
  BY DEF os_time_get_node, Idle, taskVars
<1>3. /\ n \notin Waiting /\ n # cur /\ n # NULL
      /\ \A d \in Client : got[d] # n
  BY <1>1, Apart, Names DEF IInv, PlaceInv, Listed, Waiting
<1>4. /\ timer' \in [Node -> Struct] /\ \A k \in Node \ {n} : timer'[k] = timer[k]
      /\ timer'[n].msec = msec /\ timer'[n].pVoid = c
  <2>1. type \in {"DEFAULT", "ONCE"} BY DEF Types
  <2>2. msec \in 0..MaxDelay BY Names
  <2>3. timer' = [timer EXCEPT ![n] = Entry(n, type, msec, c)] BY <1>1
  <2> QED BY <2>1, <2>2, <2>3, EntryIs, SetStruct, Apart
<1>5. TypeOK'
  BY <1>1, <1>2, <1>4 DEF IInv, TypeOK, Sound
<1>6. PlaceInv'
  <2>1. Listed' = Listed \ {n} BY <1>1, <1>3, Apart DEF Listed, Waiting
  <2>2. \A d \in Client : got'[d] = IF d = c THEN n ELSE got[d] BY <1>1, Apart
  <2>3. PlaceInv BY DEF IInv
  <2> QED BY <1>1, <1>2, <1>3, <2>1, <2>2, <2>3, Apart, Names DEF PlaceInv
<1>7. FieldInv'
  BY <1>1, <1>2, <1>3, <1>4, Apart, Names DEF IInv, PlaceInv, FieldInv, Listed, Waiting
<1>8. WalkInv'
  BY <1>1, <1>2 DEF IInv, WalkInv, Locked
<1> QED BY <1>5, <1>6, <1>7, <1>8 DEF IInv
-----------------------------------------------------------------------------
\* A timer that a client finds by its id, its own or not, waits in time_list.
LEMMA FoundIs ==
    ASSUME IInv, NEW c \in Client, handle[c] # NULL, Found(handle[c])
    PROVE  /\ handle[c] \in Node /\ handle[c] \in On(lst, "time") /\ handle[c] # cur
           /\ timer[handle[c]].lstid = "READY"
<1>1. /\ handle[c] \in On(lst, "time") \cup On(lst, "unuse") /\ timer[handle[c]].state # "FALSE"
  BY DEF Found
<1>2. handle[c] \in On(lst, "time") BY <1>1 DEF IInv, FieldInv
<1> QED BY <1>2, Apart DEF IInv, PlaceInv, FieldInv, Listed, Waiting

\* Setting the clock keeps what is set within MaxDelay.
LEMMA SetAlarmIs ==
    ASSUME NEW m, Sound(m), NEW t \in [Node -> Struct], \A n \in On(m, "time") : t[n].msec \in Delay,
           alarms \subseteq Delay, SetAlarm(m, t)
    PROVE  alarms' \subseteq Delay /\ alarms' = alarms \cup Refresh(m, t)
BY RefreshTyped DEF SetAlarm

\* Linking a timer in puts it into time_list only, in order.
LEMMA ActivateIs ==
    ASSUME timer \in [Node -> Struct], alarms \subseteq Delay, NEW m, Sound(m), NEW n \in Node,
           \A K \in List : n \notin On(m, K), NEW msec \in Delay, Activate(m, n, msec),
           \A k \in On(m, "time") : timer[k].msec \in Delay
    PROVE  /\ Sound(lst')
           /\ On(lst', "time") = On(m, "time") \cup {n} /\ On(lst', "unuse") = On(m, "unuse")
           /\ On(lst', "tmp") = On(m, "tmp") /\ Chain(lst', "tmp") = Chain(m, "tmp")
           /\ \E k \in 1..(Len(Chain(m, "time")) + 1) :
                 /\ Chain(lst', "time") = Inserted(Chain(m, "time"), k, n)
                 /\ InOrder(Chain(m, "time"), Due(timer'))
                       => Between(Chain(m, "time"), Due(timer'), k, n)
           /\ timer' \in [Node -> Struct] /\ \A k \in Node \ {n} : timer'[k] = timer[k]
           /\ timer'[n].t_id = timer[n].t_id /\ timer'[n].state = "TRUE" /\ timer'[n].lstid = "READY"
           /\ timer'[n].type = timer[n].type /\ timer'[n].msec = msec /\ timer'[n].due = msec
           /\ timer'[n].pVoid = timer[n].pVoid
           /\ alarms' \subseteq Delay /\ alarms' = alarms \cup Refresh(lst', timer')
<1>1. /\ timer' = [timer EXCEPT ![n] = Ready(timer[n], msec)]
      /\ lst' = lstAddSort(m, "time", n, Due(timer'))
      /\ SetAlarm(lst', timer')
  BY DEF Activate
<1>2. /\ timer' \in [Node -> Struct] /\ \A k \in Node \ {n} : timer'[k] = timer[k]
      /\ timer'[n].t_id = timer[n].t_id /\ timer'[n].state = "TRUE" /\ timer'[n].lstid = "READY"
      /\ timer'[n].type = timer[n].type /\ timer'[n].msec = msec /\ timer'[n].due = msec
      /\ timer'[n].pVoid = timer[n].pVoid
  BY <1>1, ReadyIs, SetStruct
<1>3. Due(timer') \in [Node -> Int] BY <1>2, DueIs
<1>4. PICK k \in 1..(Len(Chain(m, "time")) + 1) :
         /\ Puts(lst', m, "time", k, n)
         /\ InOrder(Chain(m, "time"), Due(timer')) => Between(Chain(m, "time"), Due(timer'), k, n)
  BY <1>1, <1>3, SoundAddSort, Names
<1>5. /\ Sound(lst')
      /\ On(lst', "time") = On(m, "time") \cup {n} /\ On(lst', "unuse") = On(m, "unuse")
      /\ On(lst', "tmp") = On(m, "tmp") /\ Chain(lst', "tmp") = Chain(m, "tmp")
      /\ Chain(lst', "time") = Inserted(Chain(m, "time"), k, n)
  BY <1>4, Names DEF Puts
<1>6. \A i \in On(lst', "time") : timer'[i].msec \in Delay
  BY <1>2, <1>5, SoundChain, Names
<1>7. alarms' \subseteq Delay /\ alarms' = alarms \cup Refresh(lst', timer')
  BY <1>1, <1>2, <1>5, <1>6, SetAlarmIs
<1> QED BY <1>2, <1>4, <1>5, <1>7

\* Out of time_list and into the unused ones.
LEMMA ToUnuseIs ==
    ASSUME IInv, NEW n \in On(lst, "time"), lst' = ToUnuse(lst, n)
    PROVE  /\ Sound(lst')
           /\ On(lst', "time") = On(lst, "time") \ {n} /\ On(lst', "unuse") = On(lst, "unuse") \cup {n}
           /\ On(lst', "tmp") = On(lst, "tmp") /\ Chain(lst', "tmp") = Chain(lst, "tmp")
           /\ \E k \in 1..Len(Chain(lst, "time")) :
                 Chain(lst, "time")[k] = n /\ Chain(lst', "time") = Removed(Chain(lst, "time"), k)
<1>1. timer[n].lstid = "READY" BY DEF IInv, FieldInv, Waiting
<1>2. lst' = lstAdd(lstDelete(lst, "time", n), "unuse", n) BY <1>1 DEF ToUnuse
<1>3. /\ Sound(lst) /\ "time" \in List /\ "unuse" \in List /\ "tmp" \in List \ {"time", "unuse"}
  BY Apart, Names
<1> DEFINE w == lstAdd(lstDelete(lst, "time", n), "unuse", n)
<1>4. PICK k \in 1..Len(Chain(lst, "time")) :
              /\ Sound(w)
              /\ Chain(lst, "time")[k] = n
              /\ Chain(w, "time") = Removed(Chain(lst, "time"), k)
              /\ On(w, "time") = On(lst, "time") \ {n}
              /\ On(w, "unuse") = On(lst, "unuse") \cup {n}
              /\ \A J \in List \ {"time", "unuse"} : Chain(w, J) = Chain(lst, J) /\ On(w, J) = On(lst, J)
  BY <1>3, SoundMove
<1> HIDE DEF w
<1> QED BY <1>2, <1>3, <1>4 DEF w

\* A timer that is withdrawn joins the unused ones.
LEMMA WithdrawInv ==
    ASSUME IInv, ~Locked, NEW c \in Client, handle[c] # NULL, Found(handle[c]),
           lst' = ToUnuse(lst, handle[c]),
           timer' \in [Node -> Struct], \A k \in Node \ {handle[c]} : timer'[k] = timer[k],
           timer'[handle[c]].state = "FALSE", timer'[handle[c]].lstid = "UNUSE",
           SetAlarm(lst', timer'), handle' = [handle EXCEPT ![c] = NULL],
           alloc' = alloc, got' = got, ret' = ret, sem' = sem, pc' = pc, walk' = walk, cur' = cur
    PROVE  IInv'
<1>1. PICK n : n = handle[c] OBVIOUS
<1>2. n \in Node /\ n \in On(lst, "time") /\ n # cur /\ n # NULL
  BY <1>1, FoundIs
<1>3. /\ Sound(lst')
      /\ On(lst', "time") = On(lst, "time") \ {n} /\ On(lst', "unuse") = On(lst, "unuse") \cup {n}
      /\ On(lst', "tmp") = On(lst, "tmp") /\ Chain(lst', "tmp") = Chain(lst, "tmp")
  BY <1>1, <1>2, ToUnuseIs
<1>4. \A d \in Client : handle'[d] = IF d = c THEN NULL ELSE handle[d] BY Apart
<1>5. /\ timer' \in [Node -> Struct] /\ \A k \in Node \ {n} : timer'[k] = timer[k]
      /\ timer'[n].state = "FALSE" /\ timer'[n].lstid = "UNUSE"
  BY <1>1
<1>6. \A k \in On(lst', "time") : timer'[k].msec \in Delay
  BY <1>3, <1>5, Apart DEF IInv, FieldInv, Waiting
<1>7. alarms' \subseteq Delay BY <1>3, <1>6, SetAlarmIs, Apart
<1>8. TypeOK'
  BY <1>3, <1>4, <1>7 DEF IInv, TypeOK, Sound
<1>9. PlaceInv'
  <2>1. Listed' = Listed BY <1>2, <1>3 DEF Listed
  <2>2. PlaceInv BY DEF IInv
  <2> QED BY <1>3, <2>1, <2>2 DEF PlaceInv
<1>10. FieldInv'
  BY <1>2, <1>3, <1>5, Apart DEF IInv, PlaceInv, FieldInv, Listed, Waiting
<1>11. WalkInv'
  BY <1>3 DEF IInv, WalkInv, Locked
<1> QED BY <1>8, <1>9, <1>10, <1>11 DEF IInv

\* A client that finds nothing only forgets its id.
LEMMA ForgetInv ==
    ASSUME IInv, NEW c \in Client, handle' = [handle EXCEPT ![c] = NULL],
           lst' = lst, timer' = timer, alarms' = alarms,
           alloc' = alloc, got' = got, ret' = ret, sem' = sem, pc' = pc, walk' = walk, cur' = cur
    PROVE  IInv'
<1>1. \A d \in Client : handle'[d] = IF d = c THEN NULL ELSE handle[d] BY Apart
<1>2. TypeOK' BY <1>1 DEF IInv, TypeOK
<1>3. PlaceInv' /\ FieldInv' /\ WalkInv' BY DEF IInv, PlaceInv, FieldInv, WalkInv, Listed, Waiting
<1> QED BY <1>2, <1>3 DEF IInv

\* os_time_destroy, whether it finds the timer or not.
LEMMA DestroyInv ==
    ASSUME IInv, NEW c \in Client, os_time_destroy(c)
    PROVE  IInv'
<1>1. /\ ~Locked /\ handle[c] # NULL /\ handle' = [handle EXCEPT ![c] = NULL]
      /\ alloc' = alloc /\ got' = got /\ ret' = ret
      /\ sem' = sem /\ pc' = pc /\ walk' = walk /\ cur' = cur
  BY DEF os_time_destroy, taskVars
<1>2. CASE Found(handle[c])
  <2>1. /\ lst' = ToUnuse(lst, handle[c]) /\ timer' = [timer EXCEPT ![handle[c]] = Unused]
        /\ SetAlarm(lst', timer')
    BY <1>2 DEF os_time_destroy
  <2>2. handle[c] \in Node BY <1>1, <1>2, FoundIs
  <2>3. /\ timer' \in [Node -> Struct] /\ \A k \in Node \ {handle[c]} : timer'[k] = timer[k]
        /\ timer'[handle[c]].state = "FALSE" /\ timer'[handle[c]].lstid = "UNUSE"
    BY <2>1, <2>2, SetStruct, UnusedIs, Apart
  <2> QED BY <1>1, <1>2, <2>1, <2>3, WithdrawInv
<1>3. CASE ~Found(handle[c])
  <2>1. lst' = lst /\ timer' = timer /\ alarms' = alarms BY <1>3 DEF os_time_destroy
  <2> QED BY <1>1, <2>1, ForgetInv
<1> QED BY <1>2, <1>3

\* The id of a timer that has been created is read, whatever the timer has become.
LEMMA CreateReturnsInv ==
    ASSUME IInv, NEW c \in Client, create_returns(c)
    PROVE  IInv'
<1>1. /\ ret[c] # NULL /\ handle' = [handle EXCEPT ![c] = timer[ret[c]].t_id]
      /\ ret' = [ret EXCEPT ![c] = NULL]
      /\ lst' = lst /\ timer' = timer /\ alloc' = alloc /\ alarms' = alarms /\ got' = got
      /\ sem' = sem /\ pc' = pc /\ walk' = walk /\ cur' = cur
  BY DEF create_returns, taskVars
<1>2. timer[ret[c]].t_id \in Node \cup {NULL}
  <2>1. ret[c] \in Node BY <1>1, Apart
  <2>2. timer[ret[c]] \in Struct BY <2>1, Apart
  <2> QED BY <2>2 DEF Struct
<1>3. handle' \in [Client -> Node \cup {NULL}] /\ ret' \in [Client -> Node \cup {NULL}]
  BY <1>1, <1>2, Apart
<1>4. TypeOK' BY <1>1, <1>3 DEF IInv, TypeOK
<1>5. PlaceInv' /\ FieldInv' /\ WalkInv'
  BY <1>1 DEF IInv, PlaceInv, FieldInv, WalkInv, Listed, Waiting
<1> QED BY <1>4, <1>5 DEF IInv

\* A timer that has been created waits.
LEMMA CreateInv ==
    ASSUME IInv, NEW c \in Client, os_time_create_entry(c)
    PROVE  IInv'
<1>1. PICK n : n = got[c] OBVIOUS
<1>2. /\ ~Locked /\ n # NULL /\ Activate(lst, n, timer[n].msec)
      /\ ret' = [ret EXCEPT ![c] = IF c \in Anonymous THEN NULL ELSE n]
      /\ got' = [got EXCEPT ![c] = NULL]
      /\ alloc' = alloc /\ handle' = handle /\ sem' = sem /\ pc' = pc /\ walk' = walk /\ cur' = cur
  BY <1>1 DEF os_time_create_entry, taskVars
<1>3. /\ n \in Node /\ n \in alloc /\ n # cur /\ n \notin Listed
      /\ timer[n].msec \in Delay /\ timer[n].pVoid = c
      /\ \A d \in Client : got[d] = n => d = c
  BY <1>1, <1>2, Apart DEF IInv, PlaceInv, FieldInv
<1>4. /\ \A K \in List : n \notin On(lst, K)
      /\ \A k \in On(lst, "time") : timer[k].msec \in Delay
  BY <1>3, Names DEF Listed, IInv, FieldInv, Waiting
<1>5. /\ Sound(lst')
      /\ On(lst', "time") = On(lst, "time") \cup {n} /\ On(lst', "unuse") = On(lst, "unuse")
      /\ On(lst', "tmp") = On(lst, "tmp") /\ Chain(lst', "tmp") = Chain(lst, "tmp")
      /\ timer' \in [Node -> Struct] /\ \A k \in Node \ {n} : timer'[k] = timer[k]
      /\ timer'[n].state = "TRUE" /\ timer'[n].lstid = "READY"
      /\ timer'[n].msec = timer[n].msec /\ timer'[n].pVoid = timer[n].pVoid
      /\ alarms' \subseteq Delay
  BY <1>2, <1>3, <1>4, Apart, ActivateIs
<1>6. /\ \A d \in Client : got'[d] = IF d = c THEN NULL ELSE got[d]
      /\ ret' \in [Client -> Node \cup {NULL}]
  BY <1>2, <1>3, Apart
<1>7. TypeOK' BY <1>2, <1>3, <1>5, <1>6 DEF IInv, TypeOK, Sound
<1>8. PlaceInv'
  <2>1. Listed' = Listed \cup {n} BY <1>5 DEF Listed
  <2>2. PlaceInv BY DEF IInv
  <2> QED BY <1>1, <1>2, <1>3, <1>5, <1>6, <2>1, <2>2, Names DEF PlaceInv
<1>9. FieldInv'
  BY <1>2, <1>3, <1>5, <1>6, Apart, Names DEF IInv, PlaceInv, FieldInv, Listed, Waiting
<1>10. WalkInv'
  BY <1>2, <1>5 DEF IInv, WalkInv, Locked
<1> QED BY <1>7, <1>8, <1>9, <1>10 DEF IInv

\* What a client restarts is unlinked before it is linked in again.
LEMMA RestartTakes ==
    ASSUME IInv, NEW c \in Client, handle[c] # NULL, Found(handle[c])
    PROVE  LET n == handle[c]
               m == IF timer[n].lstid = "READY" THEN lstDelete(lst, "time", n) ELSE lst
           IN  /\ Sound(m) /\ \A K \in List : n \notin On(m, K)
               /\ On(m, "time") = On(lst, "time") \ {n} /\ On(m, "unuse") = On(lst, "unuse")
               /\ On(m, "tmp") = On(lst, "tmp") /\ Chain(m, "tmp") = Chain(lst, "tmp")
               /\ \E k \in 1..Len(Chain(lst, "time")) :
                     Chain(lst, "time")[k] = n /\ Chain(m, "time") = Removed(Chain(lst, "time"), k)
<1>1. PICK n : n = handle[c] OBVIOUS
<1>2. n \in On(lst, "time") /\ timer[n].lstid = "READY" BY <1>1, FoundIs
<1>3. PICK m : m = lstDelete(lst, "time", n) OBVIOUS
<1>4. PICK k \in 1..Len(Chain(lst, "time")) :
         Chain(lst, "time")[k] = n /\ Takes(m, lst, "time", k)
  BY <1>2, <1>3, Apart, SoundDelete, Names
<1>5. /\ Sound(m) /\ On(m, "time") = On(lst, "time") \ {n} /\ On(m, "unuse") = On(lst, "unuse")
      /\ On(m, "tmp") = On(lst, "tmp") /\ Chain(m, "tmp") = Chain(lst, "tmp")
      /\ Chain(m, "time") = Removed(Chain(lst, "time"), k)
  BY <1>4, Names DEF Takes
<1>6. \A K \in List : n \notin On(m, K) BY <1>2, <1>5, Apart, Names
<1> QED BY <1>1, <1>2, <1>3, <1>4, <1>5, <1>6

\* os_time_restart.
LEMMA RestartInv ==
    ASSUME IInv, NEW c \in Client, NEW msec \in Delay, os_time_restart(c, msec)
    PROVE  IInv'
<1>1. PICK n : n = handle[c] OBVIOUS
<1>2. PICK m : m = IF timer[n].lstid = "READY" THEN lstDelete(lst, "time", n) ELSE lst OBVIOUS
<1>3. /\ ~Locked /\ n # NULL /\ Found(n) /\ Activate(m, n, msec)
      /\ handle' = handle /\ got' = got /\ ret' = ret /\ alloc' = alloc
      /\ sem' = sem /\ pc' = pc /\ walk' = walk /\ cur' = cur
  BY <1>1, <1>2 DEF os_time_restart, clientVars, taskVars
<1>4. n \in Node /\ n \in On(lst, "time") /\ n # cur BY <1>1, <1>3, FoundIs
<1>5. /\ Sound(m) /\ \A K \in List : n \notin On(m, K)
      /\ On(m, "time") = On(lst, "time") \ {n} /\ On(m, "unuse") = On(lst, "unuse")
      /\ On(m, "tmp") = On(lst, "tmp") /\ Chain(m, "tmp") = Chain(lst, "tmp")
  BY <1>1, <1>2, <1>3, RestartTakes
<1>6. \A k \in On(m, "time") : timer[k].msec \in Delay
  BY <1>5, Apart DEF IInv, FieldInv, Waiting
<1>7. /\ Sound(lst')
      /\ On(lst', "time") = On(m, "time") \cup {n} /\ On(lst', "unuse") = On(m, "unuse")
      /\ On(lst', "tmp") = On(m, "tmp") /\ Chain(lst', "tmp") = Chain(m, "tmp")
      /\ timer' \in [Node -> Struct] /\ \A k \in Node \ {n} : timer'[k] = timer[k]
      /\ timer'[n].state = "TRUE" /\ timer'[n].lstid = "READY"
      /\ timer'[n].msec = msec /\ timer'[n].pVoid = timer[n].pVoid
      /\ alarms' \subseteq Delay
  BY <1>3, <1>4, <1>5, <1>6, Apart, ActivateIs
<1>8. /\ On(lst', "time") = On(lst, "time") /\ On(lst', "unuse") = On(lst, "unuse")
      /\ On(lst', "tmp") = On(lst, "tmp")
  BY <1>4, <1>5, <1>7
<1>9. TypeOK' BY <1>3, <1>7 DEF IInv, TypeOK, Sound
<1>10. PlaceInv'
  <2>1. Listed' = Listed BY <1>8 DEF Listed
  <2>2. PlaceInv BY DEF IInv
  <2> QED BY <1>3, <1>7, <2>1, <2>2 DEF PlaceInv
<1>11. FieldInv'
  BY <1>3, <1>4, <1>7, <1>8, Apart DEF IInv, PlaceInv, FieldInv, Listed, Waiting
<1>12. WalkInv' BY <1>3, <1>5, <1>7, <1>8 DEF IInv, WalkInv, Locked
<1> QED BY <1>9, <1>10, <1>11, <1>12 DEF IInv
-----------------------------------------------------------------------------
\* The steps of timeTask that change no list.
LEMMA WaitInv ==
    ASSUME IInv, TakeSem \/ Interrupted \/ Collect \/ CollectEnd \/ EndLoop
    PROVE  IInv'
<1>1. /\ lst' = lst /\ timer' = timer /\ alloc' = alloc /\ cur' = cur
      /\ handle' = handle /\ got' = got /\ ret' = ret /\ sem' \in BOOLEAN
  BY DEF IInv, TypeOK, TakeSem, Interrupted, Collect, CollectEnd, EndLoop, clientVars
<1>2. alarms' \subseteq Delay
  <2>1. CASE EndLoop
    <3>1. \A k \in On(lst, "time") : timer[k].msec \in Delay BY DEF IInv, FieldInv, Waiting
    <3> QED BY <2>1, <3>1, Apart, SetAlarmIs DEF EndLoop
  <2>2. CASE ~EndLoop
    BY <2>2, Apart DEF TakeSem, Interrupted, Collect, CollectEnd
  <2> QED BY <2>1, <2>2
<1>3. WalkInv' /\ walk' \in Node \cup {NULL} /\ pc' \in {"wait", "woken", "collect", "run"}
      /\ pc \in {"wait", "woken", "collect", "run"}
  <2>1. /\ Chain(lst', "tmp") = Chain(lst, "tmp") /\ On(lst', "tmp") = On(lst, "tmp")
        /\ On(lst', "time") = On(lst, "time")
    BY <1>1
  <2>2. CASE TakeSem \/ Interrupted
    BY <2>1, <2>2 DEF TakeSem, Interrupted, IInv, TypeOK, WalkInv
  <2>3. CASE Collect
    <3>1. lst.HEAD["time"] \in On(lst, "time") \cup {NULL} BY Apart, HeadIs, Names
    <3> QED BY <2>1, <2>3, <3>1, Apart DEF Collect, WalkInv
  <2>4. CASE CollectEnd
    <3>1. lst.HEAD["tmp"] = Nth(Chain(lst, "tmp"), 1) /\ lst.HEAD["tmp"] \in On(lst, "tmp") \cup {NULL}
      BY Apart, HeadIs, Names
    <3> QED BY <2>1, <2>4, <3>1, Apart DEF CollectEnd, WalkInv
  <2>5. CASE EndLoop
    <3>1. lst.HEAD["tmp"] = Nth(Chain(lst, "tmp"), 1) /\ (lst.HEAD["tmp"] = NULL <=> On(lst, "tmp") = {})
      BY Apart, HeadIs, Names
    <3>2. On(lst, "tmp") = {} BY <2>5, <3>1 DEF EndLoop, IInv, WalkInv
    <3> QED BY <2>1, <2>5, <3>2 DEF EndLoop, IInv, TypeOK, WalkInv
  <2> QED BY <2>2, <2>3, <2>4, <2>5
<1>4. TypeOK' BY <1>1, <1>2, <1>3 DEF IInv, TypeOK
<1>5. PlaceInv' BY <1>1, <1>3 DEF IInv, PlaceInv, Listed
<1>6. FieldInv' BY <1>1, <1>3 DEF IInv, FieldInv, Waiting
<1> QED BY <1>3, <1>4, <1>5, <1>6 DEF IInv

\* What a step of the first loop does to the lists.
LEMMA CollectNextIs ==
    ASSUME IInv, CollectNext
    PROVE  /\ Sound(lst') /\ walk \in On(lst, "time")
           /\ \E k \in 1..Len(Chain(lst, "time")) :
                 /\ walk = Chain(lst, "time")[k] /\ walk' = Nth(Chain(lst, "time"), k + 1)
                 /\ walk' # walk
                 /\ IsDue(walk) =>
                       /\ Chain(lst', "time") = Removed(Chain(lst, "time"), k)
                       /\ On(lst', "time") = On(lst, "time") \ {walk}
                       /\ On(lst', "tmp") = On(lst, "tmp") \cup {walk}
           /\ walk' \in On(lst, "time") \cup {NULL}
           /\ On(lst', "unuse") = On(lst, "unuse")
           /\ ~IsDue(walk) => lst' = lst
<1> DEFINE c == Chain(lst, "time")
           w == lstAdd(lstDelete(lst, "time", walk), "tmp", walk)
<1>1. /\ pc = "collect" /\ walk # NULL /\ walk' = lst.next[walk]
      /\ lst' = IF IsDue(walk) THEN w ELSE lst
  BY DEF CollectNext
<1>2. walk \in On(lst, "time") BY <1>1 DEF IInv, WalkInv
<1>3. /\ Sound(lst) /\ On(lst, "time") = NodesOf(c) /\ Len(c) \in Nat
      /\ \A i, j \in 1..Len(c) : c[i] = c[j] => i = j
      /\ \A i \in 1..Len(c) : c[i] # NULL
  BY Apart, SoundChain, ChainBound, Names
<1>4. PICK k \in 1..Len(c) : walk = c[k] BY <1>2, <1>3 DEF NodesOf
<1>5. walk' = Nth(c, k + 1) /\ walk' \in On(lst, "time") \cup {NULL}
  BY <1>1, <1>3, <1>4, NextIs, Names
<1>6. walk' # walk BY <1>3, <1>4, <1>5 DEF Nth
<1>7. CASE IsDue(walk)
  <2>1. PICK j \in 1..Len(Chain(lst, "time")) :
              /\ Sound(w)
              /\ Chain(lst, "time")[j] = walk
              /\ Chain(w, "time") = Removed(Chain(lst, "time"), j)
              /\ On(w, "time") = On(lst, "time") \ {walk}
              /\ On(w, "tmp") = On(lst, "tmp") \cup {walk}
              /\ \A J \in List \ {"time", "tmp"} : Chain(w, J) = Chain(lst, J) /\ On(w, J) = On(lst, J)
    BY <1>2, <1>3, SoundMove, Names
  <2>2. j = k BY <1>3, <1>4, <2>1
  <2>3. On(w, "unuse") = On(lst, "unuse") BY <2>1, Names
  <2> HIDE DEF w, c
  <2> QED BY <1>1, <1>2, <1>4, <1>5, <1>6, <1>7, <2>1, <2>2, <2>3 DEF c
<1>8. CASE ~IsDue(walk)
  BY <1>1, <1>2, <1>3, <1>4, <1>5, <1>6, <1>8
<1> QED BY <1>7, <1>8

\* A timer that is due changes from one list to the other, and still waits.
LEMMA CollectNextInv ==
    ASSUME IInv, CollectNext
    PROVE  IInv'
<1>1. /\ timer' = timer /\ alarms' = alarms /\ sem' = sem /\ pc' = pc /\ cur' = cur
      /\ alloc' = alloc /\ handle' = handle /\ got' = got /\ ret' = ret /\ pc = "collect"
  BY DEF CollectNext, clientVars
<1>2. /\ Sound(lst') /\ walk \in On(lst, "time") /\ walk' # walk
      /\ walk' \in On(lst, "time") \cup {NULL}
      /\ On(lst', "unuse") = On(lst, "unuse")
      /\ IsDue(walk) => /\ On(lst', "time") = On(lst, "time") \ {walk}
                        /\ On(lst', "tmp") = On(lst, "tmp") \cup {walk}
      /\ ~IsDue(walk) => lst' = lst
  BY CollectNextIs
<1>3. /\ Waiting' = Waiting /\ Listed' = Listed
      /\ walk' \in On(lst', "time") \cup {NULL}
      /\ \A n \in On(lst', "tmp") : n \in On(lst, "tmp") \/ (n = walk /\ IsDue(walk))
  <2>1. CASE IsDue(walk) BY <1>2, <2>1 DEF Waiting, Listed
  <2>2. CASE ~IsDue(walk) BY <1>2, <2>2 DEF Waiting, Listed
  <2> QED BY <2>1, <2>2
<1>4. TypeOK'
  BY <1>1, <1>2, Apart DEF IInv, TypeOK, Sound
<1>5. PlaceInv' BY <1>1, <1>2, <1>3 DEF IInv, PlaceInv
<1>6. FieldInv' BY <1>1, <1>2, <1>3 DEF IInv, FieldInv, IsDue
<1>7. WalkInv' BY <1>1, <1>3 DEF WalkInv
<1> QED BY <1>4, <1>5, <1>6, <1>7 DEF IInv

\* The second loop takes the first timer of tmplist.
LEMMA RunTimerIs ==
    ASSUME IInv, RunTimer
    PROVE  /\ Sound(lst') /\ walk \in On(lst, "tmp") /\ walk \in Node
           /\ On(lst', "tmp") = On(lst, "tmp") \ {walk}
           /\ On(lst', "time") = On(lst, "time") /\ On(lst', "unuse") = On(lst, "unuse")
           /\ Chain(lst', "time") = Chain(lst, "time")
           /\ walk' = Nth(Chain(lst', "tmp"), 1) /\ walk' \in Node \cup {NULL}
<1> DEFINE c == Chain(lst, "tmp")
           d == lstDelete(lst, "tmp", walk)
<1>1. /\ pc = "run" /\ walk # NULL /\ lst' = d /\ walk' = lst.next[walk] BY DEF RunTimer
<1>2. walk = Nth(c, 1) BY <1>1 DEF IInv, WalkInv
<1>3. /\ Sound(lst) /\ c \in Seq(Node) /\ Len(c) \in Nat
      /\ \A i \in 1..Len(c) : c[i] \in On(lst, "tmp")
      /\ \A i, j \in 1..Len(c) : c[i] = c[j] => i = j
      /\ On(lst, "tmp") \subseteq Node
  BY Apart, SoundChain, Names
<1>4. 1 \in 1..Len(c) /\ walk = c[1] /\ walk \in On(lst, "tmp")
  <2> HIDE DEF c
  <2> QED BY <1>1, <1>2, <1>3 DEF Nth
<1>5. PICK k \in 1..Len(Chain(lst, "tmp")) : Chain(lst, "tmp")[k] = walk /\ Takes(d, lst, "tmp", k)
  BY <1>3, <1>4, SoundDelete, Names
<1>6. k = 1 BY <1>3, <1>4, <1>5
<1>7. walk' = Nth(c, 2) /\ walk' \in On(lst, "tmp") \cup {NULL}
  BY <1>1, <1>3, <1>4, NextIs, Names
<1> HIDE DEF d
<1>8. /\ Sound(d) /\ Chain(d, "tmp") = Removed(c, 1) /\ On(d, "tmp") = On(lst, "tmp") \ {walk}
      /\ On(d, "time") = On(lst, "time") /\ On(d, "unuse") = On(lst, "unuse")
      /\ Chain(d, "time") = Chain(lst, "time")
  BY <1>5, <1>6, Names DEF Takes
<1>9. Nth(Removed(c, 1), 1) = Nth(c, 2)
  <2> HIDE DEF c
  <2> QED BY <1>3, <1>4, NthRemoved
<1> QED BY <1>1, <1>3, <1>4, <1>7, <1>8, <1>9

\* The timer that is taken is the one whose callback runs, and in no list.
LEMMA RunTimerInv ==
    ASSUME IInv, RunTimer
    PROVE  IInv'
<1>1. PICK n : n = walk OBVIOUS
<1>2. /\ pc = "run" /\ timer' = [timer EXCEPT ![n] = Called(timer[n])] /\ cur' = n /\ pc' = "call"
      /\ alarms' = alarms /\ sem' = sem /\ alloc' = alloc
      /\ handle' = handle /\ got' = got /\ ret' = ret
  BY <1>1 DEF RunTimer, clientVars
<1>3. /\ Sound(lst') /\ n \in On(lst, "tmp") /\ n \in Node /\ n # NULL
      /\ On(lst', "tmp") = On(lst, "tmp") \ {n}
      /\ On(lst', "time") = On(lst, "time") /\ On(lst', "unuse") = On(lst, "unuse")
      /\ walk' = Nth(Chain(lst', "tmp"), 1) /\ walk' \in Node \cup {NULL}
  BY <1>1, RunTimerIs, Names
<1>4. /\ timer' \in [Node -> Struct] /\ \A k \in Node \ {n} : timer'[k] = timer[k]
      /\ timer'[n].pVoid = timer[n].pVoid /\ timer'[n].msec = timer[n].msec
      /\ timer'[n].lstid = timer[n].lstid /\ timer'[n].type = timer[n].type
      /\ timer[n].type = "DEFAULT" => timer'[n].state = timer[n].state
  <2>1. timer[n] \in Struct BY <1>3, Apart
  <2>2. /\ Called(timer[n]) \in Struct
        /\ Called(timer[n]).pVoid = timer[n].pVoid /\ Called(timer[n]).msec = timer[n].msec
        /\ Called(timer[n]).lstid = timer[n].lstid /\ Called(timer[n]).type = timer[n].type
        /\ timer[n].type = "DEFAULT" => Called(timer[n]).state = timer[n].state
    <3>1. CASE timer[n].type = "ONCE" BY <2>1, <3>1, CalledOnce
    <3>2. CASE timer[n].type # "ONCE" BY <2>1, <3>2, CalledAgain
    <3> QED BY <3>1, <3>2
  <2> QED BY <1>2, <1>3, <2>2, Apart, SetStruct
<1>5. Waiting = Waiting' \cup {n} /\ Listed = Listed' \cup {n} /\ n \notin Listed' /\ n \notin Waiting'
  BY <1>3, Apart DEF Waiting, Listed
<1>6. TypeOK' BY <1>2, <1>3, <1>4 DEF IInv, TypeOK, Sound
<1>7. PlaceInv'
  <2>1. PlaceInv /\ n \in Listed BY <1>3 DEF IInv, Listed
  <2>2. cur = NULL BY <1>2, <2>1 DEF PlaceInv
  <2>3. NULL \notin alloc BY Apart, Names
  <2> QED BY <1>2, <1>3, <1>5, <2>1, <2>2, <2>3 DEF PlaceInv
<1>8. FieldInv'
  <2>1. FieldInv /\ n \in Waiting BY <1>3 DEF IInv, Waiting
  <2>2. \A d \in Client : got[d] # n BY <1>3 DEF IInv, PlaceInv, Listed
  <2>3. /\ timer[n].state = "TRUE" /\ timer[n].lstid = "READY"
        /\ timer[n].msec \in Delay /\ timer[n].pVoid \in Client
    BY <2>1 DEF FieldInv
  <2>4. \A k \in Waiting' \cup On(lst', "unuse") : k \in Node \ {n}
    BY <1>3, <1>5, Apart DEF Waiting
  <2>5. \A d \in Client : got[d] # NULL => timer'[got[d]] = timer[got[d]]
    BY <1>4, <2>2, Apart
  <2>6. \A k \in Waiting' : timer'[k] = timer[k] /\ k \in Waiting BY <1>4, <1>5, <2>4
  <2>7. \A k \in On(lst', "unuse") : timer'[k] = timer[k] /\ k \in On(lst, "unuse")
    BY <1>3, <1>4, <2>4
  <2>8. On(lst', "tmp") \subseteq Waiting' /\ On(lst', "tmp") \subseteq On(lst, "tmp")
    BY <1>3 DEF Waiting
  <2> QED BY <1>2, <1>4, <2>1, <2>3, <2>5, <2>6, <2>7, <2>8 DEF FieldInv
<1>9. WalkInv' BY <1>2, <1>3 DEF WalkInv
<1> QED BY <1>6, <1>7, <1>8, <1>9 DEF IInv

\* In its callback the client may forget the id it has.
LEMMA CallbackInv ==
    ASSUME IInv, Callback
    PROVE  IInv'
<1>1. /\ pc = "call" /\ pc' = "called" /\ timer' = timer /\ lst' = lst /\ alloc' = alloc
      /\ alarms' = alarms /\ sem' = sem /\ walk' = walk /\ cur' = cur /\ got' = got /\ ret' = ret
      /\ handle' = handle \/ handle' = [handle EXCEPT ![timer[cur].pVoid] = NULL]
  BY DEF Callback
<1>2. handle' \in [Client -> Node \cup {NULL}] BY <1>1, Apart
<1>3. TypeOK' BY <1>1, <1>2, Apart DEF IInv, TypeOK
<1>4. PlaceInv' /\ FieldInv' /\ WalkInv'
  BY <1>1 DEF IInv, PlaceInv, FieldInv, WalkInv, Listed, Waiting
<1> QED BY <1>3, <1>4 DEF IInv

\* What a callback that has returned does to the lists and the struct.
LEMMA ReturnIs ==
    ASSUME IInv, CallbackReturns
    PROVE  /\ cur \in Node /\ Sound(lst') /\ timer' \in [Node -> Struct]
           /\ \A k \in Node \ {cur} : timer'[k] = timer[k]
           /\ On(lst', "tmp") = On(lst, "tmp") /\ Chain(lst', "tmp") = Chain(lst, "tmp")
           /\ timer[cur].type = "ONCE" =>
                 /\ On(lst', "time") = On(lst, "time") /\ Chain(lst', "time") = Chain(lst, "time")
                 /\ On(lst', "unuse") = On(lst, "unuse") \cup {cur}
                 /\ timer'[cur].state = "FALSE" /\ timer'[cur].lstid = "UNUSE"
           /\ timer[cur].type = "DEFAULT" =>
                 /\ On(lst', "time") = On(lst, "time") \cup {cur}
                 /\ On(lst', "unuse") = On(lst, "unuse")
                 /\ timer'[cur].due = timer[cur].msec /\ timer'[cur].msec = timer[cur].msec
                 /\ timer'[cur].state = "TRUE" /\ timer'[cur].lstid = "READY"
                 /\ timer'[cur].pVoid = timer[cur].pVoid /\ timer'[cur].type = "DEFAULT"
                 /\ \E k \in 1..(Len(Chain(lst, "time")) + 1) :
                       /\ Chain(lst', "time") = Inserted(Chain(lst, "time"), k, cur)
                       /\ InOrder(Chain(lst, "time"), Due(timer'))
                             => Between(Chain(lst, "time"), Due(timer'), k, cur)
<1>1. PICK n : n = cur OBVIOUS
<1>2. /\ n \in Node /\ timer[n] \in Struct /\ timer[n].msec \in Delay
      /\ timer[n].type = "DEFAULT" => timer[n].state = "TRUE" /\ timer[n].lstid = "READY"
  BY <1>1, Apart DEF IInv, PlaceInv, FieldInv, CallbackReturns
<1>3. \A K \in List : n \notin On(lst, K) BY <1>1, Names DEF IInv, PlaceInv, Listed
<1>4. Sound(lst) /\ "time" \in List /\ "unuse" \in List /\ "tmp" \in List BY Apart, Names
<1>5. CASE timer[n].type = "ONCE"
  <2>1. lst' = lstAdd(lst, "unuse", n) /\ timer' = [timer EXCEPT ![n] = Unused]
    BY <1>1, <1>5 DEF CallbackReturns
  <2>2. Puts(lst', lst, "unuse", Len(Chain(lst, "unuse")) + 1, n) BY <1>2, <1>3, <1>4, <2>1, SoundAdd
  <2>3. /\ Sound(lst') /\ On(lst', "unuse") = On(lst, "unuse") \cup {n}
        /\ \A K \in List \ {"unuse"} : Chain(lst', K) = Chain(lst, K) /\ On(lst', K) = On(lst, K)
    BY <2>2 DEF Puts
  <2>4. /\ timer' \in [Node -> Struct] /\ \A k \in Node \ {n} : timer'[k] = timer[k]
        /\ timer'[n].state = "FALSE" /\ timer'[n].lstid = "UNUSE"
    BY <1>2, <2>1, SetStruct, UnusedIs, Apart
  <2> QED BY <1>1, <1>2, <1>4, <1>5, <2>3, <2>4
<1>6. CASE timer[n].type # "ONCE"
  <2>1. timer' = [timer EXCEPT ![n].due = timer[n].msec] /\ lst' = lstAddSort(lst, "time", n, Due(timer'))
    BY <1>1, <1>6 DEF CallbackReturns
  <2>2. PICK r : r = [timer[n] EXCEPT !.due = timer[n].msec] OBVIOUS
  <2>3. timer[n].msec \in -1..MaxDelay BY <1>2, Names DEF Delay
  <2>4. /\ r \in Struct /\ r.due = timer[n].msec /\ r.msec = timer[n].msec /\ r.state = timer[n].state
        /\ r.lstid = timer[n].lstid /\ r.pVoid = timer[n].pVoid /\ r.type = timer[n].type
    BY <1>2, <2>2, <2>3, SetDue
  <2>5. timer' = [timer EXCEPT ![n] = r] BY <2>1, <2>2
  <2>6. /\ timer' \in [Node -> Struct] /\ \A k \in Node \ {n} : timer'[k] = timer[k]
        /\ timer'[n] = r
    BY <1>2, <2>4, <2>5, SetStruct, Apart
  <2>7. Due(timer') \in [Node -> Int] BY <2>6, DueIs
  <2>8. PICK k \in 1..(Len(Chain(lst, "time")) + 1) :
           /\ Puts(lst', lst, "time", k, n)
           /\ InOrder(Chain(lst, "time"), Due(timer')) => Between(Chain(lst, "time"), Due(timer'), k, n)
    BY <1>2, <1>3, <1>4, <2>1, <2>7, SoundAddSort
  <2>9. /\ Sound(lst') /\ On(lst', "time") = On(lst, "time") \cup {n}
        /\ Chain(lst', "time") = Inserted(Chain(lst, "time"), k, n)
        /\ \A K \in List \ {"time"} : Chain(lst', K) = Chain(lst, K) /\ On(lst', K) = On(lst, K)
    BY <2>8 DEF Puts
  <2>10. /\ On(lst', "unuse") = On(lst, "unuse") /\ On(lst', "tmp") = On(lst, "tmp")
         /\ Chain(lst', "tmp") = Chain(lst, "tmp")
    BY <1>4, <2>9
  <2> QED BY <1>1, <1>2, <1>6, <2>4, <2>6, <2>8, <2>9, <2>10
<1> QED BY <1>5, <1>6

\* The callback has returned: a one-shot timer is unused, a periodic one waits.
LEMMA CallbackReturnsInv ==
    ASSUME IInv, CallbackReturns
    PROVE  IInv'
<1>1. PICK n : n = cur OBVIOUS
<1>2. /\ pc = "called" /\ pc' = "run" /\ cur' = NULL /\ walk' = walk
      /\ alarms' = alarms /\ sem' = sem /\ alloc' = alloc
      /\ handle' = handle /\ got' = got /\ ret' = ret
  BY DEF CallbackReturns, clientVars
<1>3. /\ n \in Node /\ n \in alloc /\ n \notin Listed /\ n # NULL /\ timer[n] \in Struct
      /\ timer[n].msec \in Delay /\ timer[n].pVoid \in Client
      /\ \A d \in Client : got[d] # n
  BY <1>1, <1>2, Apart DEF IInv, PlaceInv, FieldInv
<1>4. /\ Sound(lst') /\ timer' \in [Node -> Struct]
      /\ \A k \in Node \ {n} : timer'[k] = timer[k]
      /\ On(lst', "tmp") = On(lst, "tmp") /\ Chain(lst', "tmp") = Chain(lst, "tmp")
  BY <1>1, ReturnIs
<1>5. \/ /\ timer[n].type = "ONCE" /\ On(lst', "time") = On(lst, "time")
         /\ On(lst', "unuse") = On(lst, "unuse") \cup {n}
         /\ timer'[n].state = "FALSE" /\ timer'[n].lstid = "UNUSE"
      \/ /\ timer[n].type = "DEFAULT" /\ On(lst', "time") = On(lst, "time") \cup {n}
         /\ On(lst', "unuse") = On(lst, "unuse")
         /\ timer'[n].msec = timer[n].msec /\ timer'[n].pVoid = timer[n].pVoid
         /\ timer'[n].state = "TRUE" /\ timer'[n].lstid = "READY"
  <2>1. timer[n].type \in {"DEFAULT", "ONCE"} BY <1>3 DEF Struct
  <2> QED BY <1>1, <2>1, ReturnIs
<1>6. TypeOK' BY <1>2, <1>4 DEF IInv, TypeOK, Sound
<1>7. PlaceInv'
  <2>1. Listed' = Listed \cup {n} BY <1>4, <1>5 DEF Listed
  <2>2. PlaceInv BY DEF IInv
  <2>3. NULL \notin Listed' BY <1>3, <2>1, <2>2, Apart, Names DEF PlaceInv
  <2> QED BY <1>1, <1>2, <1>3, <1>4, <2>1, <2>2, <2>3 DEF PlaceInv
<1>8. FieldInv'
  <2>1. FieldInv BY DEF IInv
  <2>2. \A k \in Listed : k \in Node \ {n} BY <1>3, Apart DEF Listed
  <2>3. \A d \in Client : got[d] # NULL => timer'[got[d]] = timer[got[d]] BY <1>3, <1>4, Apart
  <2>4. \A k \in Listed : timer'[k] = timer[k] BY <1>4, <2>2
  <2>5. Waiting \subseteq Listed /\ On(lst, "unuse") \subseteq Listed /\ On(lst, "tmp") \subseteq Listed
    BY DEF Waiting, Listed
  <2>6. \A k \in Waiting' : /\ timer'[k].state = "TRUE" /\ timer'[k].lstid = "READY"
                            /\ timer'[k].msec \in Delay /\ timer'[k].pVoid \in Client
    <3>1. \A k \in Waiting' : k \in Waiting \/ (k = n /\ timer[n].type = "DEFAULT")
      BY <1>4, <1>5 DEF Waiting
    <3> QED BY <1>3, <1>5, <2>1, <2>4, <2>5, <3>1 DEF FieldInv
  <2>7. \A k \in On(lst', "unuse") : timer'[k].state = "FALSE" /\ timer'[k].lstid = "UNUSE"
    <3>1. \A k \in On(lst', "unuse") : k \in On(lst, "unuse") \/ (k = n /\ timer[n].type = "ONCE")
      BY <1>5
    <3> QED BY <1>5, <2>1, <2>4, <2>5, <3>1 DEF FieldInv
  <2>8. \A k \in On(lst', "tmp") : timer'[k].due <= 0 BY <1>4, <2>1, <2>4, <2>5 DEF FieldInv
  <2> QED BY <1>2, <2>1, <2>3, <2>6, <2>7, <2>8 DEF FieldInv
<1>9. WalkInv' BY <1>2, <1>4 DEF IInv, WalkInv
<1> QED BY <1>6, <1>7, <1>8, <1>9 DEF IInv

\* The clock moves only what a timer has still to wait.
LEMMA TickIs ==
    ASSUME IInv, Tick
    PROVE  /\ timer' \in [Node -> Struct]
           /\ \A n \in Node :
                 /\ timer'[n].t_id = timer[n].t_id /\ timer'[n].state = timer[n].state
                 /\ timer'[n].lstid = timer[n].lstid /\ timer'[n].type = timer[n].type
                 /\ timer'[n].msec = timer[n].msec /\ timer'[n].pVoid = timer[n].pVoid
                 /\ timer'[n].due = IF n \in Waiting /\ timer[n].due > -1
                                    THEN timer[n].due - 1 ELSE timer[n].due
<1>1. timer' = [n \in Node |-> IF n \in Waiting /\ timer[n].due > -1
                               THEN [timer[n] EXCEPT !.due = timer[n].due - 1] ELSE timer[n]]
  BY DEF Tick, Waiting
<1>2. ASSUME NEW n \in Node
      PROVE  /\ timer'[n] \in Struct
             /\ timer'[n].t_id = timer[n].t_id /\ timer'[n].state = timer[n].state
             /\ timer'[n].lstid = timer[n].lstid /\ timer'[n].type = timer[n].type
             /\ timer'[n].msec = timer[n].msec /\ timer'[n].pVoid = timer[n].pVoid
             /\ timer'[n].due = IF n \in Waiting /\ timer[n].due > -1
                                THEN timer[n].due - 1 ELSE timer[n].due
  <2>1. timer[n] \in Struct /\ timer[n].due \in -1..MaxDelay BY Apart, DueIs
  <2>2. CASE n \in Waiting /\ timer[n].due > -1
    <3>1. timer'[n] = [timer[n] EXCEPT !.due = timer[n].due - 1] BY <1>1, <2>2
    <3>2. timer[n].due - 1 \in -1..MaxDelay BY <2>1, <2>2, Names
    <3> QED BY <2>1, <2>2, <3>1, <3>2, SetDue
  <2>3. CASE ~(n \in Waiting /\ timer[n].due > -1) BY <1>1, <2>1, <2>3
  <2> QED BY <2>2, <2>3
<1>3. timer' \in [Node -> Struct]
  <2> DEFINE f(n) == IF n \in Waiting /\ timer[n].due > -1
                     THEN [timer[n] EXCEPT !.due = timer[n].due - 1] ELSE timer[n]
  <2>1. timer' = [n \in Node |-> f(n)] BY <1>1
  <2>2. \A n \in Node : f(n) = timer'[n] BY <2>1
  <2> HIDE DEF f
  <2> QED BY <1>2, <2>1, <2>2
<1> QED BY <1>2, <1>3

\* A timer that is due stays due.
LEMMA TickInv ==
    ASSUME IInv, Tick
    PROVE  IInv'
<1>1. /\ lst' = lst /\ pc' = pc /\ walk' = walk /\ cur' = cur
      /\ alloc' = alloc /\ handle' = handle /\ got' = got /\ ret' = ret
      /\ alarms' = {a - 1 : a \in alarms \ {1}} /\ sem' = (sem \/ 1 \in alarms)
  BY DEF Tick, clientVars
<1>2. /\ timer' \in [Node -> Struct]
      /\ \A n \in Node :
            /\ timer'[n].state = timer[n].state
            /\ timer'[n].lstid = timer[n].lstid /\ timer'[n].type = timer[n].type
            /\ timer'[n].msec = timer[n].msec /\ timer'[n].pVoid = timer[n].pVoid
            /\ timer[n].due <= 0 => timer'[n].due <= 0
  <2>1. \A n \in Node : timer[n].due \in -1..MaxDelay BY Apart, DueIs
  <2> QED BY <2>1, TickIs, Names
<1>3. alarms' \subseteq Delay
  <2>1. \A a \in Delay \ {1} : a - 1 \in Delay BY Names DEF Delay
  <2> QED BY <1>1, <2>1, Apart
<1>4. TypeOK' BY <1>1, <1>2, <1>3 DEF IInv, TypeOK
<1>5. PlaceInv' /\ WalkInv' BY <1>1 DEF IInv, PlaceInv, WalkInv, Listed
<1>6. FieldInv'
  <2>1. FieldInv BY DEF IInv
  <2>2. Waiting' = Waiting /\ Waiting \subseteq Node BY <1>1, Apart DEF Waiting
  <2>3. cur # NULL => cur \in Node BY Apart
  <2>4. \A d \in Client : got[d] # NULL => got[d] \in Node BY Apart
  <2> QED BY <1>1, <1>2, <2>1, <2>2, <2>3, <2>4, Apart DEF FieldInv
<1> QED BY <1>4, <1>5, <1>6 DEF IInv

\* At the start there is no timer.
LEMMA InitInv == Init => IInv
<1> SUFFICES ASSUME Init PROVE IInv
  OBVIOUS
<1>1. /\ lst = EmptyLists /\ timer = [n \in Node |-> Blank] /\ alloc = {} /\ alarms = {}
      /\ sem = FALSE /\ pc = "wait" /\ walk = NULL /\ cur = NULL
      /\ handle = [c \in Client |-> NULL] /\ got = [c \in Client |-> NULL]
      /\ ret = [c \in Client |-> NULL]
  BY DEF Init
<1>2. /\ Sound(lst) /\ On(lst, "time") = {} /\ On(lst, "unuse") = {} /\ On(lst, "tmp") = {}
  BY <1>1, SoundEmpty, Names
<1>3. Blank \in Struct BY Names DEF Blank, Struct
<1>4. TypeOK BY <1>1, <1>2, <1>3 DEF TypeOK, Sound
<1>5. PlaceInv BY <1>1, <1>2, Names DEF PlaceInv, Listed
<1>6. FieldInv /\ WalkInv BY <1>1, <1>2 DEF FieldInv, WalkInv, Waiting
<1> QED BY <1>4, <1>5, <1>6 DEF IInv

\* Every step keeps IInv.
LEMMA NextInv ==
    ASSUME Canceller = {}, IInv, [Next]_vars
    PROVE  IInv'
<1>1. ASSUME NEW c \in Client, NEW msec \in Delay, NEW type \in Types(c),
             os_time_get_node(c, type, msec)
      PROVE  IInv'
  BY <1>1, GetNodeInv
<1>2. ASSUME NEW c \in Client,
             os_time_create_entry(c) \/ create_returns(c) \/ os_time_destroy(c) \/ os_time_cancel(c)
      PROVE  IInv'
  <2>1. ~os_time_cancel(c) BY DEF os_time_cancel
  <2> QED BY <1>2, <2>1, CreateInv, CreateReturnsInv, DestroyInv
<1>3. ASSUME NEW c \in Client, NEW msec \in Delay, os_time_restart(c, msec)
      PROVE  IInv'
  BY <1>3, RestartInv
<1>4. CASE task
  BY <1>4, WaitInv, CollectNextInv, RunTimerInv, CallbackInv, CallbackReturnsInv DEF task
<1>5. CASE Interrupted BY <1>5, WaitInv
<1>6. CASE Tick BY <1>6, TickInv
<1>7. CASE UNCHANGED vars
  BY <1>7 DEF vars, IInv, TypeOK, PlaceInv, FieldInv, WalkInv, Listed, Waiting
<1> QED BY <1>1, <1>2, <1>3, <1>4, <1>5, <1>6, <1>7 DEF Next

\* The invariant the others follow from.
THEOREM SpecInv ==
    ASSUME Canceller = {}
    PROVE  Spec => []IInv
<1>1. Init => IInv BY InitInv
<1>2. IInv /\ [Next]_vars => IInv' BY NextInv
<1> QED BY <1>1, <1>2, PTL DEF Spec
-----------------------------------------------------------------------------
\* The places of a struct.
LEMMA OnePlaceOf ==
    ASSUME IInv, NEW n \in Node
    PROVE  LET on == [L \in List |-> On(lst, L)]
               Places == ({"on"} \X {L \in List : n \in on[L]})
                            \cup ({"got"} \X {c \in Client : got[c] = n})
                            \cup (IF cur = n THEN {<<"cur", n>>} ELSE {})
           IN  Cardinality(Places) = (IF n \in alloc THEN 1 ELSE 0)
<1> DEFINE on == [L \in List |-> On(lst, L)]
           A == {L \in List : n \in on[L]}
           B == {c \in Client : got[c] = n}
           C == IF cur = n THEN {<<"cur", n>>} ELSE {}
           Places == ({"on"} \X A) \cup ({"got"} \X B) \cup C
<1>1. /\ n # NULL /\ Sound(lst) /\ PlaceInv
      /\ \A L \in List : n \in On(lst, L) => n \in Listed
      /\ n \in Listed => \E L \in List : n \in On(lst, L)
  BY Names DEF IInv, PlaceInv, Listed
<1>2. A = {L \in List : n \in On(lst, L)} OBVIOUS
<1>3. CASE n \notin alloc
  <2>1. A = {} BY <1>1, <1>2, <1>3 DEF PlaceInv
  <2>2. B = {} /\ C = {} BY <1>1, <1>3 DEF PlaceInv
  <2>3. Places = {} BY <2>1, <2>2
  <2> HIDE DEF Places
  <2>4. Cardinality(Places) = 0 BY <2>3, FS_EmptySet
  <2> QED BY <1>3, <2>4 DEF Places
<1>4. CASE n \in alloc /\ n \in Listed
  <2>1. PICK L \in List : n \in On(lst, L) BY <1>1, <1>4
  <2>2. A = {L} BY <1>1, <1>2, <2>1 DEF Sound
  <2>3. B = {} /\ C = {} BY <1>1, <1>4 DEF PlaceInv
  <2>4. Places = {<<"on", L>>} BY <2>2, <2>3
  <2> HIDE DEF Places
  <2>5. Cardinality(Places) = 1 BY <2>4, FS_Singleton
  <2> QED BY <1>4, <2>5 DEF Places
<1>5. CASE n \in alloc /\ n = cur
  <2>1. A = {} /\ B = {} BY <1>1, <1>2, <1>5 DEF PlaceInv
  <2>2. C = {<<"cur", n>>} BY <1>5
  <2>3. Places = {<<"cur", n>>} BY <2>1, <2>2
  <2> HIDE DEF Places
  <2>4. Cardinality(Places) = 1 BY <2>3, FS_Singleton
  <2> QED BY <1>5, <2>4 DEF Places
<1>6. CASE n \in alloc /\ \E c \in Client : got[c] = n
  <2>1. PICK c \in Client : got[c] = n BY <1>6
  <2>2. B = {c} /\ n \notin Listed /\ n # cur BY <1>1, <2>1 DEF PlaceInv
  <2>3. A = {} /\ C = {} BY <1>1, <1>2, <2>2
  <2>4. Places = {<<"got", c>>} BY <2>2, <2>3
  <2> HIDE DEF Places
  <2>5. Cardinality(Places) = 1 BY <2>4, FS_Singleton
  <2> QED BY <1>6, <2>5 DEF Places
<1> QED BY <1>1, <1>3, <1>4, <1>5, <1>6 DEF PlaceInv

\* Every value has its type.
THEOREM SpecTypeOK ==
    ASSUME Canceller = {}
    PROVE  Spec => []TypeOK
<1>1. IInv => TypeOK BY DEF IInv
<1> QED BY <1>1, SpecInv, PTL

\* Whatever tasks do in between, and wherever timeTask is, the three lists are
\* lists, and their descriptors tell the truth.
THEOREM SpecListsWellFormed ==
    ASSUME Canceller = {}
    PROVE  Spec => []ListsWellFormed
<1>1. ASSUME IInv PROVE ListsWellFormed
  BY <1>1, Apart, SoundWellFormed DEF ListsWellFormed
<1> QED BY <1>1, SpecInv, PTL

\* Every struct that has been allocated is in exactly one place.
THEOREM SpecOnePlace ==
    ASSUME Canceller = {}
    PROVE  Spec => []OnePlace
<1>1. ASSUME IInv PROVE OnePlace
  <2>1. \A n \in Node :
           /\ n \in On(lst, "time") => timer[n].lstid = "READY" /\ timer[n].state = "TRUE"
           /\ n \in On(lst, "unuse") => timer[n].lstid = "UNUSE" /\ timer[n].state # "TRUE"
    BY <1>1 DEF IInv, FieldInv, Waiting
  <2>2. "time" \in List /\ "unuse" \in List BY Names
  <2> QED BY <1>1, <2>1, <2>2, OnePlaceOf DEF OnePlace
<1> QED BY <1>1, SpecInv, PTL

-----------------------------------------------------------------------------
\* The order is by due alone, of the timers of the list.
LEMMA OrderSame ==
    ASSUME NEW m, Sound(m), NEW t \in [Node -> Struct], NEW u \in [Node -> Struct],
           \A n \in On(m, "time") : u[n].due = t[n].due, InOrder(Chain(m, "time"), Due(t))
    PROVE  InOrder(Chain(m, "time"), Due(u))
<1> DEFINE c == Chain(m, "time")
<1>1. \A i \in 1..Len(c) : c[i] \in On(m, "time") /\ c[i] \in Node BY SoundChain, Names
<1> HIDE DEF c
<1>2. \A i \in 1..Len(c) : Due(u)[c[i]] = Due(t)[c[i]] BY <1>1, DueIs
<1> QED BY <1>2 DEF InOrder, c

\* The first timer of a list in order is the first to be due.
LEMMA HeadFirst ==
    ASSUME NEW m, Sound(m), NEW t \in [Node -> Struct], InOrder(Chain(m, "time"), Due(t)),
           NEW n \in On(m, "time")
    PROVE  /\ m.HEAD["time"] \in On(m, "time") /\ m.HEAD["time"] \in Node
           /\ t[m.HEAD["time"]].due <= t[n].due
<1> DEFINE c == Chain(m, "time")
<1>1. /\ On(m, "time") = NodesOf(c) /\ Len(c) \in Nat /\ On(m, "time") \subseteq Node
      /\ \A i \in 1..Len(c) : c[i] \in Node /\ c[i] \in On(m, "time")
      /\ m.HEAD["time"] = Nth(c, 1)
  BY SoundChain, HeadIs, Names
<1> HIDE DEF c
<1>2. PICK i \in 1..Len(c) : n = c[i] BY <1>1 DEF NodesOf
<1>3. 1 \in 1..Len(c) /\ m.HEAD["time"] = c[1] BY <1>1, <1>2 DEF Nth
<1>4. 1 = i \/ Due(t)[c[1]] <= Due(t)[c[i]] BY <1>1, <1>2, <1>3 DEF InOrder, c
<1>5. t[c[1]].due \in Int /\ Due(t)[c[1]] = t[c[1]].due /\ Due(t)[c[i]] = t[c[i]].due
  BY <1>1, <1>3, DueIs, Names
<1> QED BY <1>1, <1>2, <1>3, <1>4, <1>5

\* A head that is not due yet gets a POSIX timer for its time.
LEMMA SetAlarmWakes ==
    ASSUME NEW m, Sound(m), NEW t \in [Node -> Struct], SetAlarm(m, t),
           \A n \in On(m, "time") : t[n].due > 0
    PROVE  m.HEAD["time"] # NULL => t[m.HEAD["time"]].due \in alarms'
<1>1. m.HEAD["time"] # NULL => t[m.HEAD["time"]].due > 0 /\ t[m.HEAD["time"]].due \in -1..MaxDelay
  BY HeadIs, SoundChain, DueIs, Names
<1> QED BY <1>1, Names DEF SetAlarm, Refresh

\* What a client does while timeTask waits: the list stays in order and nothing
\* that is due joins it, and the head is looked at again.
LEMMA ClientWakes ==
    ASSUME IInv', ~Locked, WakeInv, pc' = pc, sem' = sem,
           InOrder(Chain(lst', "time"), Due(timer')), SetAlarm(lst', timer'),
           \A n \in On(lst', "time") :
              timer'[n].due > 0 \/ (n \in On(lst, "time") /\ timer'[n] = timer[n])
    PROVE  WakeInv'
<1>1. Sound(lst') /\ timer' \in [Node -> Struct] BY DEF IInv, PlaceInv, TypeOK
<1>2. AllLater => AllLater' BY DEF AllLater
<1>3. pc # "collect" /\ pc' # "collect" BY DEF Locked
<1>4. pc \in {"run", "call", "called"} \/ (pc = "wait" /\ ~sem) => AllLater' BY <1>2 DEF WakeInv
<1>5. AllLater' => NoLostWakeup' BY <1>1, SetAlarmWakes DEF AllLater, NoLostWakeup
<1>6. NoLostWakeup' BY <1>4, <1>5 DEF NoLostWakeup
<1> QED BY <1>3, <1>4, <1>6 DEF WakeInv, TimeOrder

\* Whatever changes neither the list nor its timers.
LEMMA FrameWakes ==
    ASSUME IInv, IInv', WakeInv, Chain(lst', "time") = Chain(lst, "time"),
           On(lst', "time") = On(lst, "time"), alarms' = alarms,
           \A n \in On(lst, "time") : timer'[n] = timer[n]
    PROVE  /\ TimeOrder' /\ (AllLater => AllLater')
           /\ sem' = sem /\ pc' = pc => NoLostWakeup'
<1>1. /\ Sound(lst) /\ Sound(lst') /\ timer \in [Node -> Struct] /\ timer' \in [Node -> Struct]
  BY DEF IInv, PlaceInv, TypeOK
<1>2. TimeOrder' BY <1>1, OrderSame DEF WakeInv, TimeOrder
<1>3. lst'.HEAD["time"] = lst.HEAD["time"] BY <1>1, HeadIs, Names
<1>4. lst.HEAD["time"] # NULL => lst.HEAD["time"] \in On(lst, "time") BY <1>1, HeadIs, Names
<1>5. sem' = sem /\ pc' = pc => NoLostWakeup' BY <1>3, <1>4 DEF WakeInv, NoLostWakeup
<1> QED BY <1>2, <1>5 DEF AllLater

\* A struct that is taken to be used again does not concern the list.
LEMMA GetNodeWakes ==
    ASSUME IInv, IInv', WakeInv, NEW c \in Client, NEW type, NEW msec, os_time_get_node(c, type, msec)
    PROVE  WakeInv'
<1>1. ~Locked /\ alarms' = alarms /\ sem' = sem /\ pc' = pc BY DEF os_time_get_node, taskVars
<1>2. PICK n \in Node :
         /\ n \in On(lst, "unuse") \/ n \notin alloc
         /\ On(lst', "time") = On(lst, "time") /\ Chain(lst', "time") = Chain(lst, "time")
         /\ timer' = [timer EXCEPT ![n] = Entry(n, type, msec, c)]
  BY GetNodeTakes
<1>3. n \notin On(lst, "time") BY <1>2, Apart DEF IInv, PlaceInv, Listed
<1>4. \A k \in On(lst, "time") : timer'[k] = timer[k] BY <1>2, <1>3, Apart
<1>5. TimeOrder' /\ (AllLater => AllLater') /\ NoLostWakeup' BY <1>1, <1>2, <1>4, FrameWakes
<1> QED BY <1>1, <1>5 DEF WakeInv, Locked

\* A new timer is put where it belongs in the order.
LEMMA CreateWakes ==
    ASSUME IInv, IInv', WakeInv, NEW c \in Client, os_time_create_entry(c)
    PROVE  WakeInv'
<1>1. PICK n : n = got[c] OBVIOUS
<1>2. /\ ~Locked /\ n # NULL /\ Activate(lst, n, timer[n].msec) /\ sem' = sem /\ pc' = pc
  BY <1>1 DEF os_time_create_entry, taskVars
<1>3. /\ n \in Node /\ n \notin Listed /\ timer[n].msec \in Delay
  BY <1>1, <1>2, Apart DEF IInv, PlaceInv, FieldInv
<1>4. /\ \A K \in List : n \notin On(lst, K)
      /\ \A k \in On(lst, "time") : timer[k].msec \in Delay
  BY <1>3, Names DEF Listed, IInv, FieldInv, Waiting
<1>5. /\ On(lst', "time") = On(lst, "time") \cup {n}
      /\ \E k \in 1..(Len(Chain(lst, "time")) + 1) :
            /\ Chain(lst', "time") = Inserted(Chain(lst, "time"), k, n)
            /\ InOrder(Chain(lst, "time"), Due(timer'))
                  => Between(Chain(lst, "time"), Due(timer'), k, n)
      /\ timer' \in [Node -> Struct] /\ \A k \in Node \ {n} : timer'[k] = timer[k]
      /\ timer'[n].due = timer[n].msec
  BY <1>2, <1>3, <1>4, Apart, ActivateIs
<1>6. \A k \in On(lst, "time") : timer'[k] = timer[k] BY <1>3, <1>5, Apart DEF Listed
<1>7. InOrder(Chain(lst, "time"), Due(timer')) BY <1>5, <1>6, Apart, OrderSame DEF WakeInv, TimeOrder
<1>8. InOrder(Chain(lst', "time"), Due(timer'))
  <2>1. Chain(lst, "time") \in Seq(Node) /\ Due(timer') \in [Node -> Int]
    BY <1>5, Apart, SoundChain, DueIs, Names
  <2>2. PICK k \in 1..(Len(Chain(lst, "time")) + 1) :
           /\ Chain(lst', "time") = Inserted(Chain(lst, "time"), k, n)
           /\ Between(Chain(lst, "time"), Due(timer'), k, n)
    BY <1>5, <1>7
  <2>3. InOrder(Inserted(Chain(lst, "time"), k, n), Due(timer'))
    BY <1>3, <1>7, <2>1, <2>2, OrderInserted
  <2> QED BY <2>2, <2>3
<1>9. timer'[n].due > 0 BY <1>3, <1>5, Names
<1>10. SetAlarm(lst', timer') BY <1>2 DEF Activate
<1> QED BY <1>2, <1>5, <1>6, <1>8, <1>9, <1>10, ClientWakes

\* So is one that is restarted.
LEMMA RestartWakes ==
    ASSUME IInv, IInv', WakeInv, NEW c \in Client, NEW msec \in Delay, os_time_restart(c, msec)
    PROVE  WakeInv'
<1>1. PICK n : n = handle[c] OBVIOUS
<1>2. PICK m : m = IF timer[n].lstid = "READY" THEN lstDelete(lst, "time", n) ELSE lst OBVIOUS
<1>3. /\ ~Locked /\ n # NULL /\ Found(n) /\ Activate(m, n, msec) /\ sem' = sem /\ pc' = pc
  BY <1>1, <1>2 DEF os_time_restart, clientVars, taskVars
<1>4. n \in Node /\ n \in On(lst, "time") BY <1>1, <1>3, FoundIs
<1>5. /\ Sound(m) /\ \A K \in List : n \notin On(m, K)
      /\ On(m, "time") = On(lst, "time") \ {n}
      /\ \E k \in 1..Len(Chain(lst, "time")) :
            Chain(lst, "time")[k] = n /\ Chain(m, "time") = Removed(Chain(lst, "time"), k)
  BY <1>1, <1>2, <1>3, RestartTakes
<1>6. \A k \in On(m, "time") : timer[k].msec \in Delay
  BY <1>5, Apart DEF IInv, FieldInv, Waiting
<1>7. /\ On(lst', "time") = On(m, "time") \cup {n}
      /\ \E k \in 1..(Len(Chain(m, "time")) + 1) :
            /\ Chain(lst', "time") = Inserted(Chain(m, "time"), k, n)
            /\ InOrder(Chain(m, "time"), Due(timer'))
                  => Between(Chain(m, "time"), Due(timer'), k, n)
      /\ timer' \in [Node -> Struct] /\ \A k \in Node \ {n} : timer'[k] = timer[k]
      /\ timer'[n].due = msec
  BY <1>3, <1>4, <1>5, <1>6, Apart, ActivateIs
<1>8. InOrder(Chain(m, "time"), Due(timer))
  <2>1. PICK k \in 1..Len(Chain(lst, "time")) :
           Chain(m, "time") = Removed(Chain(lst, "time"), k)
    BY <1>5
  <2>2. /\ Chain(lst, "time") \in Seq(Node)
        /\ \A i, j \in 1..Len(Chain(lst, "time")) :
              Chain(lst, "time")[i] = Chain(lst, "time")[j] => i = j
    BY Apart, SoundChain, Names
  <2>3. InOrder(Chain(lst, "time"), Due(timer)) BY DEF WakeInv, TimeOrder
  <2> QED BY <2>1, <2>2, <2>3, OrderRemoved
<1>9. \A k \in On(m, "time") : timer'[k] = timer[k] BY <1>5, <1>7, Apart
<1>10. InOrder(Chain(m, "time"), Due(timer')) BY <1>5, <1>7, <1>8, <1>9, Apart, OrderSame
<1>11. InOrder(Chain(lst', "time"), Due(timer'))
  <2>1. Chain(m, "time") \in Seq(Node) /\ Due(timer') \in [Node -> Int]
    BY <1>5, <1>7, SoundChain, DueIs, Names
  <2>2. PICK k \in 1..(Len(Chain(m, "time")) + 1) :
           /\ Chain(lst', "time") = Inserted(Chain(m, "time"), k, n)
           /\ Between(Chain(m, "time"), Due(timer'), k, n)
    BY <1>7, <1>10
  <2>3. InOrder(Inserted(Chain(m, "time"), k, n), Due(timer'))
    BY <1>4, <1>10, <2>1, <2>2, OrderInserted
  <2> QED BY <2>2, <2>3
<1>12. SetAlarm(lst', timer') BY <1>3 DEF Activate
<1>13. \A k \in On(lst', "time") :
          timer'[k].due > 0 \/ (k \in On(lst, "time") /\ timer'[k] = timer[k])
  BY <1>5, <1>7, <1>9, Names
<1> QED BY <1>3, <1>11, <1>12, <1>13, ClientWakes

\* What is left of a list in order is in order.
LEMMA WithdrawWakes ==
    ASSUME IInv, IInv', WakeInv, ~Locked, NEW c \in Client, handle[c] # NULL, Found(handle[c]),
           lst' = ToUnuse(lst, handle[c]),
           \A k \in Node \ {handle[c]} : timer'[k] = timer[k],
           SetAlarm(lst', timer'), sem' = sem, pc' = pc
    PROVE  WakeInv'
<1>1. PICK n : n = handle[c] OBVIOUS
<1>2. n \in Node /\ n \in On(lst, "time") BY <1>1, FoundIs
<1>3. /\ Sound(lst') /\ On(lst', "time") = On(lst, "time") \ {n}
      /\ \E k \in 1..Len(Chain(lst, "time")) :
            Chain(lst, "time")[k] = n /\ Chain(lst', "time") = Removed(Chain(lst, "time"), k)
  BY <1>1, <1>2, ToUnuseIs
<1>4. timer' \in [Node -> Struct] BY DEF IInv, TypeOK
<1>5. \A k \in On(lst', "time") : timer'[k] = timer[k] /\ k \in On(lst, "time")
  BY <1>1, <1>3, Apart
<1>6. InOrder(Chain(lst', "time"), Due(timer))
  BY <1>3, Apart, SoundChain, OrderRemoved, Names DEF WakeInv, TimeOrder
<1>7. InOrder(Chain(lst', "time"), Due(timer')) BY <1>3, <1>4, <1>5, <1>6, Apart, OrderSame
<1> QED BY <1>5, <1>7, ClientWakes

\* os_time_destroy and os_time_cancel.
LEMMA StopWakes ==
    ASSUME IInv, IInv', WakeInv, NEW c \in Client, os_time_destroy(c) \/ os_time_cancel(c)
    PROVE  WakeInv'
<1>1. ~Locked /\ handle[c] # NULL /\ sem' = sem /\ pc' = pc /\ walk' = walk
  BY DEF os_time_destroy, os_time_cancel, taskVars
<1>2. CASE Found(handle[c])
  <2>1. lst' = ToUnuse(lst, handle[c]) /\ SetAlarm(lst', timer')
    BY <1>2 DEF os_time_destroy, os_time_cancel
  <2>2. handle[c] \in Node BY <1>1, <1>2, FoundIs
  <2>3. \A k \in Node \ {handle[c]} : timer'[k] = timer[k]
    <3>1. CASE os_time_destroy(c)
      <4>1. timer' = [timer EXCEPT ![handle[c]] = Unused] BY <1>2, <3>1 DEF os_time_destroy
      <4> QED BY <2>2, <4>1, Apart
    <3>2. CASE os_time_cancel(c)
      <4>1. timer' = [timer EXCEPT ![handle[c]] = Cancelled(timer[handle[c]])]
        BY <1>2, <3>2 DEF os_time_cancel
      <4> QED BY <2>2, <4>1, Apart
    <3> QED BY <3>1, <3>2
  <2> QED BY <1>1, <1>2, <2>1, <2>3, WithdrawWakes
<1>3. CASE ~Found(handle[c])
  <2>1. lst' = lst /\ timer' = timer /\ alarms' = alarms
    BY <1>3 DEF os_time_destroy, os_time_cancel
  <2> QED BY <1>1, <2>1 DEF WakeInv, TimeOrder, AllLater, NoLostWakeup
<1> QED BY <1>2, <1>3
-----------------------------------------------------------------------------
\* The first loop has looked at everything up to where it is.
LEMMA CollectWakes ==
    ASSUME IInv, IInv', WakeInv, CollectNext
    PROVE  WakeInv'
<1> DEFINE c == Chain(lst, "time")
<1>1. timer' = timer /\ pc = "collect" /\ pc' = "collect" BY DEF CollectNext
<1>2. PICK k \in 1..Len(c) :
         /\ walk = c[k] /\ walk' = Nth(c, k + 1)
         /\ IsDue(walk) => Chain(lst', "time") = Removed(c, k)
  BY CollectNextIs
<1>3. ~IsDue(walk) => lst' = lst BY CollectNextIs
<1>4. /\ c \in Seq(Node) /\ Len(c) \in Nat /\ \A i, j \in 1..Len(c) : c[i] = c[j] => i = j
      /\ \A i \in 1..Len(c) : c[i] # NULL /\ c[i] \in On(lst, "time")
  BY Apart, SoundChain, ChainBound, Names
<1>5. PICK j \in 1..(Len(c) + 1) : walk = Nth(c, j) /\ \A i \in 1..(j - 1) : timer[c[i]].due > 0
  BY <1>1 DEF WakeInv
<1>6. InOrder(c, Due(timer)) BY DEF WakeInv, TimeOrder
<1> HIDE DEF c
<1>7. j = k BY <1>2, <1>4, <1>5 DEF Nth
<1>8. CASE IsDue(walk)
  <2> DEFINE d == Chain(lst', "time")
  <2>1. d = Removed(c, k) BY <1>2, <1>8
  <2> HIDE DEF d
  <2>2. InOrder(d, Due(timer)) BY <1>4, <1>6, <2>1, OrderRemoved
  <2>3. /\ Len(d) = Len(c) - 1 /\ \A i \in 1..(k - 1) : d[i] = c[i]
        /\ Nth(d, k) = Nth(c, k + 1)
    <3>1. Nth(d, k) = Nth(c, k + 1) BY <1>4, <2>1, NthRemoved
    <3>2. Len(Removed(c, k)) = Len(c) - 1 BY <1>4, RemovedIs
    <3>3. \A i \in 1..(Len(c) - 1) : Removed(c, k)[i] = IF i < k THEN c[i] ELSE c[i + 1]
      BY <1>4, RemovedIs
    <3>4. \A i \in 1..(k - 1) : i \in 1..(Len(c) - 1) /\ i < k BY <1>4
    <3> QED BY <2>1, <3>1, <3>2, <3>3, <3>4
  <2>4. k \in 1..(Len(d) + 1) /\ walk' = Nth(d, k) /\ \A i \in 1..(k - 1) : timer'[d[i]].due > 0
    BY <1>1, <1>2, <1>4, <1>5, <1>7, <2>3
  <2>5. \E i \in 1..(Len(d) + 1) : walk' = Nth(d, i) /\ \A h \in 1..(i - 1) : timer'[d[h]].due > 0
    BY <2>4
  <2> QED BY <1>1, <2>2, <2>5 DEF WakeInv, TimeOrder, NoLostWakeup, d
<1>9. CASE ~IsDue(walk)
  <2>1. lst' = lst BY <1>3, <1>9
  <2>2. timer[c[k]].due > 0
    <3>1. c[k] \in Waiting /\ c[k] \in Node BY <1>4 DEF Waiting
    <3>2. timer[c[k]].due \in -1..MaxDelay /\ timer[c[k]].state = "TRUE"
      BY <3>1, Apart, DueIs DEF IInv, FieldInv
    <3> QED BY <1>2, <1>9, <3>2, Names DEF IsDue
  <2>3. /\ k + 1 \in 1..(Len(c) + 1) /\ walk' = Nth(c, k + 1)
        /\ \A i \in 1..((k + 1) - 1) : timer'[c[i]].due > 0
    <3>1. \A i \in 1..((k + 1) - 1) : i \in 1..(k - 1) \/ i = k BY <1>4
    <3>2. k + 1 \in 1..(Len(c) + 1) BY <1>4
    <3> QED BY <1>1, <1>2, <1>5, <1>7, <2>2, <3>1, <3>2
  <2>4. \E i \in 1..(Len(c) + 1) : walk' = Nth(c, i) /\ \A h \in 1..(i - 1) : timer'[c[h]].due > 0
    BY <2>3
  <2>5. Chain(lst', "time") = c BY <2>1 DEF c
  <2> QED BY <1>1, <1>6, <2>4, <2>5 DEF WakeInv, TimeOrder, NoLostWakeup
<1> QED BY <1>8, <1>9

\* The other steps of timeTask.
LEMMA TaskWakes ==
    ASSUME IInv, IInv', WakeInv,
           TakeSem \/ Interrupted \/ Collect \/ CollectEnd \/ RunTimer \/ Callback \/ EndLoop
    PROVE  WakeInv'
<1>1. CASE TakeSem \/ Interrupted
  BY <1>1 DEF TakeSem, Interrupted, WakeInv, TimeOrder, NoLostWakeup
<1>2. CASE Collect
  <2> DEFINE c == Chain(lst, "time")
  <2>1. lst' = lst /\ timer' = timer /\ pc' = "collect" /\ walk' = lst.HEAD["time"]
    BY <1>2 DEF Collect
  <2>2. walk' = Nth(c, 1) /\ Len(c) \in Nat BY <2>1, Apart, HeadIs, SoundChain, Names
  <2>3. InOrder(c, Due(timer)) BY DEF WakeInv, TimeOrder
  <2>4. Chain(lst', "time") = c BY <2>1
  <2> HIDE DEF c
  <2>5. \E i \in 1..(Len(c) + 1) : walk' = Nth(c, i) /\ \A h \in 1..(i - 1) : timer'[c[h]].due > 0
    <3>1. 1 \in 1..(Len(c) + 1) /\ \A h \in 1..(1 - 1) : timer'[c[h]].due > 0 BY <2>2
    <3> QED BY <2>2, <3>1
  <2> QED BY <2>1, <2>3, <2>4, <2>5 DEF WakeInv, TimeOrder, NoLostWakeup
<1>3. CASE CollectEnd
  <2> DEFINE c == Chain(lst, "time")
  <2>1. lst' = lst /\ timer' = timer /\ pc = "collect" /\ pc' = "run" /\ walk = NULL
    BY <1>3 DEF CollectEnd
  <2>2. /\ Len(c) \in Nat /\ On(lst, "time") = NodesOf(c) /\ \A i \in 1..Len(c) : c[i] # NULL
    BY Apart, SoundChain, ChainBound, Names
  <2>3. PICK j \in 1..(Len(c) + 1) : walk = Nth(c, j) /\ \A i \in 1..(j - 1) : timer[c[i]].due > 0
    BY <2>1 DEF WakeInv
  <2> HIDE DEF c
  <2>4. j = Len(c) + 1 BY <2>1, <2>2, <2>3 DEF Nth
  <2>5. \A i \in 1..Len(c) : timer[c[i]].due > 0 BY <2>2, <2>3, <2>4
  <2>6. AllLater BY <2>2, <2>5 DEF AllLater, NodesOf
  <2> QED BY <2>1, <2>6 DEF WakeInv, TimeOrder, AllLater, NoLostWakeup
<1>4. CASE RunTimer
  <2>1. /\ pc = "run" /\ pc' = "call" /\ timer' = [timer EXCEPT ![walk] = Called(timer[walk])]
        /\ alarms' = alarms
    BY <1>4 DEF RunTimer
  <2>2. /\ walk \in On(lst, "tmp") /\ walk \in Node
        /\ On(lst', "time") = On(lst, "time") /\ Chain(lst', "time") = Chain(lst, "time")
    BY <1>4, RunTimerIs
  <2>3. \A n \in On(lst, "time") : timer'[n] = timer[n] BY <2>1, <2>2, Apart
  <2>4. TimeOrder' /\ (AllLater => AllLater') BY <2>1, <2>2, <2>3, FrameWakes
  <2> QED BY <2>1, <2>4 DEF WakeInv, NoLostWakeup
<1>5. CASE Callback
  BY <1>5 DEF Callback, WakeInv, TimeOrder, AllLater, NoLostWakeup
<1>6. CASE EndLoop
  <2>1. lst' = lst /\ timer' = timer /\ pc = "run" /\ pc' = "wait" /\ SetAlarm(lst, timer)
    BY <1>6 DEF EndLoop
  <2>2. AllLater BY <2>1 DEF WakeInv
  <2>3. NoLostWakeup' BY <2>1, <2>2, Apart, SetAlarmWakes DEF AllLater, NoLostWakeup
  <2> QED BY <2>1, <2>2, <2>3 DEF WakeInv, TimeOrder, AllLater
<1> QED BY <1>1, <1>2, <1>3, <1>4, <1>5, <1>6

\* A periodic timer is armed for later than now.
LEMMA ReturnWakes ==
    ASSUME IInv, IInv', WakeInv, CallbackReturns
    PROVE  WakeInv'
<1>1. PICK n : n = cur OBVIOUS
<1>2. pc = "called" /\ pc' = "run" /\ alarms' = alarms BY DEF CallbackReturns
<1>3. /\ n \in Node /\ n \notin Listed /\ timer[n].msec \in Delay /\ timer[n] \in Struct
  BY <1>1, <1>2, Apart DEF IInv, PlaceInv, FieldInv
<1>4. Sound(lst') /\ timer' \in [Node -> Struct] /\ \A k \in Node \ {n} : timer'[k] = timer[k]
  BY <1>1, ReturnIs
<1>5. AllLater BY <1>2 DEF WakeInv
<1>6. \A k \in On(lst, "time") : timer'[k] = timer[k] BY <1>3, <1>4, Apart DEF Listed
<1>7. CASE timer[n].type = "ONCE"
  <2>1. On(lst', "time") = On(lst, "time") /\ Chain(lst', "time") = Chain(lst, "time")
    BY <1>1, <1>7, ReturnIs
  <2>2. TimeOrder' /\ AllLater' BY <1>2, <1>5, <1>6, <2>1, FrameWakes
  <2> QED BY <1>2, <2>2 DEF WakeInv, NoLostWakeup
<1>8. CASE timer[n].type # "ONCE"
  <2>1. timer[n].type = "DEFAULT" BY <1>3, <1>8 DEF Struct
  <2>2. On(lst', "time") = On(lst, "time") \cup {n} /\ timer'[n].due = timer[n].msec
    BY <1>1, <2>1, ReturnIs
  <2>3. PICK k \in 1..(Len(Chain(lst, "time")) + 1) :
           /\ Chain(lst', "time") = Inserted(Chain(lst, "time"), k, n)
           /\ InOrder(Chain(lst, "time"), Due(timer')) => Between(Chain(lst, "time"), Due(timer'), k, n)
    BY <1>1, <2>1, ReturnIs
  <2>4. InOrder(Chain(lst, "time"), Due(timer')) BY <1>4, <1>6, Apart, OrderSame DEF WakeInv, TimeOrder
  <2>5. Chain(lst, "time") \in Seq(Node) /\ Due(timer') \in [Node -> Int]
    BY <1>4, Apart, SoundChain, DueIs, Names
  <2>6. InOrder(Inserted(Chain(lst, "time"), k, n), Due(timer')) BY <1>3, <2>3, <2>4, <2>5, OrderInserted
  <2>7. TimeOrder' BY <2>3, <2>6 DEF TimeOrder
  <2>8. AllLater' BY <1>3, <1>5, <1>6, <2>2, Names DEF AllLater
  <2> QED BY <1>2, <2>7, <2>8 DEF WakeInv, NoLostWakeup
<1> QED BY <1>7, <1>8

\* A millisecond later the order is the same, and the POSIX timer of the first
\* timer has given the semaphore or is a millisecond nearer.
LEMMA TickWakes ==
    ASSUME Slow = FALSE, IInv, IInv', WakeInv, Tick
    PROVE  WakeInv'
<1>1. /\ lst' = lst /\ pc' = pc /\ pc \in {"wait", "woken"}
      /\ alarms' = {a - 1 : a \in alarms \ {1}} /\ sem' = (sem \/ 1 \in alarms)
  BY DEF Tick, Locked, IInv, TypeOK
<1>2. /\ Sound(lst) /\ timer \in [Node -> Struct] /\ timer' \in [Node -> Struct]
      /\ \A n \in Node : /\ timer[n].due \in -1..MaxDelay
                         /\ timer'[n].due = IF n \in Waiting /\ timer[n].due > -1
                                            THEN timer[n].due - 1 ELSE timer[n].due
  BY Apart, TickIs, DueIs
<1>3. \A n \in On(lst, "time") : n \in Waiting /\ n \in Node BY Apart DEF Waiting
<1>4. TimeOrder'
  <2> DEFINE c == Chain(lst, "time")
  <2>1. \A i \in 1..Len(c) : c[i] \in On(lst, "time") BY <1>2, SoundChain, Names
  <2>2. InOrder(c, Due(timer)) BY DEF WakeInv, TimeOrder
  <2>3. \A n \in Node : Due(timer)[n] = timer[n].due /\ Due(timer')[n] = timer'[n].due BY <1>2, DueIs
  <2> HIDE DEF c
  <2>4. ASSUME NEW i \in 1..Len(c), NEW j \in 1..Len(c), i < j
        PROVE  Due(timer')[c[i]] <= Due(timer')[c[j]]
    <3>1. Due(timer)[c[i]] <= Due(timer)[c[j]] BY <2>2, <2>4 DEF InOrder
    <3>2. c[i] \in Waiting /\ c[i] \in Node /\ c[j] \in Waiting /\ c[j] \in Node BY <1>3, <2>1
    <3>3. /\ timer[c[i]].due \in Int /\ timer[c[i]].due >= -1
          /\ timer[c[j]].due \in Int /\ timer[c[j]].due >= -1
      BY <1>2, <3>2, Names
    <3> QED BY <1>2, <2>3, <3>1, <3>2, <3>3
  <2>5. InOrder(c, Due(timer')) BY <2>4 DEF InOrder
  <2> QED BY <1>1, <2>5 DEF TimeOrder, c
<1>5. ASSUME pc = "wait", ~sem'
      PROVE  AllLater' /\ NoLostWakeup'
  <2> DEFINE h == lst.HEAD["time"]
  <2>1. AllLater /\ NoLostWakeup /\ ~sem /\ 1 \notin alarms BY <1>1, <1>5 DEF WakeInv
  <2>2. h # NULL => h \in On(lst, "time") /\ timer[h].due \in alarms /\ timer[h].due > 0
    BY <1>2, <1>5, <2>1, HeadIs, Names DEF NoLostWakeup, AllLater
  <2>3. ASSUME NEW n \in On(lst, "time") PROVE timer[n].due > 1
    <3>1. h \in On(lst, "time") /\ timer[h].due <= timer[n].due
      BY <1>2, HeadFirst DEF WakeInv, TimeOrder
    <3>2. h # NULL /\ h \in Node /\ n \in Node BY <1>3, <2>3, <3>1, Names
    <3>3. timer[h].due \in Int /\ timer[n].due \in Int BY <1>2, <3>2, Names
    <3>4. timer[h].due # 1 /\ timer[h].due > 0 BY <2>1, <2>2, <3>2
    <3> QED BY <3>1, <3>3, <3>4
  <2>4. \A n \in On(lst, "time") : timer'[n].due = timer[n].due - 1 /\ timer[n].due \in Int
    BY <1>2, <1>3, <2>3, Names
  <2>5. AllLater' BY <1>1, <2>3, <2>4 DEF AllLater
  <2>6. h # NULL => timer'[h].due \in alarms' BY <1>1, <2>1, <2>2, <2>4
  <2> QED BY <1>1, <2>5, <2>6 DEF NoLostWakeup
<1> QED BY <1>1, <1>4, <1>5 DEF WakeInv, NoLostWakeup

\* Every step keeps WakeInv.
LEMMA NextWakes ==
    ASSUME Slow = FALSE, IInv, IInv', WakeInv, [Next]_vars
    PROVE  WakeInv'
<1>1. ASSUME NEW c \in Client, NEW msec \in Delay, NEW type \in Types(c),
             os_time_get_node(c, type, msec)
      PROVE  WakeInv'
  BY <1>1, GetNodeWakes
<1>2. ASSUME NEW c \in Client,
             os_time_create_entry(c) \/ create_returns(c) \/ os_time_destroy(c) \/ os_time_cancel(c)
      PROVE  WakeInv'
  <2>1. CASE create_returns(c)
    BY <2>1 DEF create_returns, taskVars, WakeInv, TimeOrder, AllLater, NoLostWakeup
  <2> QED BY <1>2, <2>1, CreateWakes, StopWakes
<1>3. ASSUME NEW c \in Client, NEW msec \in Delay, os_time_restart(c, msec)
      PROVE  WakeInv'
  BY <1>3, RestartWakes
<1>4. CASE task BY <1>4, TaskWakes, CollectWakes, ReturnWakes DEF task
<1>5. CASE Interrupted BY <1>5, TaskWakes
<1>6. CASE Tick BY <1>6, TickWakes
<1>7. CASE UNCHANGED vars
  BY <1>7 DEF vars, WakeInv, TimeOrder, AllLater, NoLostWakeup
<1> QED BY <1>1, <1>2, <1>3, <1>4, <1>5, <1>6, <1>7 DEF Next

\* However slow the callbacks are, the first timer has a POSIX timer when it is
\* not late.
HeadSet ==
    LET head == lst.HEAD["time"]
    IN  pc = "wait" /\ ~sem /\ head # NULL /\ timer[head].due > 0 => timer[head].due \in alarms

\* Setting the clock sets it for the first timer, unless it is late.
LEMMA SetAlarmHead ==
    ASSUME NEW m, NEW t, SetAlarm(m, t)
    PROVE  LET head == m.HEAD["time"]
           IN  head # NULL /\ t[head].due > 0 /\ t[head].due \in Int => t[head].due \in alarms'
BY DEF SetAlarm, Refresh

\* What is left to wait is an integer, of the first timer too.
LEMMA HeadDue ==
    ASSUME IInv, lst.HEAD["time"] # NULL
    PROVE  lst.HEAD["time"] \in Node /\ timer[lst.HEAD["time"]].due \in Int
<1>1. lst.HEAD["time"] \in Node BY Apart, HeadIs, Names
<1>2. timer[lst.HEAD["time"]].due \in -1..MaxDelay BY <1>1, Apart, DueIs
<1> QED BY <1>1, <1>2, Names

\* A millisecond later the POSIX timer is as near to its end as the first timer.
LEMMA TickHead ==
    ASSUME IInv, HeadSet, Tick
    PROVE  HeadSet'
<1> DEFINE h == lst.HEAD["time"]
<1>1. /\ lst' = lst /\ pc' = pc
      /\ alarms' = {a - 1 : a \in alarms \ {1}} /\ sem' = (sem \/ 1 \in alarms)
  BY DEF Tick
<1>2. ASSUME pc = "wait", ~sem', h # NULL, timer'[h].due > 0
      PROVE  timer'[h].due \in alarms'
  <2>1. /\ h \in Node /\ h \in On(lst, "time") /\ h \in Waiting
        /\ timer[h].due \in Int /\ timer[h].due >= -1
    <3>1. h \in Node /\ h \in On(lst, "time") BY <1>2, Apart, HeadIs, Names
    <3>2. timer[h].due \in -1..MaxDelay BY <3>1, Apart, DueIs
    <3> QED BY <3>1, <3>2, Names DEF Waiting
  <2>2. timer'[h].due = IF timer[h].due > -1 THEN timer[h].due - 1 ELSE timer[h].due
    BY <2>1, TickIs
  <2>3. timer[h].due > 1 /\ timer'[h].due = timer[h].due - 1 BY <1>2, <2>1, <2>2
  <2>4. ~sem /\ 1 \notin alarms
    <3>1. sem' = (sem \/ 1 \in alarms) BY <1>1
    <3> QED BY <1>2, <3>1, Zenon
  <2>5. timer[h].due > 0 BY <2>1, <2>3
  <2>6. pc = "wait" /\ h # NULL BY <1>2
  <2>7. timer[h].due \in alarms
    <3>1. pc = "wait" /\ ~sem /\ h # NULL /\ timer[h].due > 0 => timer[h].due \in alarms
      BY DEF HeadSet
    <3> QED BY <2>4, <2>5, <2>6, <3>1, Zenon
  <2> HIDE DEF h
  <2>8. timer[h].due \in alarms \ {1} BY <2>3, <2>7
  <2> QED BY <1>1, <2>3, <2>8
<1> QED BY <1>1, <1>2 DEF HeadSet

\* Every step keeps HeadSet.
LEMMA NextHead ==
    ASSUME IInv, IInv', HeadSet, [Next]_vars
    PROVE  HeadSet'
<1>1. ASSUME SetAlarm(lst', timer') PROVE HeadSet'
  <2>1. lst'.HEAD["time"] # NULL => timer'[lst'.HEAD["time"]].due \in Int
    <3>1. /\ Sound(lst') /\ timer' \in [Node -> Struct] BY DEF IInv, PlaceInv, TypeOK
    <3> SUFFICES ASSUME lst'.HEAD["time"] # NULL PROVE timer'[lst'.HEAD["time"]].due \in Int
      OBVIOUS
    <3>2. lst'.HEAD["time"] \in Node BY <3>1, HeadIs, SoundChain, Names
    <3>3. timer'[lst'.HEAD["time"]].due \in -1..MaxDelay BY <3>1, <3>2, DueIs
    <3> QED BY <3>3, Names
  <2> QED BY <1>1, <2>1, SetAlarmHead DEF HeadSet
<1>2. ASSUME lst' = lst, timer' = timer, alarms' = alarms,
             pc' # "wait" \/ (pc' = pc /\ sem' = sem)
      PROVE  HeadSet'
  BY <1>2 DEF HeadSet
<1>3. ASSUME pc' # "wait" PROVE HeadSet'
  BY <1>3 DEF HeadSet
<1>4. ASSUME NEW c \in Client, NEW msec \in Delay, NEW type \in Types(c),
             os_time_get_node(c, type, msec)
      PROVE  HeadSet'
  <2>1. alarms' = alarms /\ sem' = sem /\ pc' = pc BY <1>4 DEF os_time_get_node, taskVars
  <2>2. PICK n \in Node :
           /\ n \in On(lst, "unuse") \/ n \notin alloc
           /\ lst'.HEAD["time"] = lst.HEAD["time"]
           /\ timer' = [timer EXCEPT ![n] = Entry(n, type, msec, c)]
    BY <1>4, GetNodeTakes
  <2>3. n \notin On(lst, "time") BY <2>2, Apart DEF IInv, PlaceInv, Listed
  <2>4. lst.HEAD["time"] # NULL => lst.HEAD["time"] \in On(lst, "time")
    BY Apart, HeadIs, Names
  <2>5. lst.HEAD["time"] # NULL => timer'[lst.HEAD["time"]] = timer[lst.HEAD["time"]]
    BY <2>2, <2>3, <2>4, Apart
  <2> QED BY <2>1, <2>2, <2>5 DEF HeadSet
<1>5. ASSUME NEW c \in Client, os_time_create_entry(c)
      PROVE  HeadSet'
  BY <1>1, <1>5 DEF os_time_create_entry, Activate
<1>6. ASSUME NEW c \in Client, create_returns(c)
      PROVE  HeadSet'
  BY <1>2, <1>6 DEF create_returns, taskVars
<1>7. ASSUME NEW c \in Client, os_time_destroy(c) \/ os_time_cancel(c)
      PROVE  HeadSet'
  <2>1. pc' = pc /\ sem' = sem BY <1>7 DEF os_time_destroy, os_time_cancel, taskVars
  <2>2. SetAlarm(lst', timer') \/ (lst' = lst /\ timer' = timer /\ alarms' = alarms)
    BY <1>7 DEF os_time_destroy, os_time_cancel
  <2> QED BY <1>1, <1>2, <2>1, <2>2
<1>8. ASSUME NEW c \in Client, NEW msec \in Delay, os_time_restart(c, msec)
      PROVE  HeadSet'
  BY <1>1, <1>8 DEF os_time_restart, Activate
<1>9. CASE task \/ Interrupted
  <2>1. CASE EndLoop
    BY <1>1, <2>1 DEF EndLoop
  <2>2. CASE ~EndLoop
    <3>1. pc' # "wait"
      BY <1>9, <2>2 DEF task, TakeSem, Interrupted, Collect, CollectNext, CollectEnd, RunTimer,
                        Callback, CallbackReturns
    <3> QED BY <1>3, <3>1
  <2> QED BY <2>1, <2>2
<1>10. CASE Tick BY <1>10, TickHead
<1>11. CASE UNCHANGED vars BY <1>2, <1>11 DEF vars
<1> QED BY <1>4, <1>5, <1>6, <1>7, <1>8, <1>9, <1>10, <1>11 DEF Next

\* While timeTask waits, the first timer of the list has a POSIX timer that will
\* wake it at its time, or it has been woken: always when the callbacks take no
\* time, and unless the first timer is late already when they do.
THEOREM SpecNoLostWakeup ==
    ASSUME Canceller = {}
    PROVE  Spec => []NoLostWakeup
<1>0. ASSUME Init PROVE WakeInv /\ HeadSet
  <2>1. lst = EmptyLists /\ pc = "wait" BY <1>0 DEF Init
  <2>2. /\ Sound(lst) /\ Chain(lst, "time") = <<>> /\ On(lst, "time") = {} /\ lst.HEAD["time"] = NULL
    BY <2>1, SoundEmpty, HeadIs, Names
  <2> QED BY <2>1, <2>2 DEF WakeInv, TimeOrder, InOrder, AllLater, NoLostWakeup, HeadSet
<1>1. CASE Slow = FALSE
  <2>1. Init => WakeInv BY <1>0
  <2>2. IInv /\ IInv' /\ WakeInv /\ [Next]_vars => WakeInv' BY <1>1, NextWakes
  <2>3. WakeInv => NoLostWakeup BY DEF WakeInv
  <2> QED BY <2>1, <2>2, <2>3, SpecInv, PTL DEF Spec
<1>2. CASE Slow = TRUE
  <2>1. Init => HeadSet BY <1>0
  <2>2. IInv /\ IInv' /\ HeadSet /\ [Next]_vars => HeadSet' BY NextHead
  <2>3. HeadSet => NoLostWakeup BY <1>2 DEF HeadSet, NoLostWakeup
  <2> QED BY <2>1, <2>2, <2>3, SpecInv, PTL DEF Spec
<1> QED BY <1>1, <1>2, OsTimeAssumption
-----------------------------------------------------------------------------
\* The state of AlarmClock that a state of os_time stands for.
Left == [n \in On(lst, "time") |-> IF timer[n].due < 0 THEN 0 ELSE timer[n].due]

Active == Waiting \cup ({cur} \ {NULL})

Periodic == {n \in Active : timer[n].type = "DEFAULT"}

\* The actions of AlarmClock in those terms: a timer is started.
LEMMA ClockStart ==
    ASSUME NEW n \in Node, NEW d \in Delay, n \notin Waiting, n # cur,
           Left' = [m \in On(lst, "time") \cup {n} |-> IF m = n THEN d ELSE Left[m]],
           Periodic' = Periodic \/ Periodic' = Periodic \cup {n},
           cur' = cur, On(lst', "tmp") = On(lst, "tmp")
    PROVE  Clock!ClockNext
<1>1. Clock!Armed = On(lst, "time") BY DEF Clock!Armed
<1>2. Clock!Start(n, d)
  BY <1>1 DEF Clock!Start, Clock!Set, Left, Periodic, Active, Waiting
<1> QED BY <1>2 DEF Clock!ClockNext

\* A timer that is armed has to wait for another time.
LEMMA ClockRestart ==
    ASSUME NEW n \in Node, NEW d \in Delay, n \in On(lst, "time"),
           Left' = [m \in On(lst, "time") \cup {n} |-> IF m = n THEN d ELSE Left[m]],
           Periodic' = Periodic, cur' = cur, On(lst', "tmp") = On(lst, "tmp")
    PROVE  Clock!ClockNext
<1>1. Clock!Armed = On(lst, "time") BY DEF Clock!Armed
<1>2. Clock!Restart(n, d)
  BY <1>1 DEF Clock!Restart, Clock!Set, Left, Periodic, Active, Waiting
<1> QED BY <1>2 DEF Clock!ClockNext

\* A timer that is armed is not armed any more.
LEMMA ClockStop ==
    ASSUME NEW n \in Node, n \in On(lst, "time"), Left' = [m \in On(lst, "time") \ {n} |-> Left[m]],
           Periodic' = Periodic \ {n}, cur' = cur, On(lst', "tmp") = On(lst, "tmp")
    PROVE  Clock!ClockNext
<1>1. Clock!Armed = On(lst, "time") BY DEF Clock!Armed
<1>2. Clock!Stop(n)
  BY <1>1 DEF Clock!Stop, Clock!Without, Left, Periodic, Active, Waiting
<1> QED BY <1>2 DEF Clock!ClockNext

\* A timer that has nothing left to wait is collected.
LEMMA ClockCollect ==
    ASSUME NEW n \in Node, n \in On(lst, "time"), Left[n] = 0,
           Left' = [m \in On(lst, "time") \ {n} |-> Left[m]],
           Periodic' = Periodic, cur' = cur, On(lst', "tmp") = On(lst, "tmp") \cup {n}
    PROVE  Clock!ClockNext
<1>1. Clock!Armed = On(lst, "time") BY DEF Clock!Armed
<1>2. Clock!Collect(n)
  BY <1>1 DEF Clock!Collect, Clock!Without, Left, Periodic, Active, Waiting
<1> QED BY <1>2 DEF Clock!ClockNext

\* A timer that has been collected runs.
LEMMA ClockFire ==
    ASSUME NEW n \in Node, cur = NULL, n \in On(lst, "tmp"), On(lst', "tmp") = On(lst, "tmp") \ {n},
           Left' = Left, Periodic' = Periodic, cur' = n
    PROVE  Clock!ClockNext
<1>1. Clock!Fire(n)
  BY DEF Clock!Fire, Left, Periodic, Active, Waiting
<1> QED BY <1>1 DEF Clock!ClockNext

\* The timer that runs has run.
LEMMA ClockReturn ==
    ASSUME cur # NULL, cur' = NULL, Periodic' = Periodic, On(lst', "tmp") = On(lst, "tmp"),
           cur \notin Periodic => Left' = Left,
           cur \in Periodic =>
              \E d \in Delay :
                 Left' = [m \in On(lst, "time") \cup {cur} |-> IF m = cur THEN d ELSE Left[m]]
    PROVE  Clock!ClockNext
<1>1. Clock!Armed = On(lst, "time") BY DEF Clock!Armed
<1>2. Clock!Return
  BY <1>1 DEF Clock!Return, Clock!Set, Left, Periodic, Active, Waiting
<1> QED BY <1>2 DEF Clock!ClockNext

\* Time passes.
LEMMA ClockPass ==
    ASSUME Left' = [n \in On(lst, "time") |-> IF Left[n] = 0 THEN 0 ELSE Left[n] - 1],
           Periodic' = Periodic, cur' = cur, On(lst', "tmp") = On(lst, "tmp")
    PROVE  Clock!ClockNext
<1>1. Clock!Armed = On(lst, "time") BY DEF Clock!Armed
<1>2. Clock!Pass
  BY <1>1 DEF Clock!Pass, Left, Periodic, Active, Waiting
<1> QED BY <1>2 DEF Clock!ClockNext

\* Nothing happens.
LEMMA ClockStutter ==
    ASSUME Left' = Left, Periodic' = Periodic, cur' = cur, On(lst', "tmp") = On(lst, "tmp")
    PROVE  UNCHANGED Clock!clockVars
BY DEF Clock!clockVars, Left, Periodic, Active, Waiting
-----------------------------------------------------------------------------
\* Every step that touches neither the timers that wait nor the one that runs.
LEMMA StepStutters ==
    ASSUME IInv, On(lst', "time") = On(lst, "time"), On(lst', "tmp") = On(lst, "tmp"), cur' = cur,
           \A n \in Active : timer'[n] = timer[n]
    PROVE  UNCHANGED Clock!clockVars
<1>1. Left' = Left
  <2>1. \A n \in On(lst, "time") : timer'[n] = timer[n] BY DEF Active, Waiting
  <2> QED BY <2>1 DEF Left
<1>2. Active' = Active BY DEF Active, Waiting
<1>3. Periodic' = Periodic BY <1>2 DEF Periodic
<1> QED BY <1>1, <1>3, ClockStutter

\* A timer that is being created does not wait yet.
LEMMA GetNodeClock ==
    ASSUME IInv, NEW c \in Client, NEW type, NEW msec, os_time_get_node(c, type, msec)
    PROVE  UNCHANGED Clock!clockVars
<1>1. PICK n \in Node :
         /\ n \in On(lst, "unuse") \/ n \notin alloc
         /\ On(lst', "time") = On(lst, "time") /\ On(lst', "tmp") = On(lst, "tmp")
         /\ timer' = [timer EXCEPT ![n] = Entry(n, type, msec, c)]
  BY GetNodeTakes
<1>2. cur' = cur BY DEF os_time_get_node, taskVars
<1>3. n \notin Active BY <1>1, Apart DEF IInv, PlaceInv, Listed, Active, Waiting
<1>4. Active \subseteq Node BY Apart DEF Active, Waiting
<1>5. \A k \in Active : timer'[k] = timer[k] BY <1>1, <1>3, <1>4, Apart
<1> QED BY <1>1, <1>2, <1>5, StepStutters

\* A timer is started.
LEMMA CreateClock ==
    ASSUME IInv, NEW c \in Client, os_time_create_entry(c)
    PROVE  Clock!ClockNext
<1>1. PICK n : n = got[c] OBVIOUS
<1>2. n # NULL /\ Activate(lst, n, timer[n].msec) /\ cur' = cur
  BY <1>1 DEF os_time_create_entry, taskVars
<1>3. /\ n \in Node /\ n # cur /\ n \notin Listed /\ timer[n].msec \in Delay
  BY <1>1, <1>2, Apart DEF IInv, PlaceInv, FieldInv
<1>4. /\ \A K \in List : n \notin On(lst, K)
      /\ \A k \in On(lst, "time") : timer[k].msec \in Delay
  BY <1>3, Names DEF Listed, IInv, FieldInv, Waiting
<1>5. /\ On(lst', "time") = On(lst, "time") \cup {n} /\ On(lst', "tmp") = On(lst, "tmp")
      /\ timer' \in [Node -> Struct] /\ \A k \in Node \ {n} : timer'[k] = timer[k]
      /\ timer'[n].due = timer[n].msec
  BY <1>2, <1>3, <1>4, Apart, ActivateIs
<1>6. /\ n \notin Waiting /\ n \notin Active
      /\ Active' = Active \cup {n} /\ Active \subseteq Node
  BY <1>2, <1>3, <1>5, Apart DEF Waiting, Active, Listed
<1>7. \A k \in Active : timer'[k] = timer[k] /\ k # n BY <1>5, <1>6
<1>8. Periodic' = Periodic \/ Periodic' = Periodic \cup {n} BY <1>6, <1>7 DEF Periodic
<1>9. Left' = [m \in On(lst, "time") \cup {n} |-> IF m = n THEN timer[n].msec ELSE Left[m]]
  <2>1. ~(timer[n].msec < 0) BY <1>3, Names
  <2>2. \A m \in On(lst, "time") : timer'[m] = timer[m] /\ m # n BY <1>7 DEF Active, Waiting
  <2>3. \A m \in On(lst, "time") \cup {n} : (IF timer'[m].due < 0 THEN 0 ELSE timer'[m].due)
           = IF m = n THEN timer[n].msec ELSE Left[m]
    BY <1>5, <2>1, <2>2 DEF Left
  <2> QED BY <1>5, <2>3 DEF Left
<1> QED BY <1>2, <1>3, <1>5, <1>6, <1>8, <1>9, ClockStart

\* One that is armed has to wait for another time.
LEMMA RestartClock ==
    ASSUME IInv, NEW c \in Client, NEW msec \in Delay, os_time_restart(c, msec)
    PROVE  Clock!ClockNext
<1>1. PICK n : n = handle[c] OBVIOUS
<1>2. PICK m : m = IF timer[n].lstid = "READY" THEN lstDelete(lst, "time", n) ELSE lst OBVIOUS
<1>3. n # NULL /\ Found(n) /\ Activate(m, n, msec) /\ cur' = cur
  BY <1>1, <1>2 DEF os_time_restart, taskVars
<1>4. n \in Node /\ n \in On(lst, "time") /\ n # cur BY <1>1, <1>3, FoundIs
<1>5. /\ Sound(m) /\ \A K \in List : n \notin On(m, K)
      /\ On(m, "time") = On(lst, "time") \ {n} /\ On(m, "tmp") = On(lst, "tmp")
  BY <1>1, <1>2, <1>3, RestartTakes
<1>6. \A k \in On(m, "time") : timer[k].msec \in Delay
  BY <1>5, Apart DEF IInv, FieldInv, Waiting
<1>7. /\ On(lst', "time") = On(m, "time") \cup {n} /\ On(lst', "tmp") = On(m, "tmp")
      /\ timer' \in [Node -> Struct] /\ \A k \in Node \ {n} : timer'[k] = timer[k]
      /\ timer'[n].due = msec /\ timer'[n].type = timer[n].type
  BY <1>3, <1>4, <1>5, <1>6, Apart, ActivateIs
<1>8. /\ On(lst', "time") = On(lst, "time") /\ On(lst', "time") = On(lst, "time") \cup {n}
      /\ On(lst', "tmp") = On(lst, "tmp") /\ Active' = Active /\ Active \subseteq Node
      /\ On(lst, "time") \subseteq Node
  BY <1>3, <1>4, <1>5, <1>7, Apart DEF Waiting, Active
<1>9. \A k \in Active : timer'[k].type = timer[k].type BY <1>7, <1>8
<1>10. Periodic' = Periodic BY <1>8, <1>9 DEF Periodic
<1>11. Left' = [k \in On(lst, "time") \cup {n} |-> IF k = n THEN msec ELSE Left[k]]
  <2>1. ~(msec < 0) BY Names
  <2>2. \A k \in On(lst, "time") \ {n} : timer'[k] = timer[k] BY <1>7, <1>8
  <2>3. \A k \in On(lst, "time") \cup {n} : (IF timer'[k].due < 0 THEN 0 ELSE timer'[k].due)
           = IF k = n THEN msec ELSE Left[k]
    BY <1>4, <1>7, <2>1, <2>2 DEF Left
  <2> QED BY <1>8, <2>3 DEF Left
<1> QED BY <1>3, <1>4, <1>8, <1>10, <1>11, ClockRestart

\* A timer that is found is armed, and is stopped.  One that has been collected
\* or runs is not found, and nothing happens.
LEMMA StopClock ==
    ASSUME IInv, NEW c \in Client, os_time_destroy(c) \/ os_time_cancel(c)
    PROVE  [Clock!ClockNext]_(Clock!clockVars)
<1>1. PICK n : n = handle[c] OBVIOUS
<1>2. n # NULL /\ cur' = cur BY <1>1 DEF os_time_destroy, os_time_cancel, taskVars
<1>3. CASE Found(n)
  <2>1. lst' = ToUnuse(lst, n) BY <1>1, <1>3 DEF os_time_destroy, os_time_cancel
  <2>2. n \in Node /\ n \in On(lst, "time") /\ n # cur BY <1>1, <1>2, <1>3, FoundIs
  <2>3. \A k \in Node \ {n} : timer'[k] = timer[k]
    <3>1. CASE os_time_destroy(c)
      <4>1. timer' = [timer EXCEPT ![n] = Unused] BY <1>1, <1>3, <3>1 DEF os_time_destroy
      <4> QED BY <2>2, <4>1, Apart
    <3>2. CASE os_time_cancel(c)
      <4>1. timer' = [timer EXCEPT ![n] = Cancelled(timer[n])]
        BY <1>1, <1>3, <3>2 DEF os_time_cancel
      <4> QED BY <2>2, <4>1, Apart
    <3> QED BY <3>1, <3>2
  <2>4. On(lst', "time") = On(lst, "time") \ {n} /\ On(lst', "tmp") = On(lst, "tmp")
    BY <2>1, <2>2, ToUnuseIs
  <2>5. Active' = Active \ {n} /\ Active \subseteq Node /\ On(lst, "time") \subseteq Node
    BY <1>2, <2>2, <2>4, Apart DEF Waiting, Active
  <2>6. \A k \in Active \ {n} : timer'[k] = timer[k] BY <2>3, <2>5
  <2>7. Periodic' = Periodic \ {n} BY <2>5, <2>6 DEF Periodic
  <2>8. Left' = [m \in On(lst, "time") \ {n} |-> Left[m]]
    <3>1. \A m \in On(lst, "time") \ {n} : timer'[m] = timer[m] BY <2>3, <2>5
    <3> QED BY <2>4, <3>1 DEF Left
  <2> QED BY <1>2, <2>2, <2>4, <2>7, <2>8, ClockStop
<1>4. CASE ~Found(n)
  <2>1. lst' = lst /\ timer' = timer BY <1>1, <1>4 DEF os_time_destroy, os_time_cancel
  <2> QED BY <1>2, <2>1, StepStutters
<1> QED BY <1>3, <1>4

\* A timer that is due is collected.
LEMMA CollectClock ==
    ASSUME IInv, CollectNext
    PROVE  [Clock!ClockNext]_(Clock!clockVars)
<1>1. PICK n : n = walk OBVIOUS
<1>2. timer' = timer /\ cur' = cur BY DEF CollectNext
<1>3. CASE IsDue(n)
  <2>1. /\ n \in On(lst, "time") /\ On(lst', "time") = On(lst, "time") \ {n}
        /\ On(lst', "tmp") = On(lst, "tmp") \cup {n}
    BY <1>1, <1>3, CollectNextIs
  <2>2. n \in Node /\ timer[n].due \in -1..MaxDelay BY <2>1, Apart, DueIs
  <2>3. Left[n] = 0
    <3>1. timer[n].due <= 0 BY <1>3 DEF IsDue
    <3> QED BY <2>1, <2>2, <3>1, Names DEF Left
  <2>4. Active' = Active BY <1>2, <2>1 DEF Active, Waiting
  <2>5. Periodic' = Periodic BY <1>2, <2>4 DEF Periodic
  <2>6. Left' = [m \in On(lst, "time") \ {n} |-> Left[m]] BY <1>2, <2>1 DEF Left
  <2> QED BY <1>2, <2>1, <2>2, <2>3, <2>5, <2>6, ClockCollect
<1>4. CASE ~IsDue(n)
  <2>1. lst' = lst BY <1>1, <1>4, CollectNextIs
  <2> QED BY <1>2, <2>1, StepStutters
<1> QED BY <1>3, <1>4

\* A timer that has been collected runs when no other one runs.
LEMMA RunTimerClock ==
    ASSUME IInv, RunTimer
    PROVE  Clock!ClockNext
<1>1. PICK n : n = walk OBVIOUS
<1>2. pc = "run" /\ timer' = [timer EXCEPT ![n] = Called(timer[n])] /\ cur' = n
  BY <1>1 DEF RunTimer
<1>3. /\ n \in On(lst, "tmp") /\ n \in Node /\ n # NULL
      /\ On(lst', "tmp") = On(lst, "tmp") \ {n} /\ On(lst', "time") = On(lst, "time")
  BY <1>1, RunTimerIs, Names
<1>4. cur = NULL BY <1>2 DEF IInv, PlaceInv
<1>5. Called(timer[n]).type = timer[n].type
  <2>1. timer[n] \in Struct BY <1>3, Apart
  <2> QED BY <2>1, CalledOnce, CalledAgain
<1>6. \A k \in Node : timer'[k].type = timer[k].type /\ (k # n => timer'[k] = timer[k])
  BY <1>2, <1>3, <1>5, Apart
<1>7. /\ Active' = Active /\ Active \subseteq Node
      /\ \A m \in On(lst, "time") : m \in Node /\ m # n
  BY <1>2, <1>3, <1>4, Apart DEF Waiting, Active
<1>8. Periodic' = Periodic BY <1>6, <1>7 DEF Periodic
<1>9. Left' = Left
  <2>1. \A m \in On(lst, "time") : timer'[m] = timer[m] BY <1>6, <1>7
  <2> QED BY <1>3, <2>1 DEF Left
<1> QED BY <1>2, <1>3, <1>4, <1>8, <1>9, ClockFire

\* Its callback returns: a periodic timer waits again.
LEMMA ReturnClock ==
    ASSUME IInv, CallbackReturns
    PROVE  Clock!ClockNext
<1>1. PICK n : n = cur OBVIOUS
<1>2. pc = "called" /\ cur' = NULL BY DEF CallbackReturns
<1>3. /\ n \in Node /\ n # NULL /\ n \notin Listed /\ timer[n].msec \in Delay /\ timer[n] \in Struct
  BY <1>1, <1>2, Apart DEF IInv, PlaceInv, FieldInv
<1>4. (\A k \in Node \ {n} : timer'[k] = timer[k]) /\ On(lst', "tmp") = On(lst, "tmp")
  BY <1>1, ReturnIs
<1>5. /\ Waiting \subseteq Node \ {n} /\ Active = Waiting \cup {n} /\ Active' = Waiting'
  BY <1>1, <1>2, <1>3, Apart DEF Waiting, Active, Listed
<1>6. \A k \in Waiting : timer'[k] = timer[k] BY <1>4, <1>5
<1>7. CASE timer[n].type = "ONCE"
  <2>1. On(lst', "time") = On(lst, "time") BY <1>1, <1>7, ReturnIs
  <2>2. Left' = Left BY <1>6, <2>1 DEF Left, Waiting
  <2>3. Waiting' = Waiting BY <1>4, <2>1 DEF Waiting
  <2>4. Periodic' = Periodic /\ n \notin Periodic BY <1>5, <1>6, <1>7, <2>3 DEF Periodic
  <2> QED BY <1>1, <1>2, <1>3, <1>4, <2>2, <2>4, ClockReturn
<1>8. CASE timer[n].type # "ONCE"
  <2>1. timer[n].type = "DEFAULT" BY <1>3, <1>8 DEF Struct
  <2>2. /\ On(lst', "time") = On(lst, "time") \cup {n} /\ timer'[n].due = timer[n].msec
        /\ timer'[n].type = "DEFAULT"
    BY <1>1, <2>1, ReturnIs
  <2>3. Waiting' = Waiting \cup {n} BY <1>4, <2>2 DEF Waiting
  <2>4. Periodic' = Periodic /\ n \in Periodic BY <1>5, <1>6, <2>1, <2>2, <2>3 DEF Periodic
  <2>5. Left' = [m \in On(lst, "time") \cup {n} |-> IF m = n THEN timer[n].msec ELSE Left[m]]
    <3>1. ~(timer[n].msec < 0)
      <4>1. timer[n].msec \in Delay BY <1>3
      <4> QED BY <4>1, Names DEF Delay
    <3>2. \A m \in On(lst, "time") : timer'[m] = timer[m] /\ m # n
      BY <1>5, <1>6 DEF Waiting
    <3>3. \A m \in On(lst, "time") \cup {n} : (IF timer'[m].due < 0 THEN 0 ELSE timer'[m].due)
             = IF m = n THEN timer[n].msec ELSE Left[m]
      BY <2>2, <3>1, <3>2 DEF Left
    <3> QED BY <2>2, <3>3 DEF Left
  <2> QED BY <1>1, <1>2, <1>3, <1>4, <2>4, <2>5, ClockReturn
<1> QED BY <1>7, <1>8

\* A millisecond passes for all of them.
LEMMA TickClock ==
    ASSUME IInv, Tick
    PROVE  Clock!ClockNext
<1>1. lst' = lst /\ cur' = cur BY DEF Tick
<1>2. /\ Waiting' = Waiting /\ Active' = Active /\ Active \subseteq Node
      /\ On(lst, "time") \subseteq Node /\ On(lst, "time") \subseteq Waiting
  BY <1>1, Apart DEF Waiting, Active
<1>3. \A n \in Node :
         /\ timer'[n].type = timer[n].type /\ timer[n].due \in -1..MaxDelay
         /\ timer'[n].due = IF n \in Waiting /\ timer[n].due > -1
                            THEN timer[n].due - 1 ELSE timer[n].due
  BY TickIs, Apart, DueIs
<1>4. Periodic' = Periodic BY <1>2, <1>3 DEF Periodic
<1>5. Left' = [n \in On(lst, "time") |-> IF Left[n] = 0 THEN 0 ELSE Left[n] - 1]
  <2>1. \A n \in On(lst, "time") : (IF timer'[n].due < 0 THEN 0 ELSE timer'[n].due)
           = IF Left[n] = 0 THEN 0 ELSE Left[n] - 1
    <3> SUFFICES ASSUME NEW n \in On(lst, "time")
                 PROVE  (IF timer'[n].due < 0 THEN 0 ELSE timer'[n].due)
                           = IF Left[n] = 0 THEN 0 ELSE Left[n] - 1
      OBVIOUS
    <3>1. Left[n] = IF timer[n].due < 0 THEN 0 ELSE timer[n].due BY DEF Left
    <3>2. timer[n].due \in Int /\ timer[n].due >= -1 BY <1>2, <1>3, Names
    <3>3. timer'[n].due = IF timer[n].due > -1 THEN timer[n].due - 1 ELSE timer[n].due
      BY <1>2, <1>3
    <3> QED BY <3>1, <3>2, <3>3
  <2> QED BY <1>1, <2>1 DEF Left
<1> QED BY <1>1, <1>4, <1>5, ClockPass

\* The other steps of timeTask between one callback and the next, and the end of
\* os_time_create_entry.
LEMMA TaskClock ==
    ASSUME IInv, \/ TakeSem \/ Interrupted \/ Collect \/ CollectEnd \/ Callback \/ EndLoop
                 \/ \E c \in Client : create_returns(c)
    PROVE  UNCHANGED Clock!clockVars
<1>1. timer' = timer /\ cur' = cur /\ lst' = lst
  BY DEF TakeSem, Interrupted, Collect, CollectEnd, Callback, EndLoop, create_returns, taskVars
<1> QED BY <1>1, StepStutters

\* Every step of os_time is one of AlarmClock, or none.
LEMMA NextClock ==
    ASSUME IInv, [Next]_vars
    PROVE  [Clock!ClockNext]_(Clock!clockVars)
<1>1. ASSUME NEW c \in Client, NEW msec \in Delay, NEW type \in Types(c),
             os_time_get_node(c, type, msec)
      PROVE  [Clock!ClockNext]_(Clock!clockVars)
  BY <1>1, GetNodeClock
<1>2. ASSUME NEW c \in Client,
             os_time_create_entry(c) \/ create_returns(c) \/ os_time_destroy(c) \/ os_time_cancel(c)
      PROVE  [Clock!ClockNext]_(Clock!clockVars)
  BY <1>2, CreateClock, StopClock, TaskClock
<1>3. ASSUME NEW c \in Client, NEW msec \in Delay, os_time_restart(c, msec)
      PROVE  [Clock!ClockNext]_(Clock!clockVars)
  BY <1>3, RestartClock
<1>4. CASE task BY <1>4, TaskClock, CollectClock, RunTimerClock, ReturnClock DEF task
<1>5. CASE Interrupted BY <1>5, TaskClock
<1>6. CASE Tick BY <1>6, TickClock
<1>7. CASE UNCHANGED vars
  <2>1. lst' = lst /\ timer' = timer /\ cur' = cur BY <1>7 DEF vars
  <2> QED BY <2>1, StepStutters
<1> QED BY <1>1, <1>2, <1>3, <1>4, <1>5, <1>6, <1>7 DEF Next

\* os_time keeps what AlarmClock promises: a timer never runs early, after it
\* has been stopped in time, or twice for one arming, and periodic timers are
\* armed again, whatever the other tasks do while callbacks run.
THEOREM SpecImplementsAlarmClock ==
    ASSUME Canceller = {}
    PROVE  Spec => ImplementsAlarmClock
<1>1. Init => Clock!ClockInit
  <2> SUFFICES ASSUME Init PROVE Clock!ClockInit
    OBVIOUS
  <2>1. lst = EmptyLists /\ cur = NULL BY DEF Init
  <2>2. On(lst, "time") = {} /\ On(lst, "tmp") = {} BY <2>1, SoundEmpty, Names
  <2> QED BY <2>1, <2>2 DEF Clock!ClockInit, Waiting
<1>2. IInv /\ [Next]_vars => [Clock!ClockNext]_(Clock!clockVars) BY NextClock
<1> QED BY <1>1, <1>2, SpecInv, PTL DEF Spec, ImplementsAlarmClock, Clock!ClockSpec
=============================================================================
