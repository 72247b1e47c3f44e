--------------------------- MODULE ThreadDataProofs ---------------------------
(***************************************************************************)
(* Theorems about what the structs of Thread hold: the descriptors in the  *)
(* fd sets, the count of allocations, and the order of the timers, and the *)
(* refinement of EventLoop.  They rest on the inductive invariant of       *)
(* ThreadProofs, which says on which list each struct is.  For the first   *)
(* three the steps of the loop are sorted by what they do to the structs   *)
(* (Kinds); each theorem looks at those kinds.                             *)
(***************************************************************************)
EXTENDS ThreadProofs, FiniteSetTheorems

-----------------------------------------------------------------------------
(* What a step does to the structs *)

\* A struct is scheduled for a descriptor, a time or an event.
AddFd ==
    \E t \in Thread, dir \in FdType, a \in Client, f \in Fd :
        thread_add_read_write(t, dir, a, f)

AddTimer ==
    \E t \in Thread, ty \in TimerType, a \in Client, d \in 0..MaxDelay :
        thread_add_timer(t, ty, a, d)

AddEvent ==
    \E t \in Thread, ty \in {"EVENT", "READY"}, a \in Client \cup {NULL} :
        thread_add_event(t, ty, a)

\* It leaves its list for the unuse list.
Withdraw ==
    \E t \in Thread :
        /\ type[t] \in Pending /\ t # cur
        /\ Unschedule(t)
        /\ fdset' = IF type[t] \in FdType
                    THEN [fdset EXCEPT ![type[t]] = @ \ {fd[t]}] ELSE fdset
        /\ alloc' = alloc

\* Its time has come, or its descriptor is reported.
MadeReady(ty, i) ==
    /\ MoveToReady(ty, i)
    /\ ty \in TimerType => i = 1 /\ sands[list[ty][1]] <= 0
    /\ fdset' = IF ty \in FdType
                THEN [fdset EXCEPT ![ty] = @ \ {fd[list[ty][i]]}] ELSE fdset
    /\ UNCHANGED <<add_type, fd, sands, alloc>>

Wake == \E ty \in Pending \ {"READY", "EVENT"} : \E i \in DOMAIN list[ty] : MadeReady(ty, i)

\* It goes from the ready list to the loop task, or nothing happens to it.
Rest ==
    /\ UNCHANGED <<type, add_type, fd, fdset, sands, alloc>>
    /\ \A l \in ListType \ {"READY"} : list'[l] = list[l]

\* Steps at which the loop goes on, none of which is possible once the master
\* has been freed but Tick and Rest.
Busy == AddFd \/ AddTimer \/ AddEvent \/ Withdraw \/ FetchEvents \/ Wake \/ CallReturn

\* The kinds of steps there are.
Kinds ==
    \/ Busy /\ pc # "freed" /\ pc' # "freed"
    \/ Tick
    \/ Rest /\ (pc' = "freed" <=> pc = "freed")
    \/ thread_master_free

\* User code schedules, cancels, or does nothing to the structs.
LEMMA UserCodeKinds == ASSUME IInv, UserCode PROVE Kinds
<1>0. InUserCode => pc # "freed" BY DEF InUserCode
<1>1. ASSUME NEW c \in Client, UserAddReadWrite(c) PROVE Kinds
  <2>1. AddFd BY <1>1 DEF UserAddReadWrite, AddFd
  <2>2. InUserCode /\ pc' = pc BY <1>1 DEF UserAddReadWrite
  <2> QED BY <2>1, <2>2, <1>0 DEF Kinds, Busy
<1>2. ASSUME NEW c \in Client, UserAddTimer(c) PROVE Kinds
  <2>1. AddTimer BY <1>2 DEF UserAddTimer, AddTimer
  <2>2. InUserCode /\ pc' = pc BY <1>2 DEF UserAddTimer
  <2> QED BY <2>1, <2>2, <1>0 DEF Kinds, Busy
<1>3. ASSUME NEW c \in Client, UserAddEvent(c) PROVE Kinds
  <2>1. AddEvent BY <1>3 DEF UserAddEvent, AddEvent
  <2>2. InUserCode /\ pc' = pc BY <1>3 DEF UserAddEvent
  <2> QED BY <2>1, <2>2, <1>0 DEF Kinds, Busy
<1>4. ASSUME NEW c \in Client, UserOff(c) PROVE Kinds
  <2> DEFINE t == handle[c]
  <2>1. InUserCode /\ pc' = pc /\ t # NULL /\ thread_cancel(t) BY <1>4 DEF UserOff
  <2>2. t \in Thread /\ type[t] \in Pending /\ t # cur
    BY <2>1 DEF IInv, TypeOK, HandleInv, InUserCode
  <2> HIDE DEF t
  <2>3. Withdraw BY <2>1, <2>2 DEF thread_cancel, Withdraw
  <2> QED BY <2>1, <2>3, <1>0 DEF Kinds, Busy
<1>5. CASE UserAddReady
  <2>1. AddEvent BY <1>5 DEF UserAddReady, AddEvent
  <2>2. InUserCode /\ pc' = pc BY <1>5 DEF UserAddReady
  <2> QED BY <2>1, <2>2, <1>0 DEF Kinds, Busy
<1>6. CASE UserCancelEvent
  <2>1. Rest /\ pc = "func" /\ pc' = "cancelev"
    BY <1>6 DEF UserCancelEvent, schedVars, Rest
  <2> QED BY <2>1 DEF Kinds
<1> QED BY <1>1, <1>2, <1>3, <1>4, <1>5, <1>6 DEF UserCode

\* An iteration of thread_timer_process pops the head of the queue.
LEMMA TimerPopKinds ==
    ASSUME IInv, NEW ty \in TimerType, NEW at \in LockedPc, NEW next \in LockedPc,
           TimerPop(ty, at, next)
    PROVE  Kinds
<1>0. at # "freed" /\ next # "freed" /\ pc = at BY DEF LockedPc, TimerPop
<1>1. CASE list[ty] # <<>> /\ timer_due(Head(list[ty]))
  <2>1. ty \in Pending \ {"READY", "EVENT"} /\ ty \in ListType /\ ty \notin FdType
    BY DEF Pending, ListType, FdType, TimerType
  <2>2. 1 \in DOMAIN list[ty] /\ Head(list[ty]) = list[ty][1]
    <3>1. list[ty] \in Seq(Thread) BY <2>1 DEF IInv, TypeOK
    <3> QED BY <3>1, <1>1
  <2>3. /\ MoveToReady(ty, 1) /\ pc' = pc
        /\ UNCHANGED <<add_type, fd, sands, alloc>> /\ fdset' = fdset
    BY <1>1 DEF TimerPop
  <2>4. MadeReady(ty, 1) BY <1>1, <2>1, <2>2, <2>3 DEF MadeReady, timer_due
  <2> QED BY <2>1, <2>2, <2>3, <2>4, <1>0 DEF Kinds, Busy, Wake
<1>2. CASE ~(list[ty] # <<>> /\ timer_due(Head(list[ty])))
  BY <1>0, <1>2 DEF TimerPop, Kinds, Rest
<1> QED BY <1>1, <1>2

\* An iteration of thread_process_fds_helper takes its descriptor from the set.
LEMMA ProcessFdsKinds ==
    ASSUME NEW dir \in FdType, NEW at \in LockedPc, NEW next \in LockedPc,
           ProcessFds(dir, at, next)
    PROVE  Kinds
<1>0. at # "freed" /\ next # "freed" /\ pc = at BY DEF LockedPc, ProcessFds
<1>1. dir \in Pending \ {"READY", "EVENT"} /\ dir \notin TimerType
  BY DEF Pending, FdType, TimerType
<1>2. ASSUME NEW i \in Reported(dir), MoveToReady(dir, i), pc' = pc,
             fdset' = [fdset EXCEPT ![dir] = @ \ {fd[list[dir][i]]}]
      PROVE  Kinds
  <2>1. i \in DOMAIN list[dir] BY DEF Reported
  <2>2. MadeReady(dir, i) BY <1>1, <1>2 DEF MadeReady, ProcessFds
  <2> QED BY <1>0, <1>1, <1>2, <2>1, <2>2 DEF Kinds, Busy, Wake
<1>3. CASE pc' = next /\ UNCHANGED <<list, type, fdset>>
  BY <1>0, <1>3 DEF ProcessFds, Kinds, Rest
<1> QED BY <1>2, <1>3 DEF ProcessFds

\* The steps of the loop task by itself.
LEMMA LoopStepKinds == ASSUME IInv, LoopStep PROVE Kinds
<1>1. CASE StartLoop \/ FetchQuit \/ LoopCheck \/ CancelEventDone \/ CallEnter
  <2>1. Rest BY <1>1 DEF StartLoop, FetchQuit, LoopCheck, CancelEventDone, CallEnter,
                         schedVars, Rest
  <2>2. pc # "freed" /\ pc' # "freed"
    BY <1>1 DEF StartLoop, FetchQuit, LoopCheck, CancelEventDone, CallEnter
  <2> QED BY <2>1, <2>2 DEF Kinds
<1>2. CASE FetchReady \/ FetchTrim
  <2>1. \A l \in ListType \ {"READY"} : list'[l] = list[l]
    BY <1>2 DEF FetchReady, FetchTrim, TrimReady, IInv, TypeOK
  <2>2. pc # "freed" /\ pc' # "freed" BY <1>2 DEF FetchReady, FetchTrim, TrimReady
  <2> QED BY <1>2, <2>1, <2>2 DEF FetchReady, FetchTrim, Kinds, Rest
<1>3. CASE FetchEvents
  <2>1. pc # "freed" /\ pc' # "freed" BY <1>3 DEF FetchEvents
  <2> QED BY <1>3, <2>1 DEF Kinds, Busy
<1>4. CASE ProcessTimers \/ ProcessBackground
  BY <1>4, TimerPopKinds DEF ProcessTimers, ProcessBackground, TimerType, LockedPc
<1>5. CASE ProcessReadFds \/ ProcessWriteFds
  BY <1>5, ProcessFdsKinds DEF ProcessReadFds, ProcessWriteFds, FdType, LockedPc
<1>6. CASE CancelEventStep
  <2>1. PICK t \in FirstWithNullArg(list["EVENT"]) \cup FirstWithNullArg(list["READY"]) :
           Unschedule(t)
    BY <1>6 DEF CancelEventStep
  <2>2. t \in Thread /\ type[t] \in {"EVENT", "READY"} /\ t # cur
    <3>1. PICK l \in {"EVENT", "READY"} : t \in FirstWithNullArg(list[l]) OBVIOUS
    <3>2. t \in Elems(list[l]) BY <3>1 DEF FirstWithNullArg, Elems
    <3>3. l \in ListType BY TypesDiffer
    <3>4. t \in Thread BY <3>2, <3>3 DEF IInv, TypeOK, Elems
    <3> QED BY <3>2, <3>3, <3>4 DEF IInv, ListInv
  <2>3. type[t] \in Pending /\ type[t] \notin FdType BY <2>2 DEF Pending, FdType
  <2>4. pc = "cancelev" /\ pc' = pc /\ alloc' = alloc /\ fdset' = fdset
    BY <1>6 DEF CancelEventStep
  <2>5. Withdraw BY <2>1, <2>2, <2>3, <2>4 DEF Withdraw
  <2> QED BY <2>4, <2>5 DEF Kinds, Busy
<1> QED BY <1>1, <1>2, <1>3, <1>4, <1>5, <1>6 DEF LoopStep

\* Every step is of one of these kinds.
LEMMA NextKinds == ASSUME IInv, [Next]_vars PROVE Kinds
<1>1. CASE UserCode BY <1>1, UserCodeKinds
<1>2. CASE LoopStep BY <1>2, LoopStepKinds
<1>3. CASE SelectIntr \/ SelectError \/ SelectReturn
  <2>1. pc # "freed" /\ pc' # "freed" BY <1>3 DEF SelectIntr, SelectError, SelectReturn
  <2> QED BY <1>3, <2>1 DEF SelectIntr, SelectError, SelectReturn, schedVars, Kinds, Rest
<1>4. CASE CallReturn
  <2>1. pc # "freed" /\ pc' # "freed" BY <1>4 DEF CallReturn
  <2> QED BY <1>4, <2>1 DEF Kinds, Busy
<1>5. CASE thread_master_free BY <1>5 DEF Kinds
<1>6. CASE Post
  <2>1. AddEvent BY <1>6 DEF Post, AddEvent
  <2> QED BY <1>6, <2>1 DEF Post, Kinds, Busy
<1>7. CASE thread_fetch_quit
  BY <1>7 DEF thread_fetch_quit, schedVars, Kinds, Rest
<1>8. CASE Tick BY <1>8 DEF Kinds
<1>9. CASE UNCHANGED vars
  BY <1>9 DEF vars, Kinds, Rest
<1> QED BY <1>1, <1>2, <1>3, <1>4, <1>5, <1>6, <1>7, <1>8, <1>9 DEF Next

\* What thread_get hands out is not scheduled, and on no list but the unuse list.
LEMMA Fetched ==
    ASSUME IInv, NEW t \in Thread, NEW ty \in Pending, NEW a, thread_get(t, ty, a)
    PROVE  /\ type[t] \in {"UNUSED", "FREE"}
           /\ \A l \in Pending : t \notin Elems(list[l])
           /\ type' = [type EXCEPT ![t] = ty]
           /\ add_type' = [add_type EXCEPT ![t] = ty]
<1>1. t \in thread_get_candidates BY DEF thread_get
<1>2. t # cur /\ type[t] \in {"UNUSED", "FREE"}
  BY <1>1, CandidateFree DEF IInv, TypeOK, ListType_OK
<1>3. \A l \in Pending : t \notin Elems(list[l])
  BY <1>2, TypesDiffer DEF IInv, ListInv
<1> QED BY <1>2, <1>3 DEF thread_get

\* What becomes ready is on the list its type names.
LEMMA Woken ==
    ASSUME IInv, NEW ty \in Pending \ {"READY"}, NEW i \in DOMAIN list[ty],
           MoveToReady(ty, i)
    PROVE  /\ list[ty][i] \in Thread /\ list[ty][i] \in Elems(list[ty])
           /\ type[list[ty][i]] = ty
           /\ type' = [type EXCEPT ![list[ty][i]] = "READY"]
<1>1. ty \in ListType BY TypesDiffer
<1>2. list[ty][i] \in Elems(list[ty]) BY DEF Elems
<1>3. list[ty] \in Seq(Thread) BY <1>1 DEF IInv, TypeOK
<1>4. list[ty][i] \in Thread BY <1>3
<1> QED BY <1>1, <1>2, <1>4 DEF IInv, ListInv, MoveToReady

\* Once the master is freed so is every struct.
LEMMA AllFree == ASSUME IInv', thread_master_free
                 PROVE  \A t \in Thread : type'[t] = "FREE"
<1> SUFFICES ASSUME NEW t \in Thread, type'[t] # "FREE" PROVE FALSE OBVIOUS
<1>1. list' = [l \in ListType |-> <<>>] /\ pc' = "freed" BY DEF thread_master_free
<1>2. type'[t] \in ListType BY DEF IInv, TypeOK
<1>3. cur' = NULL BY <1>1 DEF IInv, ListInv
<1>4. t \in Elems(list'[type'[t]]) BY <1>2, <1>3, ConstAssumption DEF IInv, ListInv
<1> QED BY <1>1, <1>2, <1>4, EmptyElems

-----------------------------------------------------------------------------
(* Descriptors.  What the fd sets hold is said of types, not of lists: the  *)
(* lists follow from ListInv.                                               *)

FdOfType ==
    \A d \in FdType :
        /\ \A t \in Thread : type[t] = d => fd[t] \in fdset[d]
        /\ \A f \in fdset[d] : \E t \in Thread : type[t] = d /\ fd[t] = f
        /\ \A s, t \in Thread : type[s] = d /\ type[t] = d /\ fd[s] = fd[t] => s = t

\* The types and descriptors of what waits for one are unchanged.
LEMMA FdQuiet ==
    ASSUME FdOfType, fdset' = fdset,
           \A t \in Thread, d \in FdType : type'[t] = d <=> type[t] = d,
           \A t \in Thread : type[t] \in FdType => fd'[t] = fd[t]
    PROVE  FdOfType'
BY DEF FdOfType

\* A thread that waits for a descriptor is scheduled.
LEMMA FdAdded == ASSUME IInv, FdOfType, AddFd PROVE FdOfType'
<1>1. PICK t \in Thread, dir \in FdType, a \in Client, f \in Fd :
         thread_add_read_write(t, dir, a, f)
  BY DEF AddFd
<1>2. dir \in Pending BY TypesDiffer
<1>3. /\ f \notin fdset[dir] /\ thread_get(t, dir, a)
      /\ fdset' = [fdset EXCEPT ![dir] = @ \cup {f}] /\ fd' = [fd EXCEPT ![t] = f]
  BY <1>1 DEF thread_add_read_write
<1>4. type[t] \in {"UNUSED", "FREE"} /\ type' = [type EXCEPT ![t] = dir]
  BY <1>2, <1>3, Fetched
<1>5. /\ fdset \in [FdType -> SUBSET Fd] /\ fd \in [Thread -> Fd \cup {NULL}]
      /\ type \in [Thread -> ListType \cup {"FREE"}]
  BY DEF IInv, TypeOK
<1>6. "UNUSED" \notin FdType /\ "FREE" \notin FdType BY TypesDiffer
<1>7. /\ type'[t] = dir /\ fd'[t] = f /\ fdset'[dir] = fdset[dir] \cup {f}
      /\ \A u \in Thread \ {t} : type'[u] = type[u] /\ fd'[u] = fd[u]
      /\ \A d \in FdType \ {dir} : fdset'[d] = fdset[d]
  BY <1>3, <1>4, <1>5
<1> SUFFICES ASSUME NEW d \in FdType
    PROVE  /\ \A u \in Thread : type'[u] = d => fd'[u] \in fdset'[d]
           /\ \A g \in fdset'[d] : \E u \in Thread : type'[u] = d /\ fd'[u] = g
           /\ \A s, u \in Thread : type'[s] = d /\ type'[u] = d /\ fd'[s] = fd'[u] => s = u
  BY DEF FdOfType
<1>8. /\ \A u \in Thread : type[u] = d => fd[u] \in fdset[d]
      /\ \A g \in fdset[d] : \E u \in Thread : type[u] = d /\ fd[u] = g
      /\ \A s, u \in Thread : type[s] = d /\ type[u] = d /\ fd[s] = fd[u] => s = u
  BY DEF FdOfType
<1>9. type[t] # d BY <1>4, <1>6
<1>10. \A u \in Thread : type'[u] = d => fd'[u] \in fdset'[d] BY <1>7, <1>8
<1>11. ASSUME NEW g \in fdset'[d] PROVE \E u \in Thread : type'[u] = d /\ fd'[u] = g
  <2>1. CASE d = dir /\ g = f BY <2>1, <1>7
  <2>2. CASE ~(d = dir /\ g = f)
    <3>1. g \in fdset[d] BY <2>2, <1>7, <1>11
    <3>2. PICK u \in Thread : type[u] = d /\ fd[u] = g BY <3>1, <1>8
    <3> QED BY <3>2, <1>7, <1>9
  <2> QED BY <2>1, <2>2
<1>12. \A s, u \in Thread : type'[s] = d /\ type'[u] = d /\ fd'[s] = fd'[u] => s = u
  BY <1>3, <1>7, <1>8
<1> QED BY <1>10, <1>11, <1>12

\* A thread that waited for a descriptor no longer does.
LEMMA FdDropped ==
    ASSUME IInv, FdOfType, NEW t \in Thread, NEW dir \in FdType, type[t] = dir,
           NEW new \in {"READY", "UNUSED"}, type' = [type EXCEPT ![t] = new],
           \A u \in Thread \ {t} : fd'[u] = fd[u],
           fdset' = [fdset EXCEPT ![dir] = @ \ {fd[t]}]
    PROVE  FdOfType'
<1>1. fdset \in [FdType -> SUBSET Fd] /\ type \in [Thread -> ListType \cup {"FREE"}]
  BY DEF IInv, TypeOK
<1>2. new \notin FdType BY TypesDiffer
<1>3. /\ type'[t] = new /\ fdset'[dir] = fdset[dir] \ {fd[t]}
      /\ \A u \in Thread \ {t} : type'[u] = type[u] /\ fd'[u] = fd[u]
      /\ \A d \in FdType \ {dir} : fdset'[d] = fdset[d]
  BY <1>1
<1> SUFFICES ASSUME NEW d \in FdType
    PROVE  /\ \A u \in Thread : type'[u] = d => fd'[u] \in fdset'[d]
           /\ \A g \in fdset'[d] : \E u \in Thread : type'[u] = d /\ fd'[u] = g
           /\ \A s, u \in Thread : type'[s] = d /\ type'[u] = d /\ fd'[s] = fd'[u] => s = u
  BY DEF FdOfType
<1>4. /\ \A u \in Thread : type[u] = d => fd[u] \in fdset[d]
      /\ \A g \in fdset[d] : \E u \in Thread : type[u] = d /\ fd[u] = g
      /\ \A s, u \in Thread : type[s] = d /\ type[u] = d /\ fd[s] = fd[u] => s = u
  BY DEF FdOfType
<1>5. \A u \in Thread : type'[u] = d => u # t /\ type[u] = d /\ fd'[u] = fd[u]
  BY <1>2, <1>3
<1>6. \A u \in Thread : type'[u] = d => fd'[u] \in fdset'[d] BY <1>3, <1>4, <1>5
<1>7. ASSUME NEW g \in fdset'[d] PROVE \E u \in Thread : type'[u] = d /\ fd'[u] = g
  <2>1. g \in fdset[d] /\ (d = dir => g # fd[t]) BY <1>3, <1>7
  <2>2. PICK u \in Thread : type[u] = d /\ fd[u] = g BY <2>1, <1>4
  <2>3. u # t BY <2>1, <2>2
  <2> QED BY <2>2, <2>3, <1>3
<1>8. \A s, u \in Thread : type'[s] = d /\ type'[u] = d /\ fd'[s] = fd'[u] => s = u
  BY <1>4, <1>5
<1> QED BY <1>6, <1>7, <1>8

\* Every step keeps the descriptors.
LEMMA NextFds == ASSUME IInv, IInv', FdOfType, [Next]_vars PROVE FdOfType'
<1>0. /\ type \in [Thread -> ListType \cup {"FREE"}]
      /\ "UNUSED" \notin FdType /\ "FREE" \notin FdType /\ "READY" \notin FdType
      /\ "EVENT" \notin FdType /\ FdType \cap TimerType = {}
  BY DEF IInv, TypeOK, FdType, TimerType
<1>1. CASE AddFd BY <1>1, FdAdded
<1>2. CASE AddTimer
  <2>1. PICK t \in Thread, ty \in TimerType, a \in Client :
           thread_get(t, ty, a) /\ UNCHANGED <<fd, fdset>>
    BY <1>2 DEF AddTimer, thread_add_timer
  <2>2. type[t] \in {"UNUSED", "FREE"} /\ type' = [type EXCEPT ![t] = ty]
    BY <2>1, Fetched, TypesDiffer
  <2> QED BY <2>1, <2>2, <1>0, FdQuiet
<1>3. CASE AddEvent
  <2>1. PICK t \in Thread, ty \in {"EVENT", "READY"}, a \in Client \cup {NULL} :
           thread_get(t, ty, a) /\ UNCHANGED <<fd, fdset>>
    BY <1>3 DEF AddEvent, thread_add_event
  <2>2. type[t] \in {"UNUSED", "FREE"} /\ type' = [type EXCEPT ![t] = ty]
    BY <2>1, Fetched, TypesDiffer
  <2> QED BY <2>1, <2>2, <1>0, FdQuiet
<1>4. CASE Withdraw
  <2>1. PICK t \in Thread :
           /\ type[t] \in Pending
           /\ type' = [type EXCEPT ![t] = "UNUSED"] /\ fd' = [fd EXCEPT ![t] = NULL]
           /\ fdset' = IF type[t] \in FdType
                       THEN [fdset EXCEPT ![type[t]] = @ \ {fd[t]}] ELSE fdset
    BY <1>4 DEF Withdraw, Unschedule, thread_add_unuse
  <2>2. \A u \in Thread \ {t} : fd'[u] = fd[u] BY <2>1 DEF IInv, TypeOK
  <2>3. CASE type[t] \in FdType BY <2>1, <2>2, <2>3, FdDropped
  <2>4. CASE type[t] \notin FdType BY <2>1, <2>2, <2>4, <1>0, FdQuiet
  <2> QED BY <2>3, <2>4
<1>5. CASE FetchEvents
  <2>1. "EVENT" \in ListType BY TypesDiffer
  <2>2. \A t \in Thread : t \in Elems(list["EVENT"]) => type[t] = "EVENT"
    BY <2>1 DEF IInv, ListInv
  <2>3. /\ type' = [t \in Thread |-> IF t \in Elems(list["EVENT"]) THEN "READY" ELSE type[t]]
        /\ fd' = fd /\ fdset' = fdset
    BY <1>5 DEF FetchEvents
  <2> QED BY <2>2, <2>3, <1>0, FdQuiet
<1>6. CASE Wake
  <2>0. PICK ty \in Pending \ {"READY", "EVENT"} :
           \E i \in DOMAIN list[ty] : MadeReady(ty, i)
    BY <1>6 DEF Wake
  <2>1. PICK i \in DOMAIN list[ty] : MadeReady(ty, i) BY <2>0
  <2> DEFINE t == list[ty][i]
  <2>2. t \in Thread /\ type[t] = ty /\ type' = [type EXCEPT ![t] = "READY"]
    BY <2>1, Woken DEF MadeReady
  <2>3. /\ fd' = fd
        /\ fdset' = IF ty \in FdType THEN [fdset EXCEPT ![ty] = @ \ {fd[t]}] ELSE fdset
    BY <2>1 DEF MadeReady
  <2> HIDE DEF t
  <2>4. CASE ty \in FdType BY <2>2, <2>3, <2>4, FdDropped
  <2>5. CASE ty \notin FdType BY <2>2, <2>3, <2>5, <1>0, FdQuiet
  <2> QED BY <2>4, <2>5
<1>7. CASE CallReturn
  <2>1. cur \in Thread /\ type[cur] = "READY" BY <1>7 DEF CallReturn, IInv, TypeOK, ListInv
  <2>2. /\ type' = [type EXCEPT ![cur] = "UNUSED"] /\ fd' = [fd EXCEPT ![cur] = NULL]
        /\ fdset' = fdset
    BY <1>7 DEF CallReturn, thread_add_unuse
  <2>3. \A u \in Thread \ {cur} : fd'[u] = fd[u] BY <2>2 DEF IInv, TypeOK
  <2> QED BY <2>1, <2>2, <2>3, <1>0, FdQuiet
<1>8. CASE Tick \/ Rest BY <1>8, FdQuiet DEF Tick, Rest
<1>9. CASE thread_master_free
  <2>1. \A t \in Thread : type'[t] \notin FdType BY <1>9, <1>0, AllFree
  <2>2. fdset' = NoFds BY <1>9 DEF thread_master_free
  <2> QED BY <2>1, <2>2 DEF FdOfType, NoFds
<1> QED BY <1>1, <1>2, <1>3, <1>4, <1>5, <1>6, <1>7, <1>8, <1>9, NextKinds
        DEF Kinds, Busy

\* The fd sets passed to select are the descriptors of the threads that wait
\* for one, and no descriptor has two (thread_add_read_write, thread_cancel,
\* thread_process_fds_helper).
THEOREM SpecFdInv == Spec => []FdInv
<1>1. Init => FdOfType
  BY TypesDiffer DEF Init, FdOfType, NoFds
<1>2. IInv /\ FdOfType => FdInv
  <2> SUFFICES ASSUME IInv, FdOfType, NEW d \in FdType
      PROVE  /\ fdset[d] = {fd[t] : t \in Elems(list[d])}
             /\ \A s, t \in Elems(list[d]) : fd[s] = fd[t] => s = t
    BY DEF FdInv
  <2>1. d \in ListType /\ d # "READY" BY TypesDiffer
  <2>2. \A t \in Elems(list[d]) : t \in Thread BY <2>1 DEF IInv, TypeOK, Elems
  <2>3. \A t \in Thread : t \in Elems(list[d]) <=> type[t] = d
    BY <2>1, ConstAssumption DEF IInv, ListInv
  <2> QED BY <2>2, <2>3 DEF FdOfType
<1>3. IInv /\ IInv' /\ FdOfType /\ [Next]_vars => FdOfType' BY NextFds
<1> QED BY <1>1, <1>2, <1>3, SpecIInv, PTL DEF Spec

-----------------------------------------------------------------------------
(* Allocations.  alloc counts the structs that are not free, so that         *)
(* thread_master_free, which subtracts the lengths of the lists, leaves 0.   *)

OfType(ty) == {t \in Thread : type[t] = ty}

Allocated == {t \in Thread : type[t] # "FREE"}

AllocInv ==
    /\ IsFiniteSet(Allocated)
    /\ alloc = Cardinality(Allocated)
    /\ pc = "freed" => Allocated = {}

\* A list without duplicates has as many elements as it is long.
LEMMA LengthIsCount ==
    ASSUME NEW S, NEW s \in Seq(S), NoDup(s)
    PROVE  IsFiniteSet(Elems(s)) /\ Cardinality(Elems(s)) = Len(s)
<1>1. Len(s) \in Nat /\ DOMAIN s = 1..Len(s) OBVIOUS
<1>2. IsFiniteSet(1..Len(s)) /\ Cardinality(1..Len(s)) = Len(s)
  <2>1. IsFiniteSet(1..Len(s))
        /\ Cardinality(1..Len(s)) = IF 1 > Len(s) THEN 0 ELSE Len(s) - 1 + 1
    BY <1>1, FS_Interval
  <2> QED BY <1>1, <2>1
<1> DEFINE f == [i \in 1..Len(s) |-> s[i]]
<1>3. f \in Bijection(1..Len(s), Elems(s))
  <2>1. f \in [1..Len(s) -> Elems(s)] BY <1>1 DEF Elems
  <2>2. \A i, j \in 1..Len(s) : f[i] = f[j] => i = j BY <1>1 DEF NoDup
  <2>3. \A x \in Elems(s) : \E i \in 1..Len(s) : f[i] = x BY <1>1 DEF Elems
  <2> HIDE DEF f
  <2> QED BY <2>1, <2>2, <2>3 DEF Bijection, Injection, Surjection, IsInjective
<1>4. ExistsBijection(1..Len(s), Elems(s)) BY <1>3 DEF ExistsBijection
<1> QED BY <1>2, <1>4, FS_Bijection

\* Sets that have no element in common count together.
LEMMA DisjointCount ==
    ASSUME NEW S, NEW T, IsFiniteSet(S), IsFiniteSet(T), S \cap T = {}
    PROVE  /\ IsFiniteSet(S \cup T)
           /\ Cardinality(S \cup T) = Cardinality(S) + Cardinality(T)
<1>1. Cardinality(S \cap T) = 0 BY FS_EmptySet
<1>2. IsFiniteSet(S \cup T)
      /\ Cardinality(S \cup T) = Cardinality(S) + Cardinality(T) - Cardinality(S \cap T)
  BY FS_Union
<1>3. Cardinality(S) \in Nat /\ Cardinality(T) \in Nat BY FS_CardinalityType
<1> QED BY <1>1, <1>2, <1>3

\* Once no thread is being called the lists hold all that is allocated: the
\* sum in thread_master_free is the number of structs.
LEMMA ListsHoldAll ==
    ASSUME IInv, cur = NULL
    PROVE  /\ IsFiniteSet(Allocated)
           /\ Cardinality(Allocated) =
                 Len(list["READ"]) + Len(list["WRITE"]) + Len(list["TIMER"])
                 + Len(list["EVENT"]) + Len(list["READY"])
                 + Len(list["UNUSED"]) + Len(list["BACKGROUND"])
<1>0. ListType = {"READ", "WRITE", "TIMER", "BACKGROUND", "EVENT", "READY", "UNUSED"}
  BY DEF ListType, Pending, FdType, TimerType
<1>1. ASSUME NEW l \in ListType
      PROVE  IsFiniteSet(OfType(l)) /\ Cardinality(OfType(l)) = Len(list[l]) /\ Len(list[l]) \in Nat
  <2>1. list[l] \in Seq(Thread) /\ NoDup(list[l]) BY DEF IInv, TypeOK, ListInv
  <2>2. Elems(list[l]) \subseteq Thread BY <2>1 DEF Elems
  <2>3. \A t \in Thread : t \in Elems(list[l]) <=> type[t] = l
    BY ConstAssumption DEF IInv, ListInv
  <2>4. Elems(list[l]) = OfType(l) BY <2>2, <2>3 DEF OfType
  <2> QED BY <2>1, <2>4, LengthIsCount
<1>2. /\ IsFiniteSet(OfType("READ") \cup OfType("WRITE"))
      /\ Cardinality(OfType("READ") \cup OfType("WRITE"))
            = Len(list["READ"]) + Len(list["WRITE"])
  <2> DEFINE a == OfType("READ")
             b == OfType("WRITE")
  <2>1. a \cap b = {} BY DEF OfType
  <2>2. /\ IsFiniteSet(a) /\ Cardinality(a) = Len(list["READ"])
        /\ IsFiniteSet(b) /\ Cardinality(b) = Len(list["WRITE"])
    BY <1>0, <1>1
  <2> HIDE DEF a, b
  <2>3. IsFiniteSet(a \cup b) /\ Cardinality(a \cup b) = Cardinality(a) + Cardinality(b)
    BY <2>1, <2>2, DisjointCount
  <2>4. IsFiniteSet(a \cup b) /\ Cardinality(a \cup b) = Len(list["READ"]) + Len(list["WRITE"])
    BY <2>2, <2>3
  <2> QED BY <2>4 DEF a, b
<1> DEFINE A2 == OfType("READ") \cup OfType("WRITE")
           A3 == A2 \cup OfType("TIMER")
           A4 == A3 \cup OfType("EVENT")
           A5 == A4 \cup OfType("READY")
           A6 == A5 \cup OfType("UNUSED")
           A7 == A6 \cup OfType("BACKGROUND")
<1>3. IsFiniteSet(A3) /\ Cardinality(A3) = Cardinality(A2) + Len(list["TIMER"])
  <2>1. A2 \cap OfType("TIMER") = {} BY DEF OfType
  <2>2. IsFiniteSet(A2) BY <1>2
  <2>3. IsFiniteSet(OfType("TIMER")) /\ Cardinality(OfType("TIMER")) = Len(list["TIMER"])
    BY <1>0, <1>1
  <2> HIDE DEF A2
  <2> QED BY <2>1, <2>2, <2>3, DisjointCount
<1>4. IsFiniteSet(A4) /\ Cardinality(A4) = Cardinality(A3) + Len(list["EVENT"])
  <2>1. A3 \cap OfType("EVENT") = {} BY DEF OfType
  <2>2. IsFiniteSet(A3) BY <1>3
  <2>3. IsFiniteSet(OfType("EVENT")) /\ Cardinality(OfType("EVENT")) = Len(list["EVENT"])
    BY <1>0, <1>1
  <2> HIDE DEF A3
  <2> QED BY <2>1, <2>2, <2>3, DisjointCount
<1>5. IsFiniteSet(A5) /\ Cardinality(A5) = Cardinality(A4) + Len(list["READY"])
  <2>1. A4 \cap OfType("READY") = {} BY DEF OfType
  <2>2. IsFiniteSet(A4) BY <1>4
  <2>3. IsFiniteSet(OfType("READY")) /\ Cardinality(OfType("READY")) = Len(list["READY"])
    BY <1>0, <1>1
  <2> HIDE DEF A4
  <2> QED BY <2>1, <2>2, <2>3, DisjointCount
<1>6. IsFiniteSet(A6) /\ Cardinality(A6) = Cardinality(A5) + Len(list["UNUSED"])
  <2>1. A5 \cap OfType("UNUSED") = {} BY DEF OfType
  <2>2. IsFiniteSet(A5) BY <1>5
  <2>3. IsFiniteSet(OfType("UNUSED")) /\ Cardinality(OfType("UNUSED")) = Len(list["UNUSED"])
    BY <1>0, <1>1
  <2> HIDE DEF A5
  <2> QED BY <2>1, <2>2, <2>3, DisjointCount
<1>7. IsFiniteSet(A7) /\ Cardinality(A7) = Cardinality(A6) + Len(list["BACKGROUND"])
  <2>1. A6 \cap OfType("BACKGROUND") = {} BY DEF OfType
  <2>2. IsFiniteSet(A6) BY <1>6
  <2>3. IsFiniteSet(OfType("BACKGROUND")) /\ Cardinality(OfType("BACKGROUND")) = Len(list["BACKGROUND"])
    BY <1>0, <1>1
  <2> HIDE DEF A6
  <2> QED BY <2>1, <2>2, <2>3, DisjointCount
<1>8. Allocated = A7
  <2>1. \A t \in Thread : type[t] \in ListType \cup {"FREE"} BY DEF IInv, TypeOK
  <2>2. "FREE" \notin ListType BY <1>0
  <2> QED BY <2>1, <2>2, <1>0 DEF Allocated, OfType
<1>9. /\ Cardinality(A2) = Len(list["READ"]) + Len(list["WRITE"])
      /\ \A l \in ListType : Len(list[l]) \in Nat
  BY <1>1, <1>2
<1> HIDE DEF A2, A3, A4, A5, A6, A7
<1> QED BY <1>0, <1>3, <1>4, <1>5, <1>6, <1>7, <1>8, <1>9

\* No struct is allocated or freed.
LEMMA AllocKept ==
    ASSUME AllocInv, alloc' = alloc, pc' = "freed" => pc = "freed",
           \A t \in Thread : type'[t] = "FREE" <=> type[t] = "FREE"
    PROVE  AllocInv'
<1>1. Allocated' = Allocated BY DEF Allocated
<1> QED BY <1>1 DEF AllocInv

\* thread_get counts what it allocates.
LEMMA AllocGot ==
    ASSUME IInv, AllocInv, NEW t \in Thread, NEW ty \in Pending, NEW a,
           thread_get(t, ty, a), pc' # "freed"
    PROVE  AllocInv'
<1>1. /\ type' = [type EXCEPT ![t] = ty]
      /\ alloc' = IF type[t] = "FREE" THEN alloc + 1 ELSE alloc
      /\ type \in [Thread -> ListType \cup {"FREE"}]
  BY DEF thread_get, IInv, TypeOK
<1>2. ty # "FREE" BY TypesDiffer
<1>3. Allocated' = Allocated \cup {t} BY <1>1, <1>2 DEF Allocated
<1>4. t \in Allocated <=> type[t] # "FREE" BY DEF Allocated
<1>5. /\ IsFiniteSet(Allocated \cup {t})
      /\ Cardinality(Allocated \cup {t}) = IF t \in Allocated THEN Cardinality(Allocated)
                                           ELSE Cardinality(Allocated) + 1
  BY FS_AddElement DEF AllocInv
<1> QED BY <1>1, <1>3, <1>4, <1>5 DEF AllocInv

\* Every step keeps the count.
LEMMA NextAlloc == ASSUME IInv, IInv', AllocInv, [Next]_vars PROVE AllocInv'
<1>0. type \in [Thread -> ListType \cup {"FREE"}] BY DEF IInv, TypeOK
<1>1. CASE Busy /\ pc' # "freed"
  <2>1. CASE AddFd
    <3>1. PICK t \in Thread, dir \in FdType, a \in Client : thread_get(t, dir, a)
      BY <2>1 DEF AddFd, thread_add_read_write
    <3> QED BY <3>1, <1>1, AllocGot, TypesDiffer
  <2>2. CASE AddTimer
    <3>1. PICK t \in Thread, ty \in TimerType, a \in Client : thread_get(t, ty, a)
      BY <2>2 DEF AddTimer, thread_add_timer
    <3> QED BY <3>1, <1>1, AllocGot, TypesDiffer
  <2>3. CASE AddEvent
    <3>1. PICK t \in Thread, ty \in {"EVENT", "READY"}, a \in Client \cup {NULL} :
             thread_get(t, ty, a)
      BY <2>3 DEF AddEvent, thread_add_event
    <3> QED BY <3>1, <1>1, AllocGot, TypesDiffer
  <2>4. CASE Withdraw
    <3>1. PICK t \in Thread : /\ type[t] \in Pending /\ alloc' = alloc
                              /\ type' = [type EXCEPT ![t] = "UNUSED"]
      BY <2>4 DEF Withdraw, Unschedule, thread_add_unuse
    <3> QED BY <3>1, <1>0, <1>1, AllocKept, TypesDiffer
  <2>5. CASE FetchEvents
    <3>1. "EVENT" \in ListType BY TypesDiffer
    <3>2. \A t \in Thread : t \in Elems(list["EVENT"]) => type[t] = "EVENT"
      BY <3>1 DEF IInv, ListInv
    <3>3. /\ type' = [t \in Thread |-> IF t \in Elems(list["EVENT"]) THEN "READY" ELSE type[t]]
          /\ alloc' = alloc
      BY <2>5 DEF FetchEvents
    <3> QED BY <3>2, <3>3, <1>1, AllocKept
  <2>6. CASE Wake
    <3>1. PICK ty \in Pending \ {"READY", "EVENT"} :
             \E i \in DOMAIN list[ty] : MadeReady(ty, i)
      BY <2>6 DEF Wake
    <3>2. PICK i \in DOMAIN list[ty] : MadeReady(ty, i) BY <3>1
    <3> DEFINE t == list[ty][i]
    <3>3. t \in Thread /\ type[t] = ty /\ type' = [type EXCEPT ![t] = "READY"]
      BY <3>2, Woken DEF MadeReady
    <3>4. alloc' = alloc BY <3>2 DEF MadeReady
    <3> HIDE DEF t
    <3> QED BY <3>3, <3>4, <1>0, <1>1, AllocKept, TypesDiffer
  <2>7. CASE CallReturn
    <3>1. cur \in Thread /\ type[cur] = "READY" BY <2>7 DEF CallReturn, IInv, TypeOK, ListInv
    <3>2. type' = [type EXCEPT ![cur] = "UNUSED"] /\ alloc' = alloc
      BY <2>7 DEF CallReturn, thread_add_unuse
    <3> QED BY <3>1, <3>2, <1>0, <1>1, AllocKept
  <2> QED BY <1>1, <2>1, <2>2, <2>3, <2>4, <2>5, <2>6, <2>7 DEF Busy
<1>2. CASE Tick
  <2>1. type' = type /\ alloc' = alloc /\ pc' = pc BY <1>2 DEF Tick
  <2> QED BY <2>1, AllocKept
<1>3. CASE Rest /\ (pc' = "freed" <=> pc = "freed")
  BY <1>3, AllocKept DEF Rest
<1>4. CASE thread_master_free
  <2>1. cur = NULL BY <1>4 DEF thread_master_free, IInv, ListInv
  <2>2. Allocated' = {} BY <1>4, AllFree DEF Allocated
  <2> DEFINE n == Len(list["READ"]) + Len(list["WRITE"]) + Len(list["TIMER"])
                  + Len(list["EVENT"]) + Len(list["READY"])
                  + Len(list["UNUSED"]) + Len(list["BACKGROUND"])
  <2>3. n = Cardinality(Allocated) /\ Cardinality(Allocated) \in Nat
    BY <2>1, ListsHoldAll, FS_CardinalityType
  <2>4. alloc' = alloc - n BY <1>4 DEF thread_master_free
  <2> HIDE DEF n
  <2>5. alloc' = 0 BY <2>3, <2>4 DEF AllocInv
  <2> QED BY <2>2, <2>5, FS_EmptySet DEF AllocInv
<1> QED BY <1>1, <1>2, <1>3, <1>4, NextKinds DEF Kinds

\* However long the loop has run and however it ended, thread_master_free
\* frees every struct there is and leaves alloc at 0.
THEOREM SpecNoLeak == Spec => []NoLeak
<1>1. Init => AllocInv
  <2> SUFFICES ASSUME Init PROVE AllocInv OBVIOUS
  <2>1. Allocated = {} /\ alloc = 0 BY DEF Init, Allocated
  <2> QED BY <2>1, FS_EmptySet DEF AllocInv
<1>2. AllocInv => NoLeak
  <2> SUFFICES ASSUME AllocInv, pc = "freed"
               PROVE  alloc = 0 /\ \A t \in Thread : type[t] = "FREE"
    BY DEF NoLeak
  <2> QED BY FS_EmptySet DEF AllocInv, Allocated
<1>3. IInv /\ IInv' /\ AllocInv /\ [Next]_vars => AllocInv' BY NextAlloc
<1> QED BY <1>1, <1>2, <1>3, SpecIInv, PTL DEF Spec

-----------------------------------------------------------------------------
(* Timers.  A queue is ordered by what its threads have to wait for, so that *)
(* its head is due first; what was popped keeps the type it was scheduled    *)
(* with in add_type.                                                         *)

Ordered(q, s) == \A i, j \in DOMAIN q : i < j => s[q[i]] <= s[q[j]]

TimerInv ==
    /\ \A t \in Thread : type[t] \in Pending \ {"READY"} => add_type[t] = type[t]
    /\ \A ty \in TimerType : Ordered(list[ty], sands)
    /\ TimerContract

\* A queue stays in order when a thread leaves it (pqueue_remove_at).
LEMMA RemoveOrdered ==
    ASSUME NEW S, NEW q \in Seq(S), NEW k \in DOMAIN q, NEW s, Ordered(q, s)
    PROVE  Ordered(RemoveAt(q, k), s)
<1> DEFINE r == RemoveAt(q, k)
<1>1. /\ r \in Seq(S) /\ Len(r) = Len(q) - 1
      /\ \A i \in 1..(Len(q) - 1) : r[i] = IF i < k THEN q[i] ELSE q[i + 1]
  BY RemoveAtIndex
<1> HIDE DEF r
<1>2. k \in 1..Len(q) /\ Len(q) \in Nat /\ DOMAIN q = 1..Len(q) /\ DOMAIN r = 1..(Len(q) - 1)
  BY <1>1
<1> SUFFICES ASSUME NEW i \in 1..(Len(q) - 1), NEW j \in 1..(Len(q) - 1), i < j
             PROVE  s[r[i]] <= s[r[j]]
  BY <1>2 DEF Ordered, r
<1> DEFINE m == IF i < k THEN i ELSE i + 1
           n == IF j < k THEN j ELSE j + 1
<1>3. r[i] = q[m] /\ r[j] = q[n] BY <1>1
<1>4. m \in 1..Len(q) /\ n \in 1..Len(q) /\ m < n BY <1>2
<1> HIDE DEF m, n
<1> QED BY <1>2, <1>3, <1>4 DEF Ordered

\* pqueue_enqueue puts a thread where its deadline belongs.
LEMMA InsertOrdered ==
    ASSUME NEW q \in Seq(Thread), NEW t \in Thread, NEW d \in Int, NEW s,
           NEW k \in 1..(Len(q) + 1), Ordered(q, s), s[t] = d,
           \A i \in 1..(k - 1) : s[q[i]] <= d,
           \A i \in k..Len(q) : s[q[i]] >= d
    PROVE  Ordered(InsertAt(q, k, t), s)
<1> DEFINE r == InsertAt(q, k, t)
<1>0. r \in Seq(Thread) /\ InsertedAt(r, q, k, t) BY InsertAtIndex
<1> HIDE DEF r
<1>1. /\ r \in Seq(Thread) /\ Len(r) = Len(q) + 1
      /\ \A i \in 1..(Len(q) + 1) :
            r[i] = IF i < k THEN q[i] ELSE IF i = k THEN t ELSE q[i - 1]
  BY <1>0 DEF InsertedAt
<1>2. Len(q) \in Nat /\ DOMAIN q = 1..Len(q) /\ DOMAIN r = 1..(Len(q) + 1) BY <1>1
<1> SUFFICES ASSUME NEW i \in 1..(Len(q) + 1), NEW j \in 1..(Len(q) + 1), i < j
             PROVE  s[r[i]] <= s[r[j]]
  BY <1>2 DEF Ordered, r
<1>3. CASE i = k
  <2>1. r[i] = t /\ r[j] = q[j - 1] /\ j - 1 \in k..Len(q) BY <1>1, <1>2, <1>3
  <2>2. s[q[j - 1]] >= d BY <2>1
  <2> QED BY <2>1, <2>2
<1>4. CASE j = k
  <2>1. r[j] = t /\ r[i] = q[i] /\ i \in 1..(k - 1) BY <1>1, <1>2, <1>4
  <2>2. s[q[i]] <= d BY <2>1
  <2> QED BY <2>1, <2>2
<1>5. CASE i # k /\ j # k
  <2> DEFINE m == IF i < k THEN i ELSE i - 1
             n == IF j < k THEN j ELSE j - 1
  <2>1. r[i] = q[m] /\ r[j] = q[n] BY <1>1, <1>5
  <2>2. m \in 1..Len(q) /\ n \in 1..Len(q) /\ m < n BY <1>2, <1>5
  <2> HIDE DEF m, n
  <2> QED BY <1>2, <2>1, <2>2 DEF Ordered
<1> QED BY <1>3, <1>4, <1>5

\* Threads on a queue have its type.
LEMMA QueueTypes ==
    ASSUME IInv, NEW ty \in TimerType
    PROVE  /\ list[ty] \in Seq(Thread) /\ NoDup(list[ty])
           /\ Elems(list[ty]) = {t \in Thread : type[t] = ty}
<1>1. ty \in ListType /\ ty # "READY" BY TypesDiffer
<1>2. list[ty] \in Seq(Thread) /\ NoDup(list[ty]) BY <1>1 DEF IInv, TypeOK, ListInv
<1>3. Elems(list[ty]) \subseteq Thread BY <1>2 DEF Elems
<1>4. \A t \in Thread : t \in Elems(list[ty]) <=> type[t] = ty
  BY <1>1, ConstAssumption DEF IInv, ListInv
<1> QED BY <1>2, <1>3, <1>4

\* An order depends only on what is in the queue.
LEMMA SameOrder ==
    ASSUME NEW q, NEW s, NEW z, Ordered(q, s), \A x \in Elems(q) : z[x] = s[x]
    PROVE  Ordered(q, z)
BY DEF Ordered, Elems

\* The queues, and what was popped from them, are unchanged.
LEMMA TimersQuiet ==
    ASSUME IInv, TimerInv,
           \A ty \in TimerType : list'[ty] = list[ty],
           \A t \in Thread : type[t] \in TimerType => sands'[t] = sands[t],
           \A t \in Thread : \A ty \in TimerType :
              type'[t] = "READY" /\ add_type'[t] = ty
                 => type[t] = "READY" /\ add_type[t] = ty /\ sands'[t] = sands[t],
           \A t \in Thread : type'[t] \in Pending \ {"READY"} => add_type'[t] = type'[t]
    PROVE  TimerInv'
<1>1. ASSUME NEW ty \in TimerType
      PROVE  /\ Ordered(list'[ty], sands')
             /\ \A t \in Popped(ty)' : /\ sands'[t] <= 0
                                       /\ \A u \in Elems(list'[ty]) : sands'[t] <= sands'[u]
  <2>1. \A u \in Elems(list[ty]) : sands'[u] = sands[u] BY QueueTypes
  <2>2. Ordered(list[ty], sands') BY <2>1, SameOrder DEF TimerInv
  <2>3. \A t \in Popped(ty)' : t \in Popped(ty) /\ sands'[t] = sands[t] BY DEF Popped
  <2> QED BY <2>1, <2>2, <2>3 DEF TimerInv, TimerContract
<1> QED BY <1>1 DEF TimerInv, TimerContract

\* A thread leaves its queue, either from the head and because it is due, or
\* because it is cancelled.
LEMMA TimerLeaves ==
    ASSUME IInv, TimerInv, NEW ty \in TimerType, NEW k \in DOMAIN list[ty],
           NEW t \in Thread, t = list[ty][k],
           list'[ty] = RemoveAt(list[ty], k),
           \A l \in TimerType \ {ty} : list'[l] = list[l],
           \A u \in Thread \ {t} : /\ type'[u] = type[u] /\ add_type'[u] = add_type[u]
                                   /\ sands'[u] = sands[u],
           \/ type'[t] = "UNUSED"
           \/ /\ type'[t] = "READY" /\ add_type'[t] = add_type[t]
              /\ sands'[t] = sands[t] /\ sands[t] <= 0 /\ k = 1
    PROVE  TimerInv'
<1>1. type[t] = ty /\ Elems(RemoveAt(list[ty], k)) = Elems(list[ty]) \ {t}
  <2>1. /\ list[ty] \in Seq(Thread) /\ NoDup(list[ty])
        /\ Elems(list[ty]) = {u \in Thread : type[u] = ty}
    BY QueueTypes
  <2>2. t \in Elems(list[ty]) BY DEF Elems
  <2> QED BY <2>1, <2>2, RemoveAtElems
<1>2. "UNUSED" \notin Pending BY TypesDiffer
<1>3. add_type[t] = ty
  BY <1>1, TypesDiffer DEF TimerInv
<1>4. ASSUME NEW u \in Thread, type'[u] \in Pending \ {"READY"}
      PROVE  add_type'[u] = type'[u]
  BY <1>2, <1>4 DEF TimerInv
<1>5. ASSUME NEW l \in TimerType
      PROVE  /\ Ordered(list'[l], sands')
             /\ \A p \in Popped(l)' : /\ sands'[p] <= 0
                                      /\ \A u \in Elems(list'[l]) : sands'[p] <= sands'[u]
  <2>1. Elems(list'[l]) \subseteq Elems(list[l]) \ {t} /\ Elems(list[l]) \subseteq Thread
    BY <1>1, QueueTypes
  <2>2. \A u \in Elems(list'[l]) : sands'[u] = sands[u] BY <2>1
  <2>3. Ordered(list'[l], sands)
    BY RemoveOrdered, QueueTypes DEF TimerInv
  <2>4. Ordered(list'[l], sands') BY <2>2, <2>3, SameOrder
  <2>5. ASSUME NEW p \in Popped(l)', p # t
        PROVE  /\ sands'[p] <= 0
               /\ \A u \in Elems(list'[l]) : sands'[p] <= sands'[u]
    <3>1. p \in Popped(l) /\ sands'[p] = sands[p] BY <2>5 DEF Popped
    <3> QED BY <3>1, <2>1, <2>2 DEF TimerInv, TimerContract
  <2>6. ASSUME t \in Popped(l)'
        PROVE  /\ sands'[t] <= 0
               /\ \A u \in Elems(list'[l]) : sands'[t] <= sands'[u]
    <3>1. /\ l = ty /\ sands'[t] = sands[t] /\ sands[t] <= 0 /\ k = 1
      BY <2>6, <1>3 DEF Popped
    <3>2. ASSUME NEW u \in Elems(list'[l]) PROVE sands[t] <= sands[u]
      <4>1. u \in Elems(list[ty]) /\ u # t BY <2>1, <3>1
      <4>2. PICK j \in DOMAIN list[ty] : u = list[ty][j] BY <4>1 DEF Elems
      <4>3. j # 1 /\ DOMAIN list[ty] = 1..Len(list[ty]) BY <4>1, <4>2, <3>1, QueueTypes
      <4>4. 1 < j BY <4>3
      <4> QED BY <4>2, <4>4, <3>1 DEF TimerInv, Ordered
    <3> QED BY <3>1, <3>2, <2>2
  <2> QED BY <2>4, <2>5, <2>6
<1> QED BY <1>4, <1>5 DEF TimerInv, TimerContract

\* A timer is scheduled: no deadline is before those of the popped ones.
LEMMA TimerAdded == ASSUME IInv, TimerInv, AddTimer PROVE TimerInv'
<1>1. PICK t \in Thread, ty \in TimerType, a \in Client, d \in 0..MaxDelay :
         thread_add_timer(t, ty, a, d)
  BY DEF AddTimer
<1>2. ty \in Pending /\ ty # "UNUSED" /\ ty \in ListType BY TypesDiffer
<1>3. thread_get(t, ty, a) /\ sands' = [sands EXCEPT ![t] = d]
  BY <1>1 DEF thread_add_timer
<1>4. PICK k \in EnqueuePlaces(list[ty], d) :
         list' = [list EXCEPT !["UNUSED"] = UnuseTrimmed, ![ty] = InsertAt(@, k, t)]
  BY <1>1 DEF thread_add_timer
<1>5. /\ type[t] \in {"UNUSED", "FREE"}
      /\ \A l \in Pending : t \notin Elems(list[l])
      /\ type' = [type EXCEPT ![t] = ty] /\ add_type' = [add_type EXCEPT ![t] = ty]
  BY <1>2, <1>3, Fetched
<1>6. /\ type'[t] = ty /\ add_type'[t] = ty /\ sands'[t] = d
      /\ \A u \in Thread \ {t} : /\ type'[u] = type[u] /\ add_type'[u] = add_type[u]
                                 /\ sands'[u] = sands[u]
  BY <1>3, <1>5 DEF IInv, TypeOK
<1>7. /\ list'[ty] = InsertAt(list[ty], k, t)
      /\ \A l \in TimerType \ {ty} : list'[l] = list[l]
  <2>1. "UNUSED" \notin TimerType /\ TimerType \subseteq ListType BY TypesDiffer
  <2>2. list \in [ListType -> Seq(Thread)] BY DEF IInv, TypeOK
  <2> DEFINE s == InsertAt(list[ty], k, t)
  <2>3. list' = [list EXCEPT !["UNUSED"] = UnuseTrimmed, ![ty] = s] BY <1>2, <1>4, <2>2
  <2> HIDE DEF s
  <2>4. list'[ty] = s BY <2>2, <2>3, <1>2
  <2>5. \A l \in TimerType \ {ty} : list'[l] = list[l] BY <2>1, <2>2, <2>3
  <2> QED BY <2>4, <2>5 DEF s
<1>8. /\ k \in 1..(Len(list[ty]) + 1)
      /\ \A i \in 1..(k - 1) : sands[list[ty][i]] <= d
      /\ \A i \in k..Len(list[ty]) : sands[list[ty][i]] >= d
  BY DEF EnqueuePlaces
<1>9. d \in Int /\ d >= 0 OBVIOUS
<1>10. ASSUME NEW l \in TimerType, NEW u \in Elems(list[l]) PROVE u \in Thread \ {t}
  BY <1>5, <1>10, QueueTypes, TypesDiffer
<1>11. Ordered(list'[ty], sands')
  <2>1. list[ty] \in Seq(Thread) BY QueueTypes
  <2>2. DOMAIN list[ty] = 1..Len(list[ty]) /\ Len(list[ty]) \in Nat BY <2>1
  <2>3. Ordered(list[ty], sands') BY <1>6, <1>10, SameOrder DEF TimerInv
  <2>4. \A i \in DOMAIN list[ty] : sands'[list[ty][i]] = sands[list[ty][i]]
    BY <1>6, <1>10 DEF Elems
  <2>5. \A i \in 1..(k - 1) : sands'[list[ty][i]] <= d BY <2>2, <2>4, <1>8
  <2>6. \A i \in k..Len(list[ty]) : sands'[list[ty][i]] >= d BY <2>2, <2>4, <1>8
  <2> QED BY <2>1, <2>3, <2>5, <2>6, <1>6, <1>7, <1>8, <1>9, InsertOrdered
<1>12. \A l \in TimerType : Ordered(list'[l], sands')
  <2> SUFFICES ASSUME NEW l \in TimerType \ {ty} PROVE Ordered(list[l], sands')
    BY <1>7, <1>11
  <2> QED BY <1>6, <1>10, SameOrder DEF TimerInv
<1>13. ASSUME NEW l \in TimerType, NEW p \in Popped(l)'
       PROVE  /\ sands'[p] <= 0
              /\ \A u \in Elems(list'[l]) : sands'[p] <= sands'[u]
  <2>1. p # t /\ p \in Popped(l) /\ sands'[p] = sands[p] /\ sands[p] \in Int
    BY <1>6, TypesDiffer DEF Popped, IInv, TypeOK
  <2>2. sands[p] <= 0 /\ \A u \in Elems(list[l]) : sands[p] <= sands'[u]
    BY <2>1, <1>6, <1>10 DEF TimerInv, TimerContract
  <2>3. Elems(list'[l]) \subseteq Elems(list[l]) \cup {t}
    BY <1>7, <1>8, QueueTypes, InsertAtElems
  <2> QED BY <2>1, <2>2, <2>3, <1>6, <1>9
<1>14. \A u \in Thread : type'[u] \in Pending \ {"READY"} => add_type'[u] = type'[u]
  BY <1>6 DEF TimerInv
<1> QED BY <1>12, <1>13, <1>14 DEF TimerInv, TimerContract

\* Time passes for all timers alike.
LEMMA TimersTick == ASSUME IInv, TimerInv, Tick PROVE TimerInv'
<1>1. /\ sands' = [t \in Thread |-> IF sands[t] > -1 THEN sands[t] - 1 ELSE -1]
      /\ UNCHANGED <<list, type, add_type>>
  BY DEF Tick
<1>2. sands \in [Thread -> Int] BY ConstAssumption DEF IInv, TypeOK
<1>3. \A t, u \in Thread : sands[t] >= -1 /\ sands[u] >= -1
                           /\ sands[t] <= sands[u] => sands'[t] <= sands'[u]
  BY <1>1, <1>2
<1>4. \A t \in Thread : sands[t] >= -1 BY ConstAssumption DEF IInv, TypeOK
<1>5. \A t \in Thread : sands[t] <= 0 => sands'[t] <= 0 BY <1>1, <1>2
<1>6. ASSUME NEW ty \in TimerType
      PROVE  /\ Ordered(list'[ty], sands')
             /\ \A p \in Popped(ty)' : /\ sands'[p] <= 0
                                       /\ \A u \in Elems(list'[ty]) : sands'[p] <= sands'[u]
  <2>1. Elems(list[ty]) \subseteq Thread /\ list' = list BY <1>1, QueueTypes
  <2>2. \A i \in DOMAIN list[ty] : list[ty][i] \in Thread BY <2>1 DEF Elems
  <2>3. Ordered(list[ty], sands) BY DEF TimerInv
  <2>4. Ordered(list[ty], sands') BY <2>2, <2>3, <1>3, <1>4 DEF Ordered
  <2>5. Popped(ty)' = Popped(ty) /\ Popped(ty) \subseteq Thread BY <1>1 DEF Popped
  <2> QED BY <2>1, <2>4, <2>5, <1>3, <1>4, <1>5 DEF TimerInv, TimerContract
<1> QED BY <1>1, <1>6 DEF TimerInv, TimerContract

\* Every step keeps the order of the timers.
LEMMA NextTimers == ASSUME IInv, IInv', TimerInv, [Next]_vars PROVE TimerInv'
<1>0. /\ type \in [Thread -> ListType \cup {"FREE"}]
      /\ add_type \in [Thread -> Pending \cup {NULL}]
      /\ sands \in [Thread -> -1..MaxDelay]
      /\ list \in [ListType -> Seq(Thread)]
      /\ "UNUSED" \notin TimerType /\ "FREE" \notin TimerType /\ "READY" \notin TimerType
      /\ "EVENT" \notin TimerType /\ FdType \cap TimerType = {}
      /\ TimerType \subseteq ListType
  BY TypesDiffer DEF IInv, TypeOK, FdType, TimerType
<1>1. CASE AddFd
  <2>1. PICK t \in Thread, dir \in FdType, a \in Client :
           /\ thread_get(t, dir, a) /\ sands' = sands
           /\ list' = [list EXCEPT !["UNUSED"] = UnuseTrimmed, ![dir] = Append(@, t)]
    BY <1>1 DEF AddFd, thread_add_read_write
  <2>2. /\ type[t] \in {"UNUSED", "FREE"} /\ type' = [type EXCEPT ![t] = dir]
        /\ add_type' = [add_type EXCEPT ![t] = dir]
    BY <2>1, Fetched, TypesDiffer
  <2>3. \A ty \in TimerType : list'[ty] = list[ty] BY <2>1, <1>0
  <2>4. \A u \in Thread : u # t => type'[u] = type[u] /\ add_type'[u] = add_type[u]
    BY <2>2, <1>0
  <2>5. type'[t] = dir /\ add_type'[t] = dir BY <2>2, <1>0
  <2> QED BY <2>1, <2>3, <2>4, <2>5, <1>0, TimersQuiet DEF TimerInv
<1>2. CASE AddTimer BY <1>2, TimerAdded
<1>3. CASE AddEvent
  <2>1. PICK t \in Thread, ty \in {"EVENT", "READY"}, a \in Client \cup {NULL} :
           /\ thread_get(t, ty, a) /\ sands' = sands
           /\ list' = [list EXCEPT !["UNUSED"] = UnuseTrimmed, ![ty] = Append(@, t)]
    BY <1>3 DEF AddEvent, thread_add_event
  <2>2. /\ type[t] \in {"UNUSED", "FREE"} /\ type' = [type EXCEPT ![t] = ty]
        /\ add_type' = [add_type EXCEPT ![t] = ty]
    BY <2>1, Fetched, TypesDiffer
  <2>3. \A l \in TimerType : list'[l] = list[l] BY <2>1, <1>0
  <2>4. \A u \in Thread : u # t => type'[u] = type[u] /\ add_type'[u] = add_type[u]
    BY <2>2, <1>0
  <2>5. type'[t] = ty /\ add_type'[t] = ty BY <2>2, <1>0
  <2> QED BY <2>1, <2>3, <2>4, <2>5, <1>0, TimersQuiet DEF TimerInv
<1>4. CASE Withdraw
  <2>1. PICK t \in Thread : type[t] \in Pending /\ t # cur /\ Unschedule(t)
    BY <1>4 DEF Withdraw
  <2>2. /\ type' = [type EXCEPT ![t] = "UNUSED"]
        /\ add_type' = [add_type EXCEPT ![t] = NULL]
        /\ sands' = [sands EXCEPT ![t] = -1]
        /\ list' = [[list EXCEPT ![type[t]] = thread_list_delete(@, t)]
                       EXCEPT !["UNUSED"] = Append(@, t)]
    BY <2>1 DEF Unschedule, thread_add_unuse
  <2>3. /\ type'[t] = "UNUSED"
        /\ \A u \in Thread : u # t => /\ type'[u] = type[u] /\ add_type'[u] = add_type[u]
                                      /\ sands'[u] = sands[u]
    BY <2>2, <1>0
  <2>4. type[t] \in ListType /\ type[t] # "UNUSED" BY <2>1, TypesDiffer
  <2>5. \A l \in ListType \ {"UNUSED"} :
           list'[l] = IF l = type[t] THEN thread_list_delete(list[l], t) ELSE list[l]
    BY <2>2, <2>4, <1>0
  <2>6. CASE type[t] \in TimerType
    <3> DEFINE q == list[type[t]]
               k == CHOOSE i \in DOMAIN q : q[i] = t
    <3>1. t \in Elems(q) BY <2>6, QueueTypes
    <3>2. k \in DOMAIN q /\ q[k] = t BY <3>1 DEF Elems
    <3>3. thread_list_delete(q, t) = RemoveAt(q, k) BY <3>1 DEF thread_list_delete
    <3> HIDE DEF k
    <3>4. list'[type[t]] = RemoveAt(list[type[t]], k) BY <2>4, <2>5, <3>3
    <3>5. \A l \in TimerType \ {type[t]} : list'[l] = list[l] BY <2>5, <1>0
    <3> QED BY <2>3, <2>6, <3>2, <3>4, <3>5, TimerLeaves
  <2>7. CASE type[t] \notin TimerType
    <3>1. \A l \in TimerType : list'[l] = list[l] BY <2>5, <2>7, <1>0
    <3>2. "UNUSED" \notin Pending BY TypesDiffer
    <3> QED BY <2>3, <2>7, <3>1, <3>2, TimersQuiet DEF TimerInv
  <2> QED BY <2>6, <2>7
<1>5. CASE FetchEvents
  <2>1. "EVENT" \in ListType BY TypesDiffer
  <2>2. \A t \in Thread : t \in Elems(list["EVENT"]) => type[t] = "EVENT"
    BY <2>1 DEF IInv, ListInv
  <2>3. \A t \in Thread : t \in Elems(list["EVENT"]) => add_type[t] = "EVENT"
    BY <2>2, TypesDiffer DEF TimerInv
  <2>4. /\ type' = [t \in Thread |-> IF t \in Elems(list["EVENT"]) THEN "READY" ELSE type[t]]
        /\ list' = [list EXCEPT !["READY"] = @ \o list["EVENT"], !["EVENT"] = <<>>]
        /\ UNCHANGED <<add_type, sands>>
    BY <1>5 DEF FetchEvents
  <2>5. \A l \in TimerType : list'[l] = list[l] BY <2>4, <1>0
  <2> QED BY <2>2, <2>3, <2>4, <2>5, <1>0, TimersQuiet DEF TimerInv
<1>6. CASE Wake
  <2>0. PICK ty \in Pending \ {"READY", "EVENT"} :
           \E i \in DOMAIN list[ty] : MadeReady(ty, i)
    BY <1>6 DEF Wake
  <2>1. PICK i \in DOMAIN list[ty] : MadeReady(ty, i) BY <2>0
  <2> DEFINE t == list[ty][i]
  <2>2. t \in Thread /\ type[t] = ty /\ type' = [type EXCEPT ![t] = "READY"]
    BY <2>1, Woken DEF MadeReady
  <2>3. /\ UNCHANGED <<add_type, sands>>
        /\ ty \in TimerType => i = 1 /\ sands[t] <= 0
        /\ list' = [list EXCEPT ![ty] = RemoveAt(@, i), !["READY"] = Append(@, t)]
    BY <2>1 DEF MadeReady, MoveToReady
  <2>4. ty \in ListType /\ ty # "READY" BY TypesDiffer
  <2>5. /\ list'[ty] = RemoveAt(list[ty], i)
        /\ \A l \in TimerType \ {ty} : list'[l] = list[l]
    BY <2>3, <2>4, <1>0
  <2>6. t = list[ty][i] OBVIOUS
  <2> HIDE DEF t
  <2>7. /\ type'[t] = "READY" /\ \A u \in Thread : u # t => type'[u] = type[u]
    BY <2>2, <1>0
  <2>8. CASE ty \in TimerType
    <3>1. \A u \in Thread \ {t} : /\ type'[u] = type[u] /\ add_type'[u] = add_type[u]
                                   /\ sands'[u] = sands[u]
      BY <2>3, <2>7
    <3>2. /\ type'[t] = "READY" /\ add_type'[t] = add_type[t]
          /\ sands'[t] = sands[t] /\ sands[t] <= 0 /\ i = 1
      BY <2>3, <2>7, <2>8
    <3> QED BY <2>2, <2>5, <2>6, <2>8, <3>1, <3>2, TimerLeaves
  <2>9. CASE ty \notin TimerType
    <3>1. add_type[t] = ty BY <2>2, <2>4 DEF TimerInv
    <3>2. \A l \in TimerType : list'[l] = list[l] BY <2>5, <2>9
    <3> QED BY <2>3, <2>7, <2>9, <3>1, <3>2, TimersQuiet DEF TimerInv
  <2> QED BY <2>8, <2>9
<1>7. CASE CallReturn
  <2>1. cur \in Thread /\ type[cur] = "READY" BY <1>7 DEF CallReturn, IInv, TypeOK, ListInv
  <2>2. /\ type' = [type EXCEPT ![cur] = "UNUSED"]
        /\ add_type' = [add_type EXCEPT ![cur] = NULL]
        /\ sands' = [sands EXCEPT ![cur] = -1]
        /\ list' = [list EXCEPT !["UNUSED"] = Append(@, cur)]
    BY <1>7 DEF CallReturn, thread_add_unuse
  <2>3. /\ type'[cur] = "UNUSED"
        /\ \A u \in Thread : u # cur => /\ type'[u] = type[u] /\ add_type'[u] = add_type[u]
                                        /\ sands'[u] = sands[u]
    BY <2>1, <2>2, <1>0
  <2>4. \A l \in TimerType : list'[l] = list[l] BY <2>2, <1>0
  <2>5. "UNUSED" \notin Pending BY TypesDiffer
  <2> QED BY <2>1, <2>3, <2>4, <2>5, <1>0, TimersQuiet DEF TimerInv
<1>8. CASE Tick BY <1>8, TimersTick
<1>9. CASE Rest
  <2>1. /\ UNCHANGED <<type, add_type, sands>>
        /\ \A l \in TimerType : list'[l] = list[l]
    BY <1>9, <1>0 DEF Rest
  <2> QED BY <2>1, TimersQuiet DEF TimerInv
<1>10. CASE thread_master_free
  <2>1. \A t \in Thread : type'[t] = "FREE" BY <1>10, AllFree
  <2>2. \A ty \in TimerType : list'[ty] = <<>> BY <1>10, <1>0 DEF thread_master_free
  <2>3. \A ty \in TimerType : Popped(ty)' = {} BY <2>1 DEF Popped
  <2>4. "FREE" \notin Pending BY TypesDiffer
  <2> QED BY <2>1, <2>2, <2>3, <2>4 DEF TimerInv, TimerContract, Ordered
<1> QED BY <1>1, <1>2, <1>3, <1>4, <1>5, <1>6, <1>7, <1>8, <1>9, <1>10, NextKinds
        DEF Kinds, Busy

\* A timer is never made ready early, nor ahead of one with an earlier
\* deadline, whatever is scheduled and cancelled meanwhile
\* (thread_timer_process, pqueue_enqueue).
THEOREM SpecTimerContract == Spec => []TimerContract
<1>1. Init => TimerInv
  <2> SUFFICES ASSUME Init PROVE TimerInv OBVIOUS
  <2>1. \A ty \in TimerType : list[ty] = <<>> BY TypesDiffer DEF Init
  <2>2. \A t \in Thread : type[t] = "FREE" BY DEF Init
  <2>3. \A ty \in TimerType : Popped(ty) = {} BY <2>2 DEF Popped
  <2> QED BY <2>1, <2>2, <2>3, TypesDiffer DEF TimerInv, TimerContract, Ordered
<1>2. TimerInv => TimerContract BY DEF TimerInv
<1>3. IInv /\ IInv' /\ TimerInv /\ [Next]_vars => TimerInv' BY NextTimers
<1> QED BY <1>1, <1>2, <1>3, SpecIInv, PTL DEF Spec

-----------------------------------------------------------------------------
(* The loop implements EventLoop, step by step. *)

\* What LoopStatus says of a struct.
LEMMA StatusIs ==
    \A t \in Thread :
        LoopStatus[t] = IF t = cur THEN "running"
                        ELSE IF type[t] \in {"UNUSED", "FREE"} THEN "idle"
                        ELSE IF type[t] = "READY" THEN "queued" ELSE "armed"
BY DEF LoopStatus

\* The same, of the next state.
LEMMA StatusIsNext ==
    \A t \in Thread :
        LoopStatus'[t] = IF t = cur' THEN "running"
                         ELSE IF type'[t] \in {"UNUSED", "FREE"} THEN "idle"
                         ELSE IF type'[t] = "READY" THEN "queued" ELSE "armed"
BY DEF LoopStatus

\* A step that changes the status of one struct.
LEMMA StatusSet ==
    ASSUME NEW j \in Thread, NEW v, LoopStatus'[j] = v,
           \A t \in Thread \ {j} : LoopStatus'[t] = LoopStatus[t]
    PROVE  LoopStatus' = [LoopStatus EXCEPT ![j] = v]
<1>1. /\ LoopStatus = [t \in Thread |-> LoopStatus[t]]
      /\ LoopStatus' = [t \in Thread |-> LoopStatus'[t]]
  BY DEF LoopStatus
<1> QED BY <1>1

\* A step that changes the type of one struct.
LEMMA StatusType ==
    ASSUME IInv, NEW j \in Thread, NEW v, type' = [type EXCEPT ![j] = v], j # cur, cur' = cur
    PROVE  LoopStatus' = [LoopStatus EXCEPT ![j] = IF v \in {"UNUSED", "FREE"} THEN "idle"
                                                   ELSE IF v = "READY" THEN "queued" ELSE "armed"]
<1>1. type'[j] = v /\ \A t \in Thread \ {j} : type'[t] = type[t] BY DEF IInv, TypeOK
<1>2. \A t \in Thread \ {j} : LoopStatus'[t] = LoopStatus[t] BY <1>1, StatusIs, StatusIsNext
<1>3. LoopStatus'[j] = IF v \in {"UNUSED", "FREE"} THEN "idle"
                       ELSE IF v = "READY" THEN "queued" ELSE "armed"
  BY <1>1, StatusIsNext
<1> QED BY <1>2, <1>3, StatusSet

\* Nothing that clients could notice happens.
LEMMA LoopStutters ==
    ASSUME type' = type, cur' = cur, list'["READY"] = list["READY"]
    PROVE  UNCHANGED Loop!loopVars
<1>1. LoopStatus' = LoopStatus BY DEF LoopStatus
<1> QED BY <1>1 DEF Loop!loopVars

\* A struct is scheduled: Arm, or ArmNow for thread_add_ready.
LEMMA LoopScheduled ==
    ASSUME IInv, NEW t \in Thread, NEW ty \in Pending, NEW a, thread_get(t, ty, a), cur' = cur,
           list'["READY"] = IF ty = "READY" THEN Append(list["READY"], t) ELSE list["READY"]
    PROVE  Loop!LoopNext
<1>1. type[t] \in {"UNUSED", "FREE"} /\ type' = [type EXCEPT ![t] = ty] BY Fetched
<1>2. t # cur
  <2>1. t \in thread_get_candidates BY DEF thread_get
  <2> QED BY <2>1, CandidateFree DEF IInv, TypeOK, ListType_OK
<1>3. LoopStatus[t] = "idle" BY <1>1, <1>2, StatusIs
<1>4. LoopStatus' = [LoopStatus EXCEPT ![t] = IF ty = "READY" THEN "queued" ELSE "armed"]
  BY <1>1, <1>2, StatusType, TypesDiffer
<1>5. CASE ty = "READY"
  <2>1. Loop!ArmNow(t) BY <1>3, <1>4, <1>5 DEF Loop!ArmNow
  <2> QED BY <2>1 DEF Loop!LoopNext
<1>6. CASE ty # "READY"
  <2>1. Loop!Arm(t) BY <1>3, <1>4, <1>6 DEF Loop!Arm
  <2> QED BY <2>1 DEF Loop!LoopNext
<1> QED BY <1>5, <1>6

\* A struct that is scheduled is cancelled.
LEMMA LoopCancelled ==
    ASSUME IInv, NEW t \in Thread, type[t] \in Pending, t # cur, Unschedule(t), cur' = cur
    PROVE  Loop!LoopNext
<1>1. type' = [type EXCEPT ![t] = "UNUSED"] BY DEF Unschedule, thread_add_unuse
<1>2. LoopStatus[t] = IF type[t] = "READY" THEN "queued" ELSE "armed" BY StatusIs, TypesDiffer
<1>3. LoopStatus' = [LoopStatus EXCEPT ![t] = "idle"] BY <1>1, StatusType
<1>4. list'["READY"] = IF type[t] = "READY" THEN thread_list_delete(list["READY"], t)
                       ELSE list["READY"]
  BY TypesDiffer DEF Unschedule, thread_add_unuse, IInv, TypeOK
<1>5. ASSUME type[t] = "READY"
      PROVE  \E i \in DOMAIN list["READY"] :
                list["READY"][i] = t /\ list'["READY"] = RemoveAt(list["READY"], i)
  <2> DEFINE r == list["READY"]
             k == CHOOSE i \in DOMAIN r : r[i] = t
  <2>1. t \in Elems(r) BY <1>5, TypesDiffer DEF IInv, ListInv
  <2>2. k \in DOMAIN r /\ r[k] = t BY <2>1 DEF Elems
  <2>3. list'["READY"] = RemoveAt(r, k) BY <1>4, <1>5, <2>1 DEF thread_list_delete
  <2> QED BY <2>2, <2>3
<1>6. Loop!Cancel(t) BY <1>2, <1>3, <1>4, <1>5 DEF Loop!Cancel, Loop!Without, RemoveAt
<1> QED BY <1>6 DEF Loop!LoopNext

\* The parts of a concatenation.
LEMMA ConcatParts ==
    ASSUME NEW S, NEW s \in Seq(S), NEW t \in Seq(S)
    PROVE  /\ Len(s \o t) = Len(s) + Len(t)
           /\ SubSeq(s \o t, 1, Len(s)) = s
           /\ SubSeq(s \o t, Len(s) + 1, Len(s \o t)) = t
<1> DEFINE w == s \o t
           a == SubSeq(w, 1, Len(s))
           b == SubSeq(w, Len(s) + 1, Len(w))
<1>1. /\ w \in Seq(S) /\ Len(w) = Len(s) + Len(t)
      /\ \A i \in 1..(Len(s) + Len(t)) : w[i] = IF i <= Len(s) THEN s[i] ELSE t[i - Len(s)]
  BY ConcatProperties
<1>2. Len(s) \in Nat /\ Len(t) \in Nat OBVIOUS
<1> HIDE DEF w
<1>3. \A i \in 1..Len(w) : w[i] \in S BY <1>1
<1>4. a \in Seq(S) /\ Len(a) = Len(s) /\ \A i \in 1..Len(s) : a[i] = w[i]
  <2>1. \A i \in 1..Len(s) : w[i] \in S BY <1>1, <1>2, <1>3
  <2>2. /\ a \in Seq(S) /\ Len(a) = IF 1 <= Len(s) THEN Len(s) - 1 + 1 ELSE 0
        /\ \A i \in 1..(Len(s) - 1 + 1) : a[i] = w[1 + i - 1]
    BY <1>2, <2>1, SubSeqProperties
  <2> HIDE DEF a
  <2> QED BY <1>2, <2>2
<1>5. b \in Seq(S) /\ Len(b) = Len(t) /\ \A i \in 1..Len(t) : b[i] = w[Len(s) + i]
  <2>1. \A i \in (Len(s) + 1)..Len(w) : w[i] \in S BY <1>2, <1>3
  <2>2. Len(s) + 1 \in Int /\ Len(w) \in Int BY <1>1, <1>2
  <2>3. /\ b \in Seq(S)
        /\ Len(b) = IF Len(s) + 1 <= Len(w) THEN Len(w) - (Len(s) + 1) + 1 ELSE 0
        /\ \A i \in 1..(Len(w) - (Len(s) + 1) + 1) : b[i] = w[Len(s) + 1 + i - 1]
    BY <2>1, <2>2, SubSeqProperties
  <2> HIDE DEF a, b
  <2>4. Len(w) - (Len(s) + 1) + 1 = Len(t) BY <1>1, <1>2
  <2>5. Len(b) = Len(t) BY <1>1, <1>2, <2>3, <2>4
  <2>6. \A i \in 1..Len(t) : Len(s) + 1 + i - 1 = Len(s) + i BY <1>2
  <2> QED BY <2>3, <2>4, <2>5, <2>6
<1> HIDE DEF a, b
<1>6. a = s BY <1>1, <1>2, <1>4
<1>7. b = t
  <2>1. ASSUME NEW i \in 1..Len(t) PROVE b[i] = t[i]
    <3> DEFINE k == Len(s) + i
    <3>1. k \in 1..(Len(s) + Len(t)) /\ ~ (k <= Len(s)) /\ k - Len(s) = i BY <1>2
    <3>2. b[i] = w[k] BY <1>5
    <3> HIDE DEF k
    <3>3. w[k] = t[k - Len(s)] BY <1>1, <3>1
    <3> QED BY <3>1, <3>2, <3>3
  <2> QED BY <1>2, <1>5, <2>1
<1> QED BY <1>1, <1>6, <1>7 DEF a, b, w

\* Structs that become ready join the queue.
LEMMA LoopFires ==
    ASSUME IInv, NEW q \in Seq(Thread), NoDup(q), q # <<>>,
           \A t \in Elems(q) : type[t] \in Pending \ {"READY"} /\ t # cur,
           cur' = cur, list'["READY"] = list["READY"] \o q,
           \A t \in Thread : type'[t] = IF t \in Elems(q) THEN "READY" ELSE type[t]
    PROVE  Loop!LoopNext
<1> DEFINE r == list["READY"]
           S == Elems(q)
           w == list'["READY"]
<1>1. r \in Seq(Thread) BY TypesDiffer DEF IInv, TypeOK
<1>2. S \subseteq Thread /\ S # {}
  <2>1. S \subseteq Thread BY DEF Elems
  <2>2. 1 \in DOMAIN q OBVIOUS
  <2> QED BY <2>1, <2>2 DEF Elems
<1>3. \A t \in S : LoopStatus[t] = "armed" BY <1>2, StatusIs, TypesDiffer
<1>4. LoopStatus' = [t \in Thread |-> IF t \in S THEN "queued" ELSE LoopStatus[t]]
  <2>1. \A t \in Thread : LoopStatus'[t] = IF t \in S THEN "queued" ELSE LoopStatus[t]
    BY StatusIs, StatusIsNext
  <2>2. LoopStatus' = [t \in Thread |-> LoopStatus'[t]] BY DEF LoopStatus
  <2> HIDE DEF S
  <2> QED BY <2>1, <2>2
<1>5. /\ Len(r) <= Len(w)
      /\ SubSeq(w, 1, Len(r)) = r /\ SubSeq(w, Len(r) + 1, Len(w)) = q
  <2> HIDE DEF r
  <2>1. w = r \o q BY DEF r
  <2> HIDE DEF w
  <2>2. Len(r) \in Nat /\ Len(q) \in Nat BY <1>1
  <2> QED BY <1>1, <2>1, <2>2, ConcatParts
<1>6. \A i, j \in DOMAIN q : q[i] = q[j] => i = j BY DEF NoDup
<1>7. Loop!Queued(q) = S BY DEF Loop!Queued, Elems
<1>8. S \in (SUBSET {t \in Thread : LoopStatus[t] = "armed"}) \ {{}} BY <1>2, <1>3
<1> HIDE DEF S
<1>9. Loop!Fire BY <1>4, <1>5, <1>6, <1>7, <1>8 DEF Loop!Fire
<1> QED BY <1>9 DEF Loop!LoopNext

\* One of them, whose time has come or whose descriptor is reported.
LEMMA LoopWoken ==
    ASSUME IInv, NEW ty \in Pending \ {"READY"}, NEW i \in DOMAIN list[ty],
           MoveToReady(ty, i), cur' = cur
    PROVE  Loop!LoopNext
<1> DEFINE t == list[ty][i]
           q == <<t>>
<1>1. t \in Thread /\ type[t] = ty /\ t \in Elems(list[ty]) /\ type' = [type EXCEPT ![t] = "READY"]
  BY Woken
<1>2. t # cur BY <1>1, TypesDiffer DEF IInv, ListInv
<1>3. list["READY"] \in Seq(Thread) BY TypesDiffer DEF IInv, TypeOK
<1>4. list'["READY"] = Append(list["READY"], t)
  BY TypesDiffer DEF MoveToReady, IInv, TypeOK
<1> HIDE DEF t
<1>5. q \in Seq(Thread) /\ NoDup(q) /\ q # <<>> /\ Elems(q) = {t} BY <1>1 DEF NoDup, Elems
<1>6. list'["READY"] = list["READY"] \o q BY <1>1, <1>3, <1>4
<1>7. \A u \in Thread : type'[u] = IF u \in Elems(q) THEN "READY" ELSE type[u]
  BY <1>1, <1>5 DEF IInv, TypeOK
<1>8. \A u \in Elems(q) : type[u] \in Pending \ {"READY"} /\ u # cur BY <1>1, <1>2, <1>5
<1> HIDE DEF q
<1> QED BY <1>5, <1>6, <1>7, <1>8, LoopFires

\* All the events that have been posted, or none.
LEMMA LoopEvents ==
    ASSUME IInv, FetchEvents
    PROVE  [Loop!LoopNext]_Loop!loopVars
<1> DEFINE e == list["EVENT"]
<1>1. e \in Seq(Thread) /\ NoDup(e) /\ list["READY"] \in Seq(Thread)
  BY TypesDiffer DEF IInv, TypeOK, ListInv
<1>2. \A t \in Elems(e) : t \in Thread /\ type[t] = "EVENT" /\ t # cur
  <2>1. Elems(e) \subseteq Thread BY <1>1 DEF Elems
  <2> QED BY <2>1, TypesDiffer DEF IInv, ListInv
<1>3. /\ list'["READY"] = list["READY"] \o e /\ cur' = cur
      /\ type' = [t \in Thread |-> IF t \in Elems(e) THEN "READY" ELSE type[t]]
  BY TypesDiffer DEF FetchEvents, IInv, TypeOK
<1> HIDE DEF e
<1>4. CASE e = <<>>
  <2>1. list'["READY"] = list["READY"] BY <1>1, <1>3, <1>4
  <2>2. type = [t \in Thread |-> type[t]] BY DEF IInv, TypeOK
  <2>3. type' = type BY <1>3, <1>4, <2>2, EmptyElems
  <2> QED BY <1>3, <2>1, <2>3, LoopStutters
<1>5. CASE e # <<>>
  <2>1. \A t \in Elems(e) : type[t] \in Pending \ {"READY"} /\ t # cur BY <1>2, TypesDiffer
  <2>2. \A t \in Thread : type'[t] = IF t \in Elems(e) THEN "READY" ELSE type[t] BY <1>3
  <2> QED BY <1>1, <1>3, <1>5, <2>1, <2>2, LoopFires
<1> QED BY <1>4, <1>5

\* The oldest struct of the queue is run, when none is.
LEMMA LoopRuns ==
    ASSUME IInv, cur = NULL, list["READY"] # <<>>, TrimReady, type' = type
    PROVE  Loop!LoopNext
<1> DEFINE r == list["READY"]
           t == Head(r)
<1>1. r \in Seq(Thread) BY TypesDiffer DEF IInv, TypeOK
<1>2. t \in Thread /\ t \in Elems(r) BY <1>1, TailElems
<1>3. type[t] = "READY" BY <1>2, TypesDiffer DEF IInv, ListInv
<1>4. cur' = t /\ list'["READY"] = Tail(r) BY TypesDiffer DEF TrimReady, IInv, TypeOK
<1>5. \A u \in Thread : u # cur BY ConstAssumption
<1>6. Loop!Running = {} BY <1>5, StatusIs DEF Loop!Running
<1>7. LoopStatus'[t] = "running" BY <1>2, <1>4, StatusIsNext
<1>8. \A u \in Thread \ {t} : LoopStatus'[u] = LoopStatus[u]
  BY <1>4, <1>5, StatusIs, StatusIsNext
<1>9. LoopStatus' = [LoopStatus EXCEPT ![t] = "running"] BY <1>2, <1>7, <1>8, StatusSet
<1>10. Loop!Run BY <1>4, <1>6, <1>9 DEF Loop!Run
<1> QED BY <1>10 DEF Loop!LoopNext

\* A callback returns.
LEMMA LoopFinishes ==
    ASSUME IInv, CallReturn
    PROVE  Loop!LoopNext
<1>1. cur \in Thread /\ cur' = NULL BY DEF CallReturn, IInv, TypeOK, ListInv
<1>2. type' = [type EXCEPT ![cur] = "UNUSED"] BY DEF CallReturn, thread_add_unuse
<1>3. list'["READY"] = list["READY"]
  BY TypesDiffer DEF CallReturn, thread_add_unuse, IInv, TypeOK
<1>4. type'[cur] = "UNUSED" /\ \A u \in Thread \ {cur} : type'[u] = type[u]
  BY <1>1, <1>2 DEF IInv, TypeOK
<1>5. LoopStatus[cur] = "running" BY <1>1, StatusIs
<1>6. LoopStatus'[cur] = "idle" BY <1>1, <1>4, StatusIsNext, ConstAssumption
<1>7. \A u \in Thread \ {cur} : LoopStatus'[u] = LoopStatus[u]
  BY <1>1, <1>4, StatusIs, StatusIsNext, ConstAssumption
<1>8. LoopStatus' = [LoopStatus EXCEPT ![cur] = "idle"] BY <1>1, <1>6, <1>7, StatusSet
<1>9. Loop!Finish(cur) BY <1>3, <1>5, <1>8 DEF Loop!Finish
<1> QED BY <1>1, <1>9 DEF Loop!LoopNext

\* The master is freed.
LEMMA LoopShutsDown ==
    ASSUME IInv, IInv', thread_master_free
    PROVE  Loop!LoopNext
<1>1. cur = NULL /\ cur' = NULL BY DEF thread_master_free, IInv, ListInv
<1>2. list'["READY"] = <<>> BY TypesDiffer DEF thread_master_free
<1>3. \A t \in Thread : type'[t] = "FREE" BY AllFree
<1>4. Loop!Running = {} BY <1>1, StatusIs, ConstAssumption DEF Loop!Running
<1>5. \A t \in Thread : LoopStatus'[t] = "idle" BY <1>1, <1>3, StatusIsNext, ConstAssumption
<1>6. LoopStatus' = [t \in Thread |-> LoopStatus'[t]] BY DEF LoopStatus
<1>7. LoopStatus' = [t \in Thread |-> "idle"] BY <1>5, <1>6
<1>8. Loop!Shutdown BY <1>2, <1>4, <1>7 DEF Loop!Shutdown
<1> QED BY <1>8 DEF Loop!LoopNext

\* What the callbacks and other tasks do.
LEMMA LoopUser == ASSUME IInv, UserCode \/ Post PROVE [Loop!LoopNext]_Loop!loopVars
<1>0. list \in [ListType -> Seq(Thread)] BY DEF IInv, TypeOK
<1>1. ASSUME NEW c \in Client, UserAddReadWrite(c) PROVE Loop!LoopNext
  <2>1. PICK t \in Thread, dir \in FdType, f \in Fd : thread_add_read_write(t, dir, c, f)
    BY <1>1 DEF UserAddReadWrite
  <2>2. dir \in Pending /\ dir # "READY" /\ thread_get(t, dir, c)
    BY <2>1, TypesDiffer DEF thread_add_read_write
  <2>3. list'["READY"] = list["READY"]
    BY <1>0, <2>1, <2>2, TypesDiffer DEF thread_add_read_write
  <2>4. cur' = cur BY <1>1 DEF UserAddReadWrite
  <2> QED BY <2>2, <2>3, <2>4, LoopScheduled
<1>2. ASSUME NEW c \in Client, UserAddTimer(c) PROVE Loop!LoopNext
  <2>1. PICK t \in Thread, ty \in TimerType, d \in 0..MaxDelay : thread_add_timer(t, ty, c, d)
    BY <1>2 DEF UserAddTimer
  <2>2. ty \in Pending /\ ty # "READY" /\ thread_get(t, ty, c)
    BY <2>1, TypesDiffer DEF thread_add_timer
  <2>3. list'["READY"] = list["READY"] BY <1>0, <2>1, <2>2, TypesDiffer DEF thread_add_timer
  <2>4. cur' = cur BY <1>2 DEF UserAddTimer
  <2> QED BY <2>2, <2>3, <2>4, LoopScheduled
<1>3. ASSUME NEW t \in Thread, NEW ty \in {"EVENT", "READY"}, NEW a,
             thread_add_event(t, ty, a), cur' = cur
      PROVE  Loop!LoopNext
  <2>1. ty \in Pending /\ thread_get(t, ty, a) BY <1>3, TypesDiffer DEF thread_add_event
  <2>2. list'["READY"] = IF ty = "READY" THEN Append(list["READY"], t) ELSE list["READY"]
    BY <1>0, <1>3, TypesDiffer DEF thread_add_event
  <2> QED BY <1>3, <2>1, <2>2, LoopScheduled
<1>4. ASSUME NEW c \in Client, UserAddEvent(c) PROVE Loop!LoopNext
  BY <1>3, <1>4 DEF UserAddEvent
<1>5. CASE UserAddReady BY <1>3, <1>5 DEF UserAddReady
<1>6. CASE Post BY <1>3, <1>6 DEF Post
<1>7. ASSUME NEW c \in Client, UserOff(c) PROVE Loop!LoopNext
  <2> DEFINE t == handle[c]
  <2>1. /\ t \in Thread /\ type[t] \in Pending /\ t # cur /\ thread_cancel(t)
        /\ cur' = cur
    BY <1>7 DEF UserOff, IInv, TypeOK, HandleInv, InUserCode
  <2> HIDE DEF t
  <2>2. Unschedule(t) BY <2>1 DEF thread_cancel
  <2> QED BY <2>1, <2>2, LoopCancelled
<1>8. CASE UserCancelEvent BY <1>8, LoopStutters DEF UserCancelEvent, schedVars
<1> QED BY <1>1, <1>2, <1>4, <1>5, <1>6, <1>7, <1>8 DEF UserCode

\* What the loop task does by itself.
LEMMA LoopItself == ASSUME IInv, LoopStep PROVE [Loop!LoopNext]_Loop!loopVars
<1>1. CASE StartLoop \/ FetchQuit \/ CallEnter \/ LoopCheck \/ CancelEventDone
  BY <1>1, LoopStutters DEF StartLoop, FetchQuit, CallEnter, LoopCheck, CancelEventDone, schedVars
<1>2. CASE FetchReady
  BY <1>2, LoopRuns DEF FetchReady, IInv, ListInv
<1>3. CASE FetchTrim
  <2>1. cur = NULL /\ type' = type BY <1>3 DEF FetchTrim, IInv, ListInv
  <2>2. CASE list["READY"] # <<>> BY <1>3, <2>1, <2>2, LoopRuns DEF FetchTrim
  <2>3. CASE list["READY"] = <<>> BY <1>3, <2>1, <2>3, LoopStutters DEF FetchTrim
  <2> QED BY <2>2, <2>3
<1>4. CASE FetchEvents BY <1>4, LoopEvents
<1>5. ASSUME NEW ty \in TimerType, NEW at, NEW next, TimerPop(ty, at, next)
      PROVE  [Loop!LoopNext]_Loop!loopVars
  <2>1. ty \in Pending \ {"READY"} BY TypesDiffer
  <2>2. list[ty] \in Seq(Thread) BY <2>1, TypesDiffer DEF IInv, TypeOK
  <2>3. CASE list[ty] # <<>> /\ timer_due(Head(list[ty]))
    <3>1. 1 \in DOMAIN list[ty] BY <2>2, <2>3
    <3>2. MoveToReady(ty, 1) /\ cur' = cur BY <1>5, <2>3 DEF TimerPop
    <3> QED BY <2>1, <3>1, <3>2, LoopWoken
  <2>4. CASE ~(list[ty] # <<>> /\ timer_due(Head(list[ty])))
    BY <1>5, <2>4, LoopStutters DEF TimerPop
  <2> QED BY <2>3, <2>4
<1>6. CASE ProcessTimers \/ ProcessBackground
  BY <1>5, <1>6 DEF ProcessTimers, ProcessBackground, TimerType
<1>7. ASSUME NEW dir \in FdType, NEW at, NEW next, ProcessFds(dir, at, next)
      PROVE  [Loop!LoopNext]_Loop!loopVars
  <2>1. dir \in Pending \ {"READY"} /\ cur' = cur BY <1>7, TypesDiffer DEF ProcessFds
  <2>2. ASSUME NEW i \in Reported(dir), MoveToReady(dir, i) PROVE Loop!LoopNext
    <3>1. i \in DOMAIN list[dir] BY DEF Reported
    <3> QED BY <2>1, <2>2, <3>1, LoopWoken
  <2>3. CASE UNCHANGED <<list, type, fdset>> BY <2>1, <2>3, LoopStutters
  <2> QED BY <1>7, <2>2, <2>3 DEF ProcessFds
<1>8. CASE ProcessReadFds \/ ProcessWriteFds
  BY <1>7, <1>8 DEF ProcessReadFds, ProcessWriteFds, FdType
<1>9. CASE CancelEventStep
  <2>1. PICK t \in FirstWithNullArg(list["EVENT"]) \cup FirstWithNullArg(list["READY"]) :
           Unschedule(t)
    BY <1>9 DEF CancelEventStep
  <2>2. PICK l \in {"EVENT", "READY"} : t \in FirstWithNullArg(list[l]) OBVIOUS
  <2>3. t \in Elems(list[l]) /\ l \in ListType BY <2>2, TypesDiffer DEF FirstWithNullArg, Elems
  <2>4. t \in Thread BY <2>3 DEF IInv, TypeOK, Elems
  <2>5. type[t] \in Pending /\ t # cur BY <2>3, <2>4, TypesDiffer DEF IInv, ListInv
  <2>6. cur' = cur BY <1>9 DEF CancelEventStep
  <2> QED BY <2>1, <2>4, <2>5, <2>6, LoopCancelled
<1> QED BY <1>1, <1>2, <1>3, <1>4, <1>6, <1>8, <1>9 DEF LoopStep

\* Callbacks are queued once per scheduling, run one at a time and first in,
\* first out, and not after they have been cancelled, for any number of structs
\* and clients (thread_fetch, thread_call, thread_cancel, thread_cancel_event).
THEOREM SpecImplementsEventLoop == Spec => ImplementsEventLoop
<1>1. Init => Loop!LoopInit
  <2> SUFFICES ASSUME Init PROVE Loop!LoopInit OBVIOUS
  <2>1. list["READY"] = <<>> BY TypesDiffer DEF Init
  <2>2. \A t \in Thread : LoopStatus[t] = "idle" BY StatusIs, ConstAssumption DEF Init
  <2>3. LoopStatus = [t \in Thread |-> LoopStatus[t]] BY DEF LoopStatus
  <2>4. LoopStatus = [t \in Thread |-> "idle"] BY <2>2, <2>3
  <2> QED BY <2>1, <2>4 DEF Loop!LoopInit
<1>2. IInv /\ IInv' /\ [Next]_vars => [Loop!LoopNext]_Loop!loopVars
  <2> SUFFICES ASSUME IInv, IInv', [Next]_vars PROVE [Loop!LoopNext]_Loop!loopVars
    OBVIOUS
  <2>1. CASE UserCode \/ Post BY <2>1, LoopUser
  <2>2. CASE LoopStep BY <2>2, LoopItself
  <2>3. CASE CallReturn BY <2>3, LoopFinishes
  <2>4. CASE thread_master_free BY <2>4, LoopShutsDown
  <2>5. CASE SelectIntr \/ SelectError \/ SelectReturn \/ thread_fetch_quit \/ Tick
    BY <2>5, LoopStutters DEF SelectIntr, SelectError, SelectReturn, thread_fetch_quit, Tick, schedVars
  <2>6. CASE UNCHANGED vars BY <2>6, LoopStutters DEF vars
  <2> QED BY <2>1, <2>2, <2>3, <2>4, <2>5, <2>6 DEF Next
<1> QED BY <1>1, <1>2, SpecIInv, PTL DEF Spec, ImplementsEventLoop, Loop!LoopSpec
===============================================================================
