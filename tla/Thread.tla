-------------------------------- MODULE Thread --------------------------------
(***************************************************************************)
(* The event loop of platform/lib/thread.c: the thread_master with its     *)
(* lists, the task that runs thread_mainloop, the user code it calls back, *)
(* and other tasks that post events to the loop or ask it to quit.         *)
(*                                                                         *)
(* A "thread" here is a struct thread: a scheduled callback, recycled      *)
(* through the unuse list.  Every operation the code performs between      *)
(* os_mutex_lock and os_mutex_unlock is one action, except the second half *)
(* of thread_fetch and thread_cancel_event, whose loops are one action per *)
(* iteration taken with the mutex held (Locked).                           *)
(*                                                                         *)
(* User code keeps at most one handle per client (client->t_read,          *)
(* client->t_timeout, ...) in the way the macros of thread.h prescribe:    *)
(* THREAD_x_ON schedules only when the handle is NULL, THREAD_OFF cancels  *)
(* and clears it, and a callback clears its own handle before anything     *)
(* else.                                                                   *)
(***************************************************************************)
EXTENDS Integers, Sequences, SequencesExt

CONSTANTS Thread,    \* addresses of struct thread (bounds the allocations)
          Client,    \* owners of a handle; the arg of their callbacks
          Fd,        \* file descriptors
          MaxDelay,  \* longest delay of a timer, in clock ticks
          AddTypes,  \* the kinds of thread user code schedules
          NULL

FdType    == {"READ", "WRITE"}
TimerType == {"TIMER", "BACKGROUND"}
Pending   == FdType \cup TimerType \cup {"EVENT", "READY"}
\* One list of the master per type: read, write, event, ready and unuse are
\* linked lists, timer and background are priority queues ordered by sands.
ListType  == Pending \cup {"UNUSED"}

ASSUME ConstAssumption ==
    /\ NULL \notin Thread /\ NULL \notin Client
    /\ MaxDelay \in Nat
    /\ AddTypes \subseteq Pending

VARIABLES
    list,       \* the master's lists, by type
    type,       \* thread->type; "FREE" when the struct is not allocated
    add_type,   \* thread->add_type
    arg,        \* thread->arg: a client, or NULL for a callback with no handle
    fd,         \* thread->u.fd
    sands,      \* thread->u.sands, as ticks from now; -1 means overdue
    fdset,      \* master->readfd and master->writefd
    alloc,      \* master->alloc
    bquit,      \* master->bquit
    sel,        \* the fd sets handed to select, then the ones it returns
    pc,         \* where the loop task is
    cur,        \* the thread fetched and being called
    handle      \* the clients' handles

schedVars == <<list, type, add_type, arg, fd, sands, fdset, alloc>>
vars == <<list, type, add_type, arg, fd, sands, fdset, alloc, bquit, sel, pc, cur,
          handle>>

\* The loop task holds master->mutex.
LockedPc == {"timers", "readfds", "writefds", "background", "trim", "cancelev"}
Locked == pc \in LockedPc

\* User code runs in the loop task: module start-up, then callbacks.
InUserCode == pc \in {"init", "func"}

PC == LockedPc \cup {"init", "fetch", "select", "call", "func", "check", "exit",
                     "freed"}

Elems(s) == {s[i] : i \in DOMAIN s}
NoDup(s) == \A i, j \in DOMAIN s : s[i] = s[j] => i = j
NoFds == [d \in FdType |-> {}]

TypeOK ==
    /\ list \in [ListType -> Seq(Thread)]
    /\ type \in [Thread -> ListType \cup {"FREE"}]
    /\ add_type \in [Thread -> Pending \cup {NULL}]
    /\ arg \in [Thread -> Client \cup {NULL}]
    /\ fd \in [Thread -> Fd \cup {NULL}]
    /\ sands \in [Thread -> -1..MaxDelay]
    /\ fdset \in [FdType -> SUBSET Fd]
    /\ alloc \in Int
    /\ bquit \in BOOLEAN
    /\ sel \in [FdType -> SUBSET Fd]
    /\ pc \in PC
    /\ cur \in Thread \cup {NULL}
    /\ handle \in [Client -> Thread \cup {NULL}]

Init ==
    /\ list = [l \in ListType |-> <<>>]
    /\ type = [t \in Thread |-> "FREE"]
    /\ add_type = [t \in Thread |-> NULL]
    /\ arg = [t \in Thread |-> NULL]
    /\ fd = [t \in Thread |-> NULL]
    /\ sands = [t \in Thread |-> -1]
    /\ fdset = NoFds
    /\ alloc = 0
    /\ bquit = FALSE
    /\ sel = NoFds
    /\ pc = "init"
    /\ cur = NULL
    /\ handle = [c \in Client |-> NULL]

-----------------------------------------------------------------------------
(* List primitives *)

\* thread_list_delete: unlink t.  A thread that is on no list has next and
\* prev NULL, and unlinking it sets head and tail to NULL: the list is lost.
thread_list_delete(s, t) ==
    IF t \in Elems(s)
    THEN RemoveAt(s, CHOOSE i \in DOMAIN s : s[i] = t)
    ELSE <<>>

\* pqueue_enqueue: the places for a thread with d ticks to go.  The heap keeps
\* no order between equal deadlines, so any place among them is possible.
EnqueuePlaces(s, d) ==
    {k \in 1..(Len(s) + 1) : /\ \A i \in 1..(k - 1) : sands[s[i]] <= d
                             /\ \A i \in k..Len(s) : sands[s[i]] >= d}

\* thread_get: the struct is the head of the unuse list, or a new one.
thread_get_candidates ==
    IF list["UNUSED"] # <<>> THEN {Head(list["UNUSED"])}
                             ELSE {t \in Thread : type[t] = "FREE"}

UnuseTrimmed ==
    IF list["UNUSED"] # <<>> THEN Tail(list["UNUSED"]) ELSE <<>>

thread_get(t, ty, a) ==
    /\ t \in thread_get_candidates
    /\ alloc' = IF type[t] = "FREE" THEN alloc + 1 ELSE alloc
    /\ type' = [type EXCEPT ![t] = ty]
    /\ add_type' = [add_type EXCEPT ![t] = ty]
    /\ arg' = [arg EXCEPT ![t] = a]

-----------------------------------------------------------------------------
(* Operations that schedule a thread *)

\* funcname_thread_add_read_write; with the fd already registered it returns
\* NULL and changes nothing.
thread_add_read_write(t, dir, a, f) ==
    /\ f \notin fdset[dir]
    /\ thread_get(t, dir, a)
    /\ fdset' = [fdset EXCEPT ![dir] = @ \cup {f}]
    /\ fd' = [fd EXCEPT ![t] = f]
    /\ list' = [list EXCEPT !["UNUSED"] = UnuseTrimmed, ![dir] = Append(@, t)]
    /\ sands' = sands

\* Variant: the deadline is set from a stale reading of the clock.
thread_add_timer_late(t, ty, a, d) ==
    /\ thread_get(t, ty, a)
    /\ sands' = [sands EXCEPT ![t] = d + 1]
    /\ \E k \in EnqueuePlaces(list[ty], d) :
          list' = [list EXCEPT !["UNUSED"] = UnuseTrimmed,
                               ![ty] = InsertAt(@, k, t)]
    /\ UNCHANGED <<fd, fdset>>

\* funcname_thread_add_timer_timeval
thread_add_timer(t, ty, a, d) ==
    /\ thread_get(t, ty, a)
    /\ sands' = [sands EXCEPT ![t] = d]
    /\ \E k \in EnqueuePlaces(list[ty], d) :
          list' = [list EXCEPT !["UNUSED"] = UnuseTrimmed,
                               ![ty] = InsertAt(@, k, t)]
    /\ UNCHANGED <<fd, fdset>>

\* funcname_thread_add_event (ty = "EVENT") and funcname_thread_ready ("READY")
thread_add_event(t, ty, a) ==
    /\ thread_get(t, ty, a)
    /\ list' = [list EXCEPT !["UNUSED"] = UnuseTrimmed, ![ty] = Append(@, t)]
    /\ UNCHANGED <<fd, sands, fdset>>

-----------------------------------------------------------------------------
(* Operations that cancel threads *)

\* thread_add_unuse, after lst has lost t.  The other fields of an unused
\* struct are dead (thread_get overwrites them, thread_cancel returns before
\* reading them); the model forgets them.
thread_add_unuse(lst, t) ==
    /\ list' = [lst EXCEPT !["UNUSED"] = Append(@, t)]
    /\ type' = [type EXCEPT ![t] = "UNUSED"]
    /\ add_type' = [add_type EXCEPT ![t] = NULL]
    /\ arg' = [arg EXCEPT ![t] = NULL]
    /\ fd' = [fd EXCEPT ![t] = NULL]
    /\ sands' = [sands EXCEPT ![t] = -1]

\* Variant: t stays on the list it was scheduled on.
UnscheduleKeepsList(t) == thread_add_unuse(list, t)

\* Unlink t from the list its type names and put it on the unuse list.
Unschedule(t) ==
    thread_add_unuse([list EXCEPT ![type[t]] = thread_list_delete(@, t)], t)

\* thread_cancel; for an unused thread it returns without effect.
thread_cancel(t) ==
    /\ IF type[t] \in Pending
       THEN /\ Unschedule(t)
            /\ fdset' = IF type[t] \in FdType
                        THEN [fdset EXCEPT ![type[t]] = @ \ {fd[t]}]
                        ELSE fdset
       ELSE UNCHANGED <<list, type, add_type, arg, fd, sands, fdset>>
    /\ alloc' = alloc

-----------------------------------------------------------------------------
(* User code running in the loop task *)

\* THREAD_READ_ON, THREAD_WRITE_ON
UserAddReadWrite(c) ==
    /\ InUserCode /\ handle[c] = NULL
    /\ \E t \in Thread, dir \in FdType \cap AddTypes, f \in Fd :
          /\ thread_add_read_write(t, dir, c, f)
          /\ handle' = [handle EXCEPT ![c] = t]
    /\ UNCHANGED <<bquit, sel, pc, cur>>

\* THREAD_TIMER_ON, thread_add_background
UserAddTimer(c) ==
    /\ InUserCode /\ handle[c] = NULL
    /\ \E t \in Thread, ty \in TimerType \cap AddTypes, d \in 0..MaxDelay :
          /\ thread_add_timer(t, ty, c, d)
          /\ handle' = [handle EXCEPT ![c] = t]
    /\ UNCHANGED <<bquit, sel, pc, cur>>

\* client->t_event = thread_add_event(...)
UserAddEvent(c) ==
    /\ InUserCode /\ handle[c] = NULL
    /\ "EVENT" \in AddTypes
    /\ \E t \in Thread :
          /\ thread_add_event(t, "EVENT", c)
          /\ handle' = [handle EXCEPT ![c] = t]
    /\ UNCHANGED <<bquit, sel, pc, cur>>

\* thread_add_ready returns NULL, so no handle can be kept.
UserAddReady ==
    /\ InUserCode
    /\ "READY" \in AddTypes
    /\ \E t \in Thread : thread_add_event(t, "READY", NULL)
    /\ UNCHANGED <<bquit, sel, pc, cur, handle>>

\* Variant: thread_cancel without clearing the handle.
UserOffKeepsHandle(c) ==
    /\ InUserCode /\ handle[c] # NULL
    /\ thread_cancel(handle[c])
    /\ UNCHANGED <<bquit, sel, pc, cur, handle>>

\* THREAD_OFF
UserOff(c) ==
    /\ InUserCode /\ handle[c] # NULL
    /\ thread_cancel(handle[c])
    /\ handle' = [handle EXCEPT ![c] = NULL]
    /\ UNCHANGED <<bquit, sel, pc, cur>>

\* thread_cancel_event(m, NULL): withdraw the callbacks posted without a
\* handle from the event list and then from the ready list.
UserCancelEvent ==
    /\ pc = "func"
    /\ pc' = "cancelev"
    /\ UNCHANGED <<schedVars, bquit, sel, cur, handle>>

FirstWithNullArg(s) ==
    {s[i] : i \in {j \in DOMAIN s : /\ arg[s[j]] = NULL
                                    /\ \A k \in 1..(j - 1) : arg[s[k]] # NULL}}

CancelEventStep ==
    /\ pc = "cancelev"
    /\ \E t \in IF FirstWithNullArg(list["EVENT"]) # {}
                THEN FirstWithNullArg(list["EVENT"])
                ELSE FirstWithNullArg(list["READY"]) : Unschedule(t)
    /\ UNCHANGED <<fdset, alloc, bquit, sel, pc, cur, handle>>

CancelEventDone ==
    /\ pc = "cancelev"
    /\ FirstWithNullArg(list["EVENT"]) \cup FirstWithNullArg(list["READY"]) = {}
    /\ pc' = "func"
    /\ UNCHANGED <<schedVars, bquit, sel, cur, handle>>

\* Start-up is over: the task enters thread_mainloop.
StartLoop ==
    /\ pc = "init"
    /\ pc' = "fetch"
    /\ UNCHANGED <<schedVars, bquit, sel, cur, handle>>

-----------------------------------------------------------------------------
(* thread_fetch *)

\* thread_trim_head(&m->ready), the thread is returned to thread_mainloop.
TrimReady ==
    /\ cur' = Head(list["READY"])
    /\ list' = [list EXCEPT !["READY"] = Tail(@)]
    /\ pc' = "call"

FetchReady ==
    /\ pc = "fetch"
    /\ list["READY"] # <<>>
    /\ TrimReady
    /\ UNCHANGED <<type, add_type, arg, fd, sands, fdset, alloc, bquit, sel, handle>>

FetchQuit ==
    /\ pc = "fetch"
    /\ list["READY"] = <<>>
    /\ bquit
    /\ bquit' = FALSE
    /\ pc' = "exit"
    /\ UNCHANGED <<schedVars, sel, cur, handle>>

\* thread_process(&m->event): the whole event list goes to the ready list.
\* The fd sets are copied and the mutex is released around select.
FetchEvents ==
    /\ pc = "fetch"
    /\ list["READY"] = <<>>
    /\ ~bquit
    /\ type' = [t \in Thread |-> IF t \in Elems(list["EVENT"]) THEN "READY" ELSE type[t]]
    /\ list' = [list EXCEPT !["READY"] = @ \o list["EVENT"], !["EVENT"] = <<>>]
    /\ sel' = fdset
    /\ pc' = "select"
    /\ UNCHANGED <<add_type, arg, fd, sands, fdset, alloc, bquit, cur, handle>>

\* select: interrupted by a signal ...
SelectIntr ==
    /\ pc = "select"
    /\ sel' = NoFds
    /\ pc' = "fetch"
    /\ UNCHANGED <<schedVars, bquit, cur, handle>>

\* ... failed (a registered descriptor was closed): thread_fetch returns NULL
\* and thread_mainloop ends ...
SelectError ==
    /\ pc = "select"
    /\ sel' = NoFds
    /\ pc' = "exit"
    /\ UNCHANGED <<schedVars, bquit, cur, handle>>

\* ... or reports any subset of the descriptors, the empty one on a timeout.
\* The mutex is taken and the clock read: the clock stands still (Tick) until
\* the timers have been compared with that reading.
SelectReturn ==
    /\ pc = "select"
    /\ sel' \in {r \in [FdType -> SUBSET Fd] : \A d \in FdType : r[d] \subseteq sel[d]}
    /\ pc' = "timers"
    /\ UNCHANGED <<schedVars, bquit, cur, handle>>

\* Variant: a thread that becomes ready is put in front.
MoveToReadyFront(ty, i) ==
    /\ list' = [list EXCEPT ![ty] = RemoveAt(@, i),
                            !["READY"] = <<list[ty][i]>> \o @]
    /\ type' = [type EXCEPT ![list[ty][i]] = "READY"]

MoveToReady(ty, i) ==
    /\ list' = [list EXCEPT ![ty] = RemoveAt(@, i),
                            !["READY"] = Append(@, list[ty][i])]
    /\ type' = [type EXCEPT ![list[ty][i]] = "READY"]

\* Variant: due one tick too early.
timer_due_early(t) == sands[t] <= 1

\* The comparison of thread_timer_process.
timer_due(t) == sands[t] <= 0

\* One iteration of thread_timer_process on a queue, and its end.
TimerPop(ty, at, next) ==
    /\ pc = at
    /\ IF list[ty] # <<>> /\ timer_due(Head(list[ty]))
       THEN MoveToReady(ty, 1) /\ pc' = pc
       ELSE pc' = next /\ UNCHANGED <<list, type>>
    /\ UNCHANGED <<add_type, arg, fd, sands, fdset, alloc, bquit, sel, cur, handle>>

ProcessTimers == TimerPop("TIMER", "timers", "readfds")
\* Variant: the background queue is never looked at.
ProcessBackgroundNever ==
    /\ pc = "background"
    /\ pc' = "trim"
    /\ UNCHANGED <<schedVars, bquit, sel, cur, handle>>

ProcessBackground == TimerPop("BACKGROUND", "background", "trim")

\* One iteration of thread_process_fds_helper that finds a reported fd, and
\* its end.
Reported(dir) == {i \in DOMAIN list[dir] : fd[list[dir][i]] \in sel[dir]}

\* Variant: the descriptor stays in the fd set.
ProcessFdsKeepsFd(dir, at, next) ==
    /\ pc = at
    /\ \/ \E i \in Reported(dir) :
             /\ \A j \in Reported(dir) : i <= j
             /\ MoveToReady(dir, i)
             /\ pc' = pc
       \/ /\ Reported(dir) = {}
          /\ pc' = next
          /\ UNCHANGED <<list, type>>
    /\ UNCHANGED <<add_type, arg, fd, sands, fdset, alloc, bquit, sel, cur, handle>>

ProcessFds(dir, at, next) ==
    /\ pc = at
    /\ \/ \E i \in Reported(dir) :
             /\ \A j \in Reported(dir) : i <= j
             /\ MoveToReady(dir, i)
             /\ fdset' = [fdset EXCEPT ![dir] = @ \ {fd[list[dir][i]]}]
             /\ pc' = pc
       \/ /\ Reported(dir) = {}
          /\ pc' = next
          /\ UNCHANGED <<list, type, fdset>>
    /\ UNCHANGED <<add_type, arg, fd, sands, alloc, bquit, sel, cur, handle>>

ProcessReadFds == ProcessFds("READ", "readfds", "writefds")
ProcessWriteFds == ProcessFds("WRITE", "writefds", "background")

FetchTrim ==
    /\ pc = "trim"
    /\ IF list["READY"] # <<>> THEN TrimReady
                               ELSE pc' = "fetch" /\ UNCHANGED <<list, cur>>
    /\ sel' = NoFds
    /\ UNCHANGED <<type, add_type, arg, fd, sands, fdset, alloc, bquit, handle>>

-----------------------------------------------------------------------------
(* thread_call and thread_mainloop *)

\* The callback starts, and first clears the handle of the client it serves.
CallEnter ==
    /\ pc = "call"
    /\ pc' = "func"
    /\ handle' = [c \in Client |-> IF c = arg[cur] THEN NULL ELSE handle[c]]
    /\ UNCHANGED <<schedVars, bquit, sel, cur>>

\* The callback returns and its struct goes to the unuse list.
CallReturn ==
    /\ pc = "func"
    /\ thread_add_unuse(list, cur)
    /\ cur' = NULL
    /\ pc' = "check"
    /\ UNCHANGED <<fdset, alloc, bquit, sel, handle>>

\* Variant: bquit is reset and the loop goes on.
LoopCheckForgets ==
    /\ pc = "check"
    /\ pc' = "fetch"
    /\ bquit' = FALSE
    /\ UNCHANGED <<schedVars, sel, cur, handle>>

\* thread_mainloop looks at bquit after every call.
LoopCheck ==
    /\ pc = "check"
    /\ pc' = IF bquit THEN "exit" ELSE "fetch"
    /\ bquit' = FALSE
    /\ UNCHANGED <<schedVars, sel, cur, handle>>

\* Variant: the background queue is not subtracted.
thread_master_free_partial ==
    /\ pc = "exit"
    /\ alloc' = alloc - (Len(list["READ"]) + Len(list["WRITE"]) + Len(list["TIMER"])
                         + Len(list["EVENT"]) + Len(list["READY"])
                         + Len(list["UNUSED"]))
    /\ type' = [t \in Thread |-> "FREE"]
    /\ list' = [l \in ListType |-> <<>>]
    /\ fdset' = NoFds
    /\ pc' = "freed"
    /\ handle' = [c \in Client |-> NULL]
    /\ UNCHANGED <<add_type, arg, fd, sands, bquit, sel, cur>>

\* thread_master_free, after the loop has ended: it frees what it finds on
\* the lists and subtracts as much from alloc.
thread_master_free ==
    /\ pc = "exit"
    /\ alloc' = alloc - (Len(list["READ"]) + Len(list["WRITE"]) + Len(list["TIMER"])
                         + Len(list["EVENT"]) + Len(list["READY"])
                         + Len(list["UNUSED"]) + Len(list["BACKGROUND"]))
    /\ type' = [t \in Thread |->
                  IF \E l \in ListType : t \in Elems(list[l]) THEN "FREE" ELSE type[t]]
    /\ list' = [l \in ListType |-> <<>>]
    /\ fdset' = NoFds
    /\ pc' = "freed"
    /\ handle' = [c \in Client |-> NULL]
    /\ UNCHANGED <<add_type, arg, fd, sands, bquit, sel, cur>>

-----------------------------------------------------------------------------
(* Other tasks, and time *)

\* thread_add_event(master, func, NULL, 0) from another task.
Post ==
    /\ ~Locked /\ pc # "freed"
    /\ \E t \in Thread : thread_add_event(t, "EVENT", NULL)
    /\ UNCHANGED <<bquit, sel, pc, cur, handle>>

\* thread_fetch_quit, called without the mutex, from any task.
thread_fetch_quit ==
    /\ pc \notin {"exit", "freed"}
    /\ bquit' = TRUE
    /\ UNCHANGED <<schedVars, sel, pc, cur, handle>>

Tick ==
    /\ ~Locked
    /\ sands' = [t \in Thread |-> IF sands[t] > -1 THEN sands[t] - 1 ELSE -1]
    /\ UNCHANGED <<list, type, add_type, arg, fd, fdset, alloc, bquit, sel, pc, cur,
                   handle>>

-----------------------------------------------------------------------------
UserCode ==
    \/ \E c \in Client : \/ UserAddReadWrite(c) \/ UserAddTimer(c)
                         \/ UserAddEvent(c)     \/ UserOff(c)
    \/ UserAddReady
    \/ UserCancelEvent

LoopStep ==
    \/ StartLoop \/ FetchReady \/ FetchQuit \/ FetchEvents
    \/ ProcessTimers \/ ProcessReadFds \/ ProcessWriteFds \/ ProcessBackground
    \/ FetchTrim \/ CallEnter \/ LoopCheck \/ CancelEventStep \/ CancelEventDone

Next ==
    \/ UserCode
    \/ LoopStep
    \/ SelectIntr \/ SelectError \/ SelectReturn
    \/ CallReturn
    \/ thread_master_free
    \/ Post
    \/ thread_fetch_quit
    \/ Tick

Spec == Init /\ [][Next]_vars

\* The loop task runs, select returns within its timeout other than by a
\* signal now and then, callbacks terminate and time passes.
FairSpec ==
    /\ Spec
    /\ WF_vars(LoopStep)
    /\ SF_vars(SelectReturn)
    /\ SF_vars(CallReturn)
    /\ SF_vars(Tick)
-----------------------------------------------------------------------------
(* Properties *)

\* Every allocated struct thread is on exactly the list its type names, once;
\* the one thread that has been fetched is READY and on no list.  The lists
\* are changed by thread_get, thread_cancel, thread_cancel_event, thread_fetch
\* and thread_call, by several tasks.
ListInv ==
    /\ \A l \in ListType :
          /\ NoDup(list[l])
          /\ \A t \in Thread : t \in Elems(list[l]) <=> (type[t] = l /\ t # cur)
    /\ cur # NULL <=> pc \in {"call", "func", "cancelev"}
    /\ cur # NULL => type[cur] = "READY"

\* The fd sets passed to select name exactly the descriptors of the threads on
\* the read and write lists, and no descriptor has two threads: the asserts of
\* thread_cancel and the test of thread_add_read_write rely on it.
FdInv ==
    \A d \in FdType :
        /\ fdset[d] = {fd[t] : t \in Elems(list[d])}
        /\ \A s, t \in Elems(list[d]) : fd[s] = fd[t] => s = t

\* A client's handle, when it is not NULL, names a scheduled thread of that
\* client (or the one fetched whose callback has not started); and every
\* scheduled thread of a client is the one its handle names, so THREAD_OFF
\* reaches it and a callback that was cancelled is never called.
HandleInv ==
    /\ \A c \in Client : handle[c] # NULL =>
          /\ type[handle[c]] \in Pending
          /\ arg[handle[c]] = c
          /\ handle[c] = cur => pc = "call"
    /\ \A t \in Thread :
          (/\ type[t] \in Pending
           /\ arg[t] # NULL
           /\ t = cur => pc = "call") => handle[arg[t]] = t

\* A timer thread is never made ready early, nor ahead of one that is still
\* queued with an earlier deadline (thread_timer_process over the heap).
Popped(ty) == {t \in Thread : type[t] = "READY" /\ add_type[t] = ty}

TimerContract ==
    \A ty \in TimerType : \A t \in Popped(ty) :
        /\ sands[t] <= 0
        /\ \A u \in Elems(list[ty]) : sands[t] <= sands[u]

\* thread_master_free finds every struct ever allocated: nothing is lost from
\* the lists over the life of the loop, whatever way it ended.
NoLeak == pc = "freed" => alloc = 0 /\ \A t \in Thread : type[t] = "FREE"

\* The assertions of thread_add_unuse when thread_call is about to return a
\* struct: thread->next and thread->prev are NULL.
Next_(t) == \E l \in ListType : t \in Elems(list[l]) /\ t # list[l][Len(list[l])]
Prev_(t) == \E l \in ListType : t \in Elems(list[l]) /\ t # list[l][1]
UnuseAsserts == pc = "func" => ~Next_(cur) /\ ~Prev_(cur)

\* Every scheduled callback that does not wait for a descriptor is called or
\* cancelled, unless the loop ends ("to be fair to all kinds of threads, and
\* avoid starvation").
EveryThreadRuns ==
    \A t \in Thread :
        type[t] \in {"EVENT", "READY", "TIMER", "BACKGROUND"}
            ~> (t = cur \/ type[t] \in {"UNUSED", "FREE"} \/ pc = "exit")

\* A request to quit ends the loop, at whatever point it is made: select never
\* waits more than its timeout, and bquit is not reset before it is obeyed.
QuitStops == bquit ~> pc \in {"exit", "freed"}

\* What a struct is to the clients of the loop.
LoopStatus ==
    [t \in Thread |->
        CASE t = cur -> "running"
          [] t # cur /\ type[t] \in {"UNUSED", "FREE"} -> "idle"
          [] t # cur /\ type[t] = "READY" -> "queued"
          [] OTHER -> "armed"]

\* The loop implements EventLoop: whatever list, type or struct it uses, a
\* scheduled callback is queued once, callbacks are called one at a time and
\* first in, first out, each scheduling leads to at most one call, and none
\* that was cancelled is called.
Loop == INSTANCE EventLoop WITH
            Job <- Thread, queue <- list["READY"], status <- LoopStatus

ImplementsEventLoop == Loop!LoopSpec
===============================================================================
