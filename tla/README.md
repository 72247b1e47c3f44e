# Verification of zpl-source

zpl-source is a platform for embedded network devices: a C runtime (tasks,
timers, queues, an event loop in the style of Quagga, a shell), a hardware
abstraction layer, network configuration, and components (modem, wifi, media,
web server, ...) built on it. This directory holds TLA+ models of its own
concurrent core, TLC runs that check them on small instances, and TLAPS proofs
for every size.

Code paths below are relative to `src/source/`.

## Inventory

| Part | State it keeps | Operations | Talks to |
|---|---|---|---|
| Event loop, `platform/lib/thread.c` | per `thread_master`: lists read, write, event, ready, unuse; heaps timer, background; fd sets; `bquit`; a mutex | `thread_add_*`, `thread_cancel`, `thread_cancel_event`, `thread_fetch`, `thread_call`, `thread_mainloop`, `thread_fetch_quit`, `thread_master_free` | every module: callbacks run in the loop task; other tasks post events |
| Timer heap, `platform/lib/pqueue.c` | array, size, capacity; the position kept in each timer | enqueue, dequeue, remove_at, with a comparison and an update callback | event loop |
| Second event loop, `platform/lib/eloop.c` | as thread.c | a copy of thread.c | media, some services |
| Supervisor, `tools/process`, `platform/os/os_process.c` | list of programs with id and pid, id counter; six connections | START, STOP, RESTART, LOOKUP/ECHO, DEAMON; `process_waitpid_api` | modem, wifi, shell through a unix socket; its children through fork, kill, waitpid |
| Host standby, `platform/ipcstandby` | role of the host, negotiation records, client and server sockets, timers | hello, negotiate, switch, forwarding of commands, time-outs | event loop (standbyTask), shell (`vty.c`), the other host over TCP, start-up |
| Message queues, `platform/os/os_queue.c` | list, free list, limit, semaphore | enqueue (drops the oldest at the limit), waiting dequeue, distribute, clone | nobody outside of `platform/os` |
| OS timers, `platform/os/os_time.c` | sorted list, unused list, mutex, semaphore, POSIX timers | create, destroy, cancel, restart, lookup; a timer task; a signal handler | all: callbacks run in the timer task |
| Jobs, `platform/os/os_job.c` | list, unused list, semaphore | add, delete, job task | all |
| Lists, `platform/os/os_list.c` | doubly linked lists | add, insert, delete, extract, sorted add | all |
| Tasks, mutexes, semaphores, `platform/os/os_task.c`, `os_sem.c` | pthread objects; all mutexes are of the error-checking kind | create, lock, unlock, give, take | all |
| HAL IPC, `halpal/hal/hal_ipcsrv.c`, `hal_client.c`, `hal_ipcmsg.c` | server: list of clients, tables of ports, a mutex; driver: two nodes, each a socket, a state and three handles | connect, hello, register, table of ports, requests and answers, reports | event loops (halTask, bspTask), nsm, start-up; both ends are tasks of one process |
| Start-up, `startup` | list of modules | init, start, exit in order | all |
| Shell, `platform/shell`, `platform/lib/command.c` | vty sessions, command tree | read, parse, execute, forward to the standby host | all |
| nsm, services, media, modem, applications | see `PROJECT.json` | | |

What makes the code hard:

* **Interleavings.** The loop releases its mutex around `select`; other tasks
  post events and cancel threads at that time and between any two callbacks.
  Structs are recycled while clients keep their addresses.
* **Order.** Seven containers feed one ready list; heaps with positions kept
  outside of the array.
* **Processes.** Programs die at any moment, pids are used again, an answer can
  come after the task has given up, a fork can return into the server's code.
* **Partial failure** of fork, exec, select, writes; **stale** negotiation
  records, handles, ids; **time-outs** that leave answers behind.

The list of hazards, each at its line and with the properties that watch it, is
in `PROJECT.json`.

What makes each part correct:

* event loop: a scheduled thread is on one list; handles name live threads; fd
  sets match; callbacks run in order, once, and not after cancellation; nothing
  is lost; nothing starves; the loop can be stopped.
* timer heap: a priority queue whatever is removed from its middle; positions
  are exact.
* supervisor: one process per name, none left behind; one answer per request,
  if its arguments fit; ids stay good; a positive answer is true.
* host standby: a client whose connection is lost connects again; the host takes
  the role that it has been told to take; start-up does not wait for ever.
* HAL IPC: a request goes to a driver whose ports are known, is answered once,
  and its answer is read by the task that waits for it and by no other; the
  platform learns the ports whatever comes first.
* timers, lists: no struct is lost, duplicated or on two lists; a timer does not
  run early, twice, or after it has been stopped in time; the timer task is woken
  for the first timer of the list.
* queues, jobs: no element is lost or duplicated; a waiting consumer is woken.

## Modules

| Module | Models |
|---|---|
| `EventLoop` | abstract: what the event loop promises |
| `Thread` | `thread.c` and the macros of `thread.h`, with clients that use them |
| `ThreadRace` | `Thread` with a second task that uses THREAD_OFF |
| `ThreadProofs` | theorems about `Thread`: lists and handles |
| `ThreadDataProofs` | theorems about `Thread`: descriptors, allocations, timers; `Thread` implements `EventLoop` |
| `PriorityBag` | abstract: a priority queue |
| `Pqueue` | `pqueue.c` with the callbacks of `thread.c` |
| `PqueueProofs` | theorems about `Pqueue` |
| `ProcessMU` | the supervisor, its programs and its client stub |
| `ProcessMUProofs` | theorems about `ProcessMU` |
| `AlarmClock` | abstract: timers that are started, stopped and run |
| `OsList` | `os_list.c`: operators on a memory of pointers |
| `OsListProofs` | theorems about `OsList`: what its functions do to a list |
| `OsTime` | `os_time.c` on `OsList`, its task, its signal and its clients |
| `OsTimeProofs` | theorems about `OsTime` |
| `Standby` | `ipcstandby`: one host, its client, its role and its start-up |
| `StandbyProofs` | theorems about `Standby` |
| `HalIpc` | `hal_client.c` in bspTask, `hal_ipcsrv.c` in halTask, tasks that send requests |
| `HalIpcProofs` | theorems about `HalIpc` |
| `MCThread`, `MCThreadRace`, `MCPqueue`, `MCProcessMU`, `MCOsTime`, `MCStandby`, `MCHalIpc` | instances for TLC |

Definitions whose comment starts with "Variant:" are deliberate mistakes that
no specification uses; each stands next to the definition it would replace and
shows which property would notice.

### Thread

`list` is the master's seven containers by type, `type`, `add_type`, `arg`,
`fd`, `sands` the fields of each `struct thread`, `fdset` the read and write
sets, `handle` what clients keep (`client->t_read` and the like), `pc` and `cur`
where the loop task is and which thread it has fetched. What the code does under
the mutex is one action; `thread_fetch` is one action up to `select`, one for
`select`, and after it one per iteration of `thread_timer_process` and
`thread_process_fds_helper`, during which the mutex keeps other tasks out.
Clients behave as the macros of `thread.h` prescribe: schedule when the handle
is NULL, cancel and clear with THREAD_OFF, and clear the handle first in the
callback. `sands` counts ticks from now, so time is relative and the clock is
not a variable. The order of timers with equal deadlines is left open, which is
what the heap does. `select` may be interrupted, fail, time out or report any
subset of the descriptors.

Not modelled: CPU statistics, `thread_execute` (a call without the loop),
`thread_wait_quit` (no caller).

### Pqueue

One step per operation start and per iteration of the loops of `trickle_up` and
`trickle_down`; `hole` and `tmp` are the local variables of these loops. In the
middle of an operation nobody else can look (the master's mutex is held), so the
properties speak of the time between operations, and the inductive invariant of
the time within. What nobody reads again is forgotten. `pqueue_expand` cannot
fail: `XCALLOC` ends the program when memory is out.

### ProcessMU

`table`, `lastid`, `job` are the list, the id counter and the request in the
middle of which a server sleeps, per server; `kid` is the kernel's view of each
pid, with zombies and reuse of freed pids; `req`, `rep` are the two directions
of the unix socket that all tasks of the application share; `late` counts the
requests that were given up. Every branch of `process_handle` is an action; the
ones that fork are split at `sleep(1)` (`FinishStart`). `Broken` is the set of
programs that `execvp` does not find: their child continues in the server's
code with pid 0, as a *twin* with a copy of the table. The passing runs have no
broken programs, since with one even `OneProcess` and `OneAnswer` fail; the run
`process_mu_exec` has one. `TooLong` is the set of programs whose arguments
`process_get` refuses (there are more than fit): a START or DEAMON of such a program
gets no answer (`HandleNoRoom`). `lost` counts these requests; the task that
waits may give up, or take another task's answer.

The code's `restart` flag is not in the model because it has no effect:
`process_waitpid_api`, the only place that looks at it, is called when
`os_select_wait` returns 0; it is called with time-out 0, which waits for ever,
and would return `OS_TIMEOUT`, a negative number, for a time-out. (If it were
called, it would also set the pid of every live program to 0, which is what
`waitpid(WNOHANG)` returns for it.) Neither are the case that `fork` fails,
where -1 is taken for a pid, and SIGHUP, whose handler runs `process_exit` in
the middle of anything.

### OsTime, OsList

`OsList` translates the functions of `os_list.c` assignment by assignment into
operators on a memory `m`: `next` and `previous` of each node, `HEAD`, `TAIL`
and `count` of each list. Nothing in the code keeps a caller from passing a node
of another list, and nothing in the model does; `WellFormed` says when the
pointers do form a list. `Chain` is what a loop from `lstFirst` along `lstNext`
visits; loops over a circular list are cut at the number of nodes.

`OsTime` has one action per function of the interface. `os_time_create_entry`
takes the mutex twice and reads the id that it returns when it has released the
mutex: it is three actions (`os_time_get_node`, `os_time_create_entry`,
`create_returns`), with the struct in `got` and then in `ret` in between. A
one-shot timer may have run by then, and the client is given the id 0, or that
of the client whose timer the struct is now.
`timer` holds the fields of the structs: `due` is `interrupt_timestamp` relative
to now, so that the clock is no variable; it stops at -1, since how late a timer
is makes no difference to the code. `alarms` holds when the POSIX timers that
have been set expire: each setting creates a new one and none is deleted, so
that earlier ones still expire. `sem` says whether the semaphore has been given:
a second `os_sem_give` before the task takes it makes the task go through its
list once more and find nothing, which `Interrupted` (a signal ends the wait)
allows at any time. The clock stands still while the mutex is held, and, if
`Slow` is FALSE, while a callback runs. The task's first loop is `Collect`, then
`CollectNext` per timer of the list, then `CollectEnd`; it holds the mutex
throughout (`Locked`). Its second loop releases the mutex around each callback
and is `RunTimer`, `Callback`, `CallbackReturns` per timer, then `EndLoop`.
`walk` is the copy of the node's pointer that the loops keep, taken before the
node is unlinked. Whatever a callback does with timers other clients can do at
the same moments. `Entry`, `Ready`, `Cancelled`, `Called` and `Unused` are the
assignments to the fields of a struct.

Fields that nobody reads before they are set again are reset, to keep states
few: `msec` and `type` of a struct that is unused, `due` of a cancelled timer.

Clients are the callers in `modem_event.c`, `modem_pppd.c`, `vty_stdio.c`,
`v9_video_disk.c`, which keep an id, and those of `nsm_arp.c` and the rtsp
session, which keep none (`Anonymous`). A client forgets its id when it destroys
the timer. When its one-shot timer runs it may keep the id, as
`vtyrl_stdio_timeout` always does and those of the modem do unless something is
pending (`Callback`): the id then names no timer, or the one of the client that
has been given the struct, which a restart or destroy takes. No property says
that an id is its client's own, since it is not. `Canceller` is the set of
clients that call `os_time_cancel` (modem, `v9_video_disk.c`), `KeepCancelled`
of those that restart the timer which they have cancelled; the modem does both
calls in a row. Both sets are empty in the run `os_time`: one client of the
second kind breaks the lists (run `os_time_restart`), and so does one of the
first kind beside one with a stale id, which restarts what the other has
cancelled. In `os_time_live` the only client cancels.

`AlarmClock` says which stops are in time: a timer that timeTask has moved to
`tmplist` (`collected`), or whose callback runs, is not found by `os_time_destroy`
and `os_time_cancel`, which then fail; it runs, and if it is periodic it is
armed again. What is collected leads nowhere but to `Fire`, so that the
refinement shows this as well.

Not modelled: `os_time_clean`, which nobody calls; `os_time_exit`;
`os_time_show`; the wrap of the 32-bit clock; failure of `malloc` and of
`timer_create`.

### Standby

`client` is `struct ipcstandby_client`: its socket, `is_connect` and its handles.
`sched` counts the scheduled threads of each of its functions, for handles and
threads come apart here: a hello that fails leaves its timer behind without a
handle. A handler of standbyTask and a command of the shell are one step each up
to where `ipcstandby_client_send_message` waits for the answer (`os_sock_recv`
with 500 ms); `pc` says which handler of which task waits, and the other task
goes on meanwhile. `role`, `neg`, `negtimer` and `changes` are `active_standby`,
the client's negotiation record, the eight second timer and the posted
`ipcstandby_negotiate_event_thread`s; `booting` is the task that polls in
`ipcstandby_done`. The other host dies and comes back at any time; what its
server tells ours (`serv_client_read`) is its switch callback, the only one that
changes our host.

Nothing locks the client between the two tasks, and the model draws three
consequences. What they write into `obuf` and read into `ibuf` at once is not
known: a read returns whatever it likes, at any time (`RecvReturns`), and no
property speaks of answers. A read of a closed connection fails
(`RecvClose`), in each of the tasks that wait. And when a failure in the shell
(`ipcstandby_client_failed`: three THREAD_OFF and a check and an add) meets
standbyTask while it fetches, runs or adds one of the same threads, anything may
happen: a thread that runs is cancelled, or two are added. That is `Race`, which is
possible wherever the shell can fail, and after which nothing is said about
standbyTask (`Raced` in the properties). The run `thread_race` has these
steps one by one.

Not modelled: `ipcstandby_exit`, the sessions of the own server, the content of
messages, statistics, the `delay` argument of a switch (no caller passes one), and
`ipcstandby_negotiate_handle`: `ipcstandby_serv.c:306-311` hands HELLO messages
to `read_switch` and SWITCH messages to `read_hello`, so that it is never
reached.

### HalIpc

`node` holds, per connection of the driver, `state`, the socket, the three
handles and how many threads of each function are scheduled; `link` the
connections, with the messages on their way in order, the requests on their way
and how many the driver or the server still owes an answer to; `client_list` and
`rec` the server's list and records; `req` the task of the platform that holds
the server's mutex; `starter` the task that runs `hal_client_hwport_register`
while bspTask may be in the middle of `hal_client_connect_check` (`bsp`):
`portnum` and `state` are each written by one of them and read by the other, so
these two are split where the other can look. A request (`send_message`)
cancels the reading thread of the first matching client in the list, writes,
waits (`msg_read_ok`, `msg_read_error`, `msg_read_timeout`) and goes on with the
next (`write_next`). That the registration's own timers, of one second each,
have run before the next `hal_client_connect_timeout` of five or retry of ten is
taken from the code's delays and said at the actions.

A driver that finds its connection broken is the one that reads from it, in
`hal_client_read_thread`, whose handle is not reset (against its comment at
`hal_client.c:696`). `hal_client_reset` then cancels the thread that runs, takes
away the heads of the ready list with it, and connects again at once on a loop that will put
the same struct aside a second time. `read_thread_stops` does what the reset
does to the connection, and what the three returns without a reset do, which is
nothing; after it the driver is `"gone"`, and the model goes on with the server
and the requests only. Every other end of a connection is that of
`hal_client_connect_check` and `hal_client_connect_timeout`, which wait ten
seconds before they connect again.

Not modelled: the content of messages, reports on the event connection, partial
reads (the code loses what it has read), the unix socket, the standby
connections (started by nobody), destruction.

## Runs

| Run | Instance | Shows |
|---|---|---|
| `thread_safety` | 4 structs, 2 clients, 2 descriptors, delay <= 1, symmetry | `TypeOK`, `ListInv`, `FdInv`, `HandleInv`, `TimerContract`, `NoLeak`; `Thread` implements `EventLoop` |
| `thread_live` | 3 structs, 1 client, 1 descriptor | `EveryThreadRuns`, `QuitStops` |
| `thread_race` | 3 structs, 2 clients, a second task | violation of the assertions of `thread_add_unuse` |
| `pqueue` | 7 nodes, 3 keys, capacity 2 at first | `TypeOK`, `HeapOrder`, `IndexInv`; `Pqueue` implements `PriorityBag` |
| `process_mu` | 2 tasks, 2 programs and one whose arguments do not fit, 3 pids, 3 ids, 1 request given up, symmetry | `TypeOK`, `OneProcess`, `NoOrphan`, `OneAnswer`, `IdsStable` |
| `process_mu_live` | 2 tasks, 1 program and one whose arguments do not fit, 2 pids, 2 ids | `Answered` |
| `process_mu_exec` | 1 task, 2 programs, one of them broken | violation of `AnswerTruth` |
| `os_time` | 3 structs, 2 clients, one of which keeps no id, delay 1, slow callbacks, symmetry | `TypeOK`, `ListsWellFormed`, `OnePlace`, `NoLostWakeup`; `OsTime` implements `AlarmClock` |
| `os_time_live` | 2 structs, 1 client that also cancels, delays 1 and 2, quick callbacks | `NoLostWakeup`, `DueTimersRun` |
| `os_time_restart` | 2 structs, 1 client that restarts a cancelled timer | violation of `ListsWellFormed` |
| `standby` | 2 hello timers, 2 posted changes | `TypeOK`, `NeverStuck`, `RoleInv`, `Reconnects`, `RoleSettles`, `Boots` |
| `hal_ipc` | the command connection, 2 connections at a time, 2 timers, 1 request given up | `TypeOK`, `OneReader`, `AnsweredOnce`, `PortsKnown`, `PortsLearnt` |

Bounds. The number of structs bounds allocations only: an operation that needs
one more waits. Four are enough for a fetched thread, one of each of two clients
and a post, and for reuse of each. Delays of 0 and 1 make timers that are due,
not yet due, equal and overdue. Seven nodes fill three levels of the heap, the
smallest shape in which the last node comes from another subtree than the gap
and has to go up; capacity 2 makes the array grow three times. Two programs and
three pids allow a pid to pass from one program to the other while an entry
still names it; three ids allow a program to be started after another has been
stopped; one request given up shifts all later answers, and one refused leaves
its task waiting among tasks that are answered. Three timers fill the
head, the middle and the end of a list, and let one run while another is created
and a third waits; in `os_time` their order is that in which they were armed,
and how far away they are plays no part in the lists. Delays of 1 and 2 give a
timer that is created before and one after the head of the list, and restarts
that move it either way.

In `standby` two hello timers are one with a handle and one that outlived its
connection, which is enough for the orphan to run during the next attempt; two
changes are one from the shell and one from the other host. Three of each give no
violation of the safety properties either (18,003 states). In `hal_ipc` two connections are the one
that the driver has given up and whose record the server still has, and the next
one; two timers are that of this connection and a leftover; the run has one node
of the driver because the two nodes meet only in `hal_client_hwport_register`
and in the server's list; the proofs of its safety properties are for both.

Deadlock is not checked where the system stops: after `thread_master_free`, and
after `process_exit`. `standby` and `hal_ipc` check it.

Findings. `thread_race`: THREAD_OFF from a second task (the shell, through
`ipcstandby_execue_clicmd`) on a thread that the loop has fetched puts a struct
on the unuse list while its callback runs; it is handed out again, and when the
callback returns `thread_add_unuse` is given a struct that is on a list, against
its assertions. `process_mu_exec`: see above; the client is told a positive id
for a program that never ran, and the twin's answer 0 is also on its way.
`os_time_restart`: `os_time_cancel` moves a timer to the unused list,
`os_time_restart` finds it there and links it into `time_list` without unlinking
it, so that the unused list leads into the other one and the counts are wrong.
The test `timer_test`, `modem_event_reload` and `modem_pppd_restart` make these
two calls in this order.

Behaviours that the models show without a run of their own. With callbacks that
take time (`Slow`), `NoLostWakeup` makes an exception of a first timer that is
late, and `DueTimersRun` is checked without them: `os_time_interval_refresh` subtracts
the clock from the deadline of the first timer without a sign, so that one which
has become late while callbacks ran gets a POSIX timer about 49 days away, and
one that is due at this moment gets one after its whole period; it then waits
for another timer's signal. And in ProcessMU: after a
program has died, the first START reaps it and answers 0, and every later START
and LOOKUP answers its id although nothing runs; only STOP or RESTART end this.

In Standby. Timers of hellos that failed are left without a handle and multiply
with every loss of the connection; a `connect_timeout` that is left over closes
the next connection, which is in order. A message whose answer is late or whose
connection is closed is reported as sent, with `ack` uninitialised, against
`ipcstandby_client.h:67`. After the shell's reset of the negotiation
nothing sets the state to FULL again unless the timer is still to run, so
`ipcstandby_done` may wait for ever (`Boots` has this exception). Both hosts are
active after they have started: only the eight second timer ends the
negotiation, and it looks at nothing the other host has said.

In HalIpc. When `hal_client_hwport_register` meets bspTask between its
assignment of `state` and its THREAD_OFF, its timer replaces the handle of
`connect_timeout`, which is left over and closes a good connection five seconds
later; the registration is never lost, but may be made twice. A command
connection that has registered is not read by the server any more: when it is
given up its record stays first in the list, the first request waits for it in
vain, and the next one never ends, because a write that returns -1 is added to
the count of bytes written (the state `"loop"`), with the mutex held. STARTDONE
on the event connection also ends the wait of start-up, maybe before the ports
are known.

Read in the code, without a model. `thread_wait_quit` would not end after
`select` has failed (nobody calls it). `thread.c:903` assigns `tv_sec` where it
means to compare it. A job
that is added takes the first element of the unused list and leaves it there;
as soon as one job has run, two jobs that are added before the task wakes up are
the same element, linked to itself, and the job task runs the second of them
for ever.

## Fairness

`thread_live` assumes weak fairness of the loop task, and strong fairness of
`select` returning other than by a signal (signals may interrupt it again and
again, but not always: its time-out is at most a second), of a callback
returning (it may schedule and cancel any number of threads first, and does not
do so for ever), and of the clock (it stands still while the mutex is held, and
must move when it is free again and again). The run leaves out
`thread_add_ready`, which no module calls: callbacks that keep adding ready
threads would starve the rest. Nothing is assumed of descriptors, posts or
requests to quit.

`os_time_live` assumes weak fairness of the timer task: it gets the mutex, and
callbacks return. Nothing is assumed of the clock, nor of `Interrupted`, so that
the task relies on the semaphore only.

`standby` assumes strong fairness of the threads of standbyTask that it needs
(opening a socket, the check, its time-out, the two of the negotiation): that
the loop calls every scheduled thread is `EveryThreadRuns` of `Thread`, and
strong because a wait in one handler keeps the others from running. Waits of
standbyTask end after 500 ms, and start-up polls. Nothing is assumed of the shell, nor that the other
host comes, stays, or goes.

`hal_ipc` assumes that the starter goes on, that bspTask and halTask run their
threads (strong for those that another task can cancel and schedule again), and
that a socket can be opened again and again. Nothing is assumed of requests.

`process_mu_live` assumes weak fairness of the server (it runs and `sleep(1)`
ends) and strong fairness of each task's read: tasks that wait in `select` on
the same socket are all woken by an answer, and none is for ever too late. That
programs end, or tasks give up, is not assumed. DEAMON runs `system()`, which is
taken to return: hostapd, wpa_supplicant and udhcpc put themselves into the
background.

## Proofs

All proofs hold for every value of the constants that satisfies the modules'
assumptions.

* `ThreadProofs`: `SpecTypeOK`, `SpecListInv`, `SpecHandleInv` and
  `SpecUnuseAsserts`. The inductive invariant is
  `IInv == TypeOK /\ ListInv /\ HandleInv`: which list a struct is on decides
  what its handle may be, and `thread_cancel` unlinks from the right list only
  because a handle never names a struct that is fetched, unused or another
  client's. There is one lemma per action; those on lists (`ScheduleInv`,
  `UnscheduleInv`, `MoveInv`) carry the argument for all actions that change
  them, and rest on lemmas about appending, inserting, removing and
  concatenating sequences. `SpecUnuseAsserts` is the counterpart of the run
  `thread_race`: as long as only the loop task cancels threads, the assertions
  hold.
* `ThreadDataProofs`: `SpecFdInv`, `SpecNoLeak`, `SpecTimerContract` and
  `SpecImplementsEventLoop`, so that every property of the run `thread_safety` is
  proved. The steps of `Next`
  are first sorted into ten kinds by what they do to a struct (`NextKinds`:
  scheduled for a descriptor, a time or an event, withdrawn, made ready, ...).
  Each theorem then has an invariant of its own, kept by each kind and resting
  on `IInv`. `FdOfType` says of the types what `FdInv` says of the lists.
  `AllocInv` says that `alloc` counts the structs that are not free; at
  `thread_master_free` no thread is being called, so by `ListInv` the lists are
  disjoint and hold them all, and their lengths add up to that count.
  `TimerInv` adds to `TimerContract` that each queue is ordered by deadline and
  that a waiting thread's `add_type` is its type, since only `add_type` tells
  where a thread that was made ready came from. The refinement needs only `IInv`:
  `LoopStatus` reads what a struct is to its users off `type` and `cur`, and each
  step schedules (`Arm`, `ArmNow`), cancels, makes ready (`Fire`, for one struct or
  for the whole event list), fetches (`Run`) or finishes, or changes neither
  `LoopStatus` nor the ready list.
* `PqueueProofs`: `SpecTypeOK` (no write outside the array), `SpecHeapOrder`,
  `SpecIndexInv` and `SpecImplementsBag`. The properties say nothing about the
  middle of an operation, so the inductive invariant `IInv` adds `ModeOK` (where
  the hole may be), `SlotsOK` (every filled slot has another node that knows its
  place) and `OrderOK` (the heap order around the hole: the hole's children are
  ordered with its parent, and `tmp` with the neighbour it has already been
  compared with). That the root is least (`RootIsMin`) is by well-founded
  induction on the position, with the parent as the smaller one.
* `ProcessMUProofs`: `SpecTypeOK` and `SpecIdsStable` (ids are never given again),
  whatever programs `execvp` does not find; `SpecNoOrphan`, `SpecOneProcess` and
  `SpecOneAnswer` (an answer for every request but those `process_get` refuses,
  and no second one) under `Broken = {}`, as in the run `process_mu`: a child that
  goes on as a second server (the run `process_mu_exec`) breaks them. The inductive
  invariant `IInv` is `Typed`, `Alone` (nobody but the server serves), `TableInv`,
  `NoOrphan` and `CountInv`. `TableInv` is what a lookup relies on: names and ids
  belong to one entry each, and an entry without a pid exists only while a start
  sleeps, as that of the request in `job`. So what is alive is found by its name,
  and a process is started only where none is. `IdsStable` needs only that a
  server which sleeps has an id for the entry it will add (`Startable`). The assumptions say that `NONE`, 0 and the server are
  no pids and that `NONE` is no request.
* `StandbyProofs`: `SpecTypeOK`, `SpecNeverStuck` and `SpecRoleInv`, all safety
  properties of the run `standby`. The inductive invariant `IInv` has three parts.
  `Sound`: which handles are set follows from the state of the socket, and each
  names a scheduled thread. `Waiting`: a handler of standbyTask that waits has
  cleared the handle of its own timer and will leave another. `Host`: a role that
  differs from the negotiation has a posted change. `Race` ends what is said of
  the link: the theorems then say what the properties say, which excuse a
  raced client. What a handler does on failing (`Failed`, `Send`) is treated
  once, as lemmas on any client and any schedule, and used by all handlers of
  both tasks.
* `HalIpcProofs`: all safety properties of `hal_ipc`, with one or both
  connections of the driver. `IInv` has four parts: `BoardInv` (handles of a node
  name scheduled threads, its socket is its own end of a connection, a thread
  that sends is scheduled only on a node in the right state), `PathInv` (each
  connection's messages follow one another in the order of the protocol and
  match the state of the server's record), `ToldInv` (STARTDONE comes only after
  the table of ports on the same connection) and `ReqInv` (the requester's client
  is in the list, registered, and not read by the loop). `PathInv` is what makes
  it inductive: `PortsKnown` is decided when STARTDONE is sent, long before it is
  read.

* `OsListProofs`: what the functions of `os_list.c` do, for lists of any length.
  `IsChain(m, L, c)` says pointer by pointer that `c` is the sequence of the nodes
  of `L`, without following the pointers; `lstInsert` and `lstDelete` change a
  few pointers, so that the sequence with a node put in or taken out is a chain
  again (`InsertIs`, `DeleteIs`). That following the pointers visits a chain
  (`WalkIs`, `ChainIs`) would be an induction: it is shown by taking the least
  place at which the two would differ (`Smallest`). `Sound(m)` says that every
  list has a chain and that no two share a node, which is what a caller has to
  know: `SoundDelete` needs that the node is on the list the caller names, and
  `SoundAddSort` that it is on none.
* `OsTimeProofs`: every property of the run `os_time`: `SpecTypeOK`,
  `SpecListsWellFormed`, `SpecOnePlace`, `SpecNoLostWakeup` and
  `SpecImplementsAlarmClock`. The inductive invariant `IInv` is `TypeOK`,
  `PlaceInv` (the lists are sound, and each struct is on a list, in the callback
  that runs or in an unfinished create), `FieldInv` (`state`, `lstid` and `msec`
  of a struct agree with where it is: `lstid` is what decides from which list
  `os_time_destroy` unlinks, and an unused struct is not one that a restart may
  link in) and `WalkInv` (where the task's loops are). Nothing is assumed of the
  ids that clients hold: they may be stale, or name another client's timer. All
  of it is under `Canceller = {}`, as in the run `os_time`; the run
  `os_time_restart` shows what the restart of a cancelled timer does to the lists.
  `SpecNoLostWakeup` holds whether callbacks are slow or not. For quick ones its
  invariant `WakeInv` says that `time_list` is in order of deadline (`TimeOrder`),
  that what the first loop has passed is not due, and that nothing in the list is
  due from then on to the end of the wait (`AllLater`); for slow ones `HeadSet`
  is enough. The refinement is shown step by step: each action is a step of the
  clock (`Start`, `Restart`, `Stop`, `Collect`, `Fire`, `Return`, `Pass`) or leaves
  what the mapping shows as it is. `CollectNext`, which moves a timer that is due
  to `tmplist`, is the abstract `Collect`: from there the only way on is `Fire`,
  so that a stop which fails is not taken for one that was in time.

Every safety property of the passing runs and every refinement is proved, except
`NoLostWakeup` for a client that cancels, which only the run `os_time_live` checks.
Only model-checked, too, is liveness, which is out of the prover's reach
(`EveryThreadRuns`, `QuitStops`, `Answered`, `DueTimersRun`, `Reconnects`,
`RoleSettles`, `Boots`, `PortsLearnt`). Not proved, because it is false without
them, is what the hypotheses named above exclude: `Broken` programs in ProcessMU,
and in OsTime clients that cancel (`Canceller`) beside clients that restart what
was cancelled.

## Plan

Modelled, checked and proved about in this order: the event loop and its heap;
the supervisor; timers and lists; the standby host; HAL IPC. Worth doing next:

1. Two hosts: `Standby` twice, each the other's environment, with the sessions
   of the server.
2. `os_job` on `OsList`, with the element that stays in the unused list.

## Not modelled

Vendored and generated code (onvif/gsoap, pjsip, libssh, sqlite, mosquitto,
webserver, udhcp, JRTPLIB, nginx, kconfig, watchquagga); parsing, formatting and
device drivers; nsm's configuration tables; `eloop.c`, which repeats `thread.c`;
media and modem, whose control is spread over device I/O; `os_queue`, which
nothing uses; `ipcbc`, whose shape is that of `ipcstandby` and whose only start
(`nsm_main.c:90`) is commented out. Each is listed with
its reason in `PROJECT.json`.
