------------------------------- MODULE EventLoop -------------------------------
(***************************************************************************)
(* What platform/lib/thread.c promises its users: a job that is armed is   *)
(* queued at most once, jobs are run one at a time in the order in which   *)
(* they were queued, each arming leads to at most one run, and a cancelled *)
(* job is not run.                                                         *)
(***************************************************************************)
EXTENDS Naturals, Sequences

CONSTANT Job

VARIABLES status,   \* of each job
          queue     \* jobs waiting to be run, oldest first

loopVars == <<status, queue>>

Status == {"idle", "armed", "queued", "running"}
Running == {j \in Job : status[j] = "running"}
Queued(q) == {q[i] : i \in DOMAIN q}
\* q without its i-th element.
Without(q, i) == SubSeq(q, 1, i - 1) \o SubSeq(q, i + 1, Len(q))

LoopInit ==
    /\ status = [j \in Job |-> "idle"]
    /\ queue = <<>>

\* A user schedules a job for later ...
Arm(j) ==
    /\ status[j] = "idle"
    /\ status' = [status EXCEPT ![j] = "armed"]
    /\ UNCHANGED queue

\* ... or for as soon as possible.
ArmNow(j) ==
    /\ status[j] = "idle"
    /\ status' = [status EXCEPT ![j] = "queued"]
    /\ queue' = Append(queue, j)

\* What some jobs wait for has happened: they join the queue, each once and in
\* some order.
Fire ==
    \E S \in (SUBSET {j \in Job : status[j] = "armed"}) \ {{}} :
        /\ status' = [j \in Job |-> IF j \in S THEN "queued" ELSE status[j]]
        /\ Len(queue) <= Len(queue') /\ SubSeq(queue', 1, Len(queue)) = queue
        /\ LET new == SubSeq(queue', Len(queue) + 1, Len(queue'))
           IN  /\ Queued(new) = S
               /\ \A i, j \in DOMAIN new : new[i] = new[j] => i = j

\* A user takes a job back before it is run.
Cancel(j) ==
    /\ status[j] \in {"armed", "queued"}
    /\ status' = [status EXCEPT ![j] = "idle"]
    /\ IF status[j] = "armed" THEN UNCHANGED queue
       ELSE \E i \in DOMAIN queue : queue[i] = j /\ queue' = Without(queue, i)

Run ==
    /\ Running = {}
    /\ queue # <<>>
    /\ status' = [status EXCEPT ![Head(queue)] = "running"]
    /\ queue' = Tail(queue)

Finish(j) ==
    /\ status[j] = "running"
    /\ status' = [status EXCEPT ![j] = "idle"]
    /\ UNCHANGED queue

\* The loop is torn down between two jobs.
Shutdown ==
    /\ Running = {}
    /\ status' = [j \in Job |-> "idle"]
    /\ queue' = <<>>

LoopNext ==
    \/ \E j \in Job : Arm(j) \/ ArmNow(j) \/ Cancel(j) \/ Finish(j)
    \/ Fire
    \/ Run
    \/ Shutdown

LoopSpec == LoopInit /\ [][LoopNext]_loopVars
===============================================================================
