-------------------------------- MODULE Pqueue --------------------------------
(***************************************************************************)
(* platform/lib/pqueue.c: the binary heap that holds the timer and         *)
(* background threads of a thread_master.                                  *)
(*                                                                         *)
(* Each iteration of the loops of trickle_up and trickle_down is a step.   *)
(* While one of them runs, the node being placed is in tmp, outside the    *)
(* array, and the slot hole is free.  The update callback                  *)
(* (thread_timer_update) keeps the position of a node in the node itself,  *)
(* and thread_cancel removes a node at the position it finds there.  What  *)
(* nobody reads again (a slot beyond the last, the index and the key of a  *)
(* node that has left) is forgotten.                                       *)
(***************************************************************************)
EXTENDS Integers

CONSTANTS Node,      \* what is queued: the timer threads
          Key,       \* thread->u.sands, compared by thread_timer_cmp
          InitSize,  \* PQUEUE_INIT_ARRAYSIZE
          NULL

ASSUME PqueueAssumption ==
    /\ NULL \notin Node
    /\ Key \subseteq Int
    /\ InitSize \in Nat \ {0}

VARIABLES
    array,       \* queue->array
    array_size,  \* queue->array_size
    size,        \* queue->size
    index,       \* thread->index, written by the update callback
    key,         \* thread->u.sands
    taken,       \* what the last pqueue_dequeue returned
    mode,        \* the operation under way
    hole,        \* index, in trickle_up and trickle_down
    tmp          \* tmp, in trickle_up and trickle_down

vars == <<array, array_size, size, index, key, taken, mode, hole, tmp>>

PARENT_OF(x) == (x - 1) \div 2
LEFT_OF(x) == 2 * x + 1
RIGHT_OF(x) == 2 * x + 2
HAVE_CHILD(x) == x < size \div 2

\* The slots the running operation works on: pqueue_enqueue counts the new
\* node only after trickle_up.
Slots == IF mode = "enqueue" THEN 0..size ELSE 0..(size - 1)

\* The nodes in the queue.
Content == {array[i] : i \in Slots \ {hole}} \cup (IF hole \in Slots THEN {tmp} ELSE {})

Init ==
    /\ array = [i \in 0..(InitSize - 1) |-> NULL]
    /\ array_size = InitSize
    /\ size = 0
    /\ index = [n \in Node |-> 0]
    /\ key = [n \in Node |-> NULL]
    /\ taken = NULL
    /\ mode = "idle"
    /\ hole = -1
    /\ tmp = NULL

\* Variant: the array is expanded one enqueue too late.
pqueue_expand_late ==
    IF size >= array_size + 1 THEN 2 * array_size ELSE array_size

\* The capacity pqueue_enqueue works with; pqueue_expand aborts on failure.
pqueue_expand == IF size + 2 >= array_size THEN 2 * array_size ELSE array_size

pqueue_enqueue(n, k) ==
    /\ mode = "idle" /\ n \notin Content
    /\ array_size' = pqueue_expand
    /\ array' = [i \in 0..(pqueue_expand - 1) |->
                   CASE i = size -> n
                     [] i # size /\ i < array_size -> array[i]
                     [] OTHER -> NULL]
    /\ index' = [index EXCEPT ![n] = size]
    /\ key' = [key EXCEPT ![n] = k]
    /\ mode' = "enqueue" /\ hole' = size /\ tmp' = n
    /\ taken' = NULL
    /\ size' = size

\* The gap at i is to be filled with the last node, which was in slot size - 1.
FillGap(i, n) ==
    /\ array' = [array EXCEPT ![i] = array[size - 1], ![size - 1] = NULL]
    /\ hole' = i /\ tmp' = array[size - 1]
    /\ size' = size - 1
    /\ index' = [index EXCEPT ![n] = 0]
    /\ key' = [key EXCEPT ![n] = NULL]
    /\ array_size' = array_size

\* Variant: the root is read after the last node has been put there.
pqueue_dequeue_swapped ==
    /\ mode = "idle" /\ size > 0
    /\ taken' = array[size - 1]
    /\ mode' = "down"
    /\ FillGap(0, array[0])

pqueue_dequeue ==
    /\ mode = "idle" /\ size > 0
    /\ taken' = array[0]
    /\ mode' = "down"
    /\ FillGap(0, array[0])

\* Variant: the node that fills the gap only ever moves down.
pqueue_remove_at_down(n) ==
    /\ mode = "idle" /\ n \in Content
    /\ mode' = "down"
    /\ taken' = NULL
    /\ FillGap(index[n], n)

\* pqueue_remove_at(thread->index, queue), as thread_cancel calls it.
pqueue_remove_at(n) ==
    /\ mode = "idle" /\ n \in Content
    /\ mode' = IF /\ index[n] > 0
                  /\ key[array[size - 1]] < key[array[PARENT_OF(index[n])]]
               THEN "up" ELSE "down"
    /\ taken' = NULL
    /\ FillGap(index[n], n)

\* Variant: the node that moves is not told its new place.
MoveToForgets(i) ==
    /\ array' = [array EXCEPT ![hole] = array[i]]
    /\ hole' = i
    /\ UNCHANGED <<array_size, size, index, key, taken, mode, tmp>>

\* One iteration: the node at i moves to the hole.
MoveTo(i) ==
    /\ array' = [array EXCEPT ![hole] = array[i]]
    /\ index' = [index EXCEPT ![array[i]] = hole]
    /\ hole' = i
    /\ UNCHANGED <<array_size, size, key, taken, mode, tmp>>

\* "Restore the tmp node to appropriate place".  When the last node itself was
\* removed, this place is the slot that has just been given up.
Restore ==
    /\ IF hole \in Slots
       THEN /\ array' = [array EXCEPT ![hole] = tmp]
            /\ index' = [index EXCEPT ![tmp] = hole]
       ELSE UNCHANGED <<array, index>>
    /\ size' = IF mode = "enqueue" THEN size + 1 ELSE size
    /\ mode' = "idle" /\ hole' = -1 /\ tmp' = NULL
    /\ UNCHANGED <<array_size, key, taken>>

trickle_up ==
    /\ mode \in {"enqueue", "up"}
    /\ IF hole > 0 /\ key[tmp] < key[array[PARENT_OF(hole)]]
       THEN MoveTo(PARENT_OF(hole))
       ELSE Restore

Which == IF /\ RIGHT_OF(hole) < size
            /\ key[array[LEFT_OF(hole)]] > key[array[RIGHT_OF(hole)]]
         THEN RIGHT_OF(hole) ELSE LEFT_OF(hole)

trickle_down ==
    /\ mode = "down"
    /\ IF HAVE_CHILD(hole) /\ key[array[Which]] <= key[tmp]
       THEN MoveTo(Which)
       ELSE Restore

Next ==
    \/ \E n \in Node, k \in Key : pqueue_enqueue(n, k)
    \/ pqueue_dequeue
    \/ \E n \in Node : pqueue_remove_at(n)
    \/ trickle_up
    \/ trickle_down

Spec == Init /\ [][Next]_vars
-----------------------------------------------------------------------------
(* Properties *)

\* The heap never outgrows its array: pqueue_enqueue writes inside it.
TypeOK ==
    /\ array_size \in Nat /\ size \in Nat /\ size < array_size
    /\ array \in [0..(array_size - 1) -> Node \cup {NULL}]
    /\ index \in [Node -> Nat]
    /\ key \in [Node -> Key \cup {NULL}]
    /\ taken \in Node \cup {NULL}
    /\ mode \in {"idle", "enqueue", "up", "down"}
    /\ tmp \in Node \cup {NULL}
    /\ hole \in -1..(array_size - 1)

\* Between two operations no node precedes its parent, whatever was enqueued,
\* dequeued or removed from the middle.
HeapOrder ==
    mode = "idle" =>
        \A i \in 1..(size - 1) : key[array[PARENT_OF(i)]] <= key[array[i]]

\* Between two operations a queued node is where its index says, the assertion
\* of thread_cancel: "thread == queue->array[thread->index]".
IndexInv == mode = "idle" => \A n \in Content : index[n] < size /\ array[index[n]] = n

\* Whatever moves inside, the heap is a priority queue: no node is lost or
\* duplicated, and pqueue_dequeue returns one with the least key.
Bag == INSTANCE PriorityBag WITH bag <- Content

ImplementsBag == Bag!BagSpec
-----------------------------------------------------------------------------
(* The inductive invariant behind these properties, which also says what     *)
(* holds in the middle of an operation.                                      *)

\* The slots that hold a node.
Filled == Slots \ {hole}

\* The operation and its hole: only the removal of the last node leaves the
\* hole outside of the heap.
ModeOK ==
    /\ mode = "idle" => hole = -1
    /\ mode # "idle" => tmp \in Node /\ hole \in 0..size
    /\ mode = "enqueue" => size + 1 < array_size
    /\ mode = "up" => hole < size

\* Every filled slot holds another node, with a key, that knows its place.
SlotsOK ==
    /\ \A i \in Filled : /\ array[i] \in Node
                         /\ key[array[i]] \in Key
                         /\ index[array[i]] = i
                         /\ array[i] # tmp
    /\ hole \in Slots => key[tmp] \in Key

\* The heap order around the hole.
OrderOK ==
    /\ \A i \in Filled \ {0} :
          /\ PARENT_OF(i) # hole => key[array[PARENT_OF(i)]] <= key[array[i]]
          /\ PARENT_OF(i) = hole /\ hole > 0 =>
                key[array[PARENT_OF(hole)]] <= key[array[i]]
          /\ PARENT_OF(i) = hole /\ mode # "down" => key[tmp] <= key[array[i]]
    /\ mode = "down" /\ hole > 0 /\ hole \in Slots =>
          key[array[PARENT_OF(hole)]] <= key[tmp]

IInv == TypeOK /\ ModeOK /\ SlotsOK /\ OrderOK
===============================================================================
