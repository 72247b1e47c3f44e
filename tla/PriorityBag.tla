------------------------------ MODULE PriorityBag ------------------------------
(***************************************************************************)
(* What a priority queue promises: nodes go in with a key, any of them may *)
(* be taken back, and what comes out next has the least key of all.        *)
(***************************************************************************)
EXTENDS Integers

CONSTANTS Node, Key, NULL

VARIABLES bag,     \* the nodes in the queue
          key,     \* of each node in the queue
          taken    \* the node the last operation returned, if it was a dequeue

bagVars == <<bag, key, taken>>

BagInit ==
    /\ bag = {}
    /\ key = [n \in Node |-> NULL]
    /\ taken = NULL

Insert(n, k) ==
    /\ n \notin bag
    /\ bag' = bag \cup {n}
    /\ key' = [key EXCEPT ![n] = k]
    /\ taken' = NULL

Remove(n) ==
    /\ n \in bag
    /\ bag' = bag \ {n}
    /\ taken' = NULL
    /\ key' = [key EXCEPT ![n] = NULL]

TakeMin(n) ==
    /\ n \in bag
    /\ \A m \in bag : key[n] <= key[m]
    /\ bag' = bag \ {n}
    /\ taken' = n
    /\ key' = [key EXCEPT ![n] = NULL]

BagNext ==
    \E n \in Node :
        \/ \E k \in Key : Insert(n, k)
        \/ Remove(n)
        \/ TakeMin(n)

BagSpec == BagInit /\ [][BagNext]_bagVars
===============================================================================
