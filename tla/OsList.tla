-------------------------------- MODULE OsList --------------------------------
(***************************************************************************)
(* platform/os/os_list.c: doubly linked lists whose nodes carry their own  *)
(* two pointers, so that a node can be in one list only.  Nothing records  *)
(* in which: lstDelete trusts its caller.  The functions are operators on  *)
(* a memory m of pointers, counts and list descriptors.                    *)
(***************************************************************************)
EXTENDS Integers, Sequences, FiniteSets

CONSTANTS Node, List, NULL

ASSUME OsListAssumption == IsFiniteSet(Node) /\ NULL \notin Node

Memory == [next : [Node -> Node \cup {NULL}],  previous : [Node -> Node \cup {NULL}],
           HEAD : [List -> Node \cup {NULL}],  TAIL : [List -> Node \cup {NULL}],
           count : [List -> Int]]

\* Every list empty, as after lstInit.
EmptyLists ==
    [next |-> [n \in Node |-> NULL], previous |-> [n \in Node |-> NULL],
     HEAD |-> [L \in List |-> NULL], TAIL |-> [L \in List |-> NULL],
     count |-> [L \in List |-> 0]]

\* Insertion of n into L after p, at the head if p is NULL.
lstInsert(m, L, p, n) ==
    LET pNext == IF p = NULL THEN m.HEAD[L] ELSE m.next[p]
        fwd == IF p = NULL THEN [m EXCEPT !.HEAD[L] = n] ELSE [m EXCEPT !.next[p] = n]
        bwd == IF pNext = NULL THEN [fwd EXCEPT !.TAIL[L] = n]
                               ELSE [fwd EXCEPT !.previous[pNext] = n]
        own == [bwd EXCEPT !.next[n] = pNext, !.previous[n] = p]
    IN  [own EXCEPT !.count[L] = @ + 1]

lstAdd(m, L, n) == lstInsert(m, L, m.TAIL[L], n)

lstDelete(m, L, n) ==
    LET p == m.previous[n]
        q == m.next[n]
        fwd == IF p = NULL THEN [m EXCEPT !.HEAD[L] = q] ELSE [m EXCEPT !.next[p] = q]
        bwd == IF q = NULL THEN [fwd EXCEPT !.TAIL[L] = p] ELSE [fwd EXCEPT !.previous[q] = p]
    IN  [bwd EXCEPT !.count[L] = @ - 1]

\* The i-th node that lstFirst and lstNext lead to, NULL beyond the last one.
Walk(m, L) ==
    LET at[i \in 0..Cardinality(Node)] ==
            IF i = 0 THEN m.HEAD[L]
            ELSE LET n == at[i - 1]
                 IN  IF n = NULL THEN NULL ELSE m.next[n]
    IN  at

\* The nodes of a loop from lstFirst along lstNext, as far as they differ.
Chain(m, L) ==
    LET at == Walk(m, L)
        visited == {i \in 1..Cardinality(Node) : at[i - 1] # NULL}
    IN  [i \in 1..Cardinality(visited) |-> at[i - 1]]

On(m, L) ==
    LET c == Chain(m, L)
    IN  {c[i] : i \in DOMAIN c}

\* Insertion before the first node with a larger key, key being what the list's
\* cmp compares.  The ends are tried first.
lstAddSort(m, L, n, key) ==
    LET c == Chain(m, L)
        Later == {i \in DOMAIN c : key[n] < key[c[i]]}
        first == CHOOSE i \in Later : \A j \in Later : i <= j
    IN  IF m.count[L] = 0 \/ Later = {} \/ ~(key[n] < key[m.TAIL[L]])
        THEN lstAdd(m, L, n)
        ELSE lstInsert(m, L, m.previous[c[first]], n)

\* "A list descriptor that will contain pointers to the first and last nodes in
\* the list, and a count of the number of nodes in the list"; "both the forward
\* and backward chains are terminated with a NULL pointer".
WellFormed(m, L) ==
    LET c == Chain(m, L)
    IN  /\ Walk(m, L)[Cardinality(Node)] = NULL
        /\ m.count[L] = Len(c)
        /\ m.TAIL[L] = (IF c = <<>> THEN NULL ELSE c[Len(c)])
        /\ \A i \in DOMAIN c : m.previous[c[i]] = (IF i = 1 THEN NULL ELSE c[i - 1])
===============================================================================
