------------------------------ MODULE OsListProofs ------------------------------
(***************************************************************************)
(* What the functions of os_list.c do to a list that is well formed: they  *)
(* insert a node into the sequence of its nodes, or remove one from it,    *)
(* and leave every other list as it is.  IsChain(m, L, c) says, pointer by *)
(* pointer, that c is the sequence of the nodes of L; Chain(m, L), which   *)
(* follows the pointers, is then c (ChainIs).                              *)
(***************************************************************************)
EXTENDS OsList, FiniteSetTheorems, WellFoundedInduction, TLAPS

\* The i-th node, NULL before the first and after the last one.
Nth(c, i) == IF i \in 1..Len(c) THEN c[i] ELSE NULL

NodesOf(c) == {c[i] : i \in 1..Len(c)}

IsChain(m, L, c) ==
    /\ c \in Seq(Node)
    /\ \A i, j \in 1..Len(c) : c[i] = c[j] => i = j
    /\ m.HEAD[L] = Nth(c, 1)
    /\ m.TAIL[L] = Nth(c, Len(c))
    /\ m.count[L] = Len(c)
    /\ \A i \in 1..Len(c) : m.next[c[i]] = Nth(c, i + 1)
    /\ \A i \in 1..Len(c) : m.previous[c[i]] = Nth(c, i - 1)

\* n is put at place k.
Inserted(c, k, n) ==
    [i \in 1..(Len(c) + 1) |-> IF i < k THEN c[i] ELSE IF i = k THEN n ELSE c[i - 1]]

\* What is at place k is taken out.
Removed(c, k) == [i \in 1..(Len(c) - 1) |-> IF i < k THEN c[i] ELSE c[i + 1]]
-----------------------------------------------------------------------------
\* A set of numbers that is not empty has a least one: what stands for
\* induction here.
LEMMA Smallest ==
    ASSUME NEW S, S \subseteq Nat, S # {}
    PROVE  \E x \in S : \A y \in S : x <= y
<1>1. PICK x \in S : \A y \in S : <<y, x>> \notin OpToRel(<, Nat)
  BY WFMin, NatLessThanWellFounded, Zenon
<1>2. \A y \in S : ~ (y < x) BY <1>1, Zenon DEF OpToRel
<1> QED BY <1>2

\* So many are the numbers up to k.
LEMMA UpTo ==
    ASSUME NEW k \in Nat
    PROVE  IsFiniteSet(1..k) /\ Cardinality(1..k) = k
<1>1. \A a, b \in Int : IsFiniteSet(a..b) /\ Cardinality(a..b) = IF a > b THEN 0 ELSE b - a + 1
  BY FS_Interval
<1>2. IsFiniteSet(1..k) /\ Cardinality(1..k) = IF 1 > k THEN 0 ELSE k - 1 + 1 BY <1>1
<1> QED BY <1>2

\* A list has no more nodes than there are.
LEMMA ChainBound ==
    ASSUME NEW m, NEW L, NEW c, IsChain(m, L, c)
    PROVE  /\ Cardinality(Node) \in Nat /\ Len(c) \in Nat /\ Len(c) <= Cardinality(Node)
           /\ c \in Seq(Node) /\ c \in [1..Len(c) -> Node] /\ (c = <<>> <=> Len(c) = 0)
           /\ \A i \in 1..Len(c) : c[i] # NULL
<1>1. c \in Seq(Node) /\ Len(c) \in Nat /\ c \in [1..Len(c) -> Node] BY DEF IsChain
<1>2. c \in Injection(1..Len(c), Node) BY <1>1 DEF IsChain, Injection, IsInjective
<1>3. IsFiniteSet(Node) /\ Cardinality(Node) \in Nat BY OsListAssumption, FS_CardinalityType
<1>4. IsFiniteSet(1..Len(c)) /\ Cardinality(1..Len(c)) = Len(c) BY <1>1, UpTo
<1> DEFINE C == 1..Len(c)
<1>5. IsFiniteSet(C) /\ c \in Injection(C, Node) BY <1>2, <1>4
<1> HIDE DEF C
<1>6. Cardinality(C) <= Cardinality(Node) BY <1>3, <1>5, FS_Injection DEF ExistsInjection
<1> QED BY <1>1, <1>3, <1>4, <1>6, OsListAssumption DEF C

\* Walk follows the chain and stays at NULL after its end.
LEMMA WalkIs ==
    ASSUME NEW m, NEW L, NEW c, IsChain(m, L, c)
    PROVE  Walk(m, L) = [i \in 0..Cardinality(Node) |-> Nth(c, i + 1)]
<1> DEFINE N == Cardinality(Node)
           step(f, i) == IF i = 0 THEN m.HEAD[L]
                         ELSE LET n == f[i - 1] IN IF n = NULL THEN NULL ELSE m.next[n]
           w == [i \in 0..N |-> Nth(c, i + 1)]
<1>1. N \in Nat /\ Len(c) \in Nat /\ c \in Seq(Node) BY ChainBound
<1>2. \A i \in 1..Len(c) : c[i] # NULL BY ChainBound
<1>3. w = [i \in 0..N |-> step(w, i)]
  <2>1. ASSUME NEW i \in 0..N PROVE w[i] = step(w, i)
    <3>1. CASE i = 0 BY <1>1, <3>1 DEF IsChain
    <3>2. CASE i # 0 /\ i \in 1..Len(c)
      <4>1. w[i - 1] = c[i] /\ w[i] = Nth(c, i + 1) BY <1>1, <3>2 DEF Nth
      <4> QED BY <1>2, <3>2, <4>1 DEF IsChain
    <3>3. CASE i # 0 /\ i \notin 1..Len(c)
      <4>1. w[i - 1] = NULL /\ w[i] = NULL BY <1>1, <3>3 DEF Nth
      <4> QED BY <3>3, <4>1
    <3> QED BY <3>1, <3>2, <3>3
  <2> QED BY <2>1
<1>4. ASSUME NEW f, f = [i \in 0..N |-> step(f, i)] PROVE f = w
  <2> DEFINE D == {i \in 0..N : f[i] # w[i]}
  <2>1. SUFFICES ASSUME D # {} PROVE FALSE
    <3>1. \A i \in 0..N : f[i] = w[i] BY <2>1
    <3>2. f = [i \in 0..N |-> f[i]] BY <1>4
    <3> QED BY <3>1, <3>2
  <2>a. D \subseteq Nat /\ D # {} BY <1>1, <2>1
  <2> HIDE DEF D
  <2>2. PICK x \in D : \A y \in D : x <= y BY <2>a, Smallest
  <2> USE DEF D
  <2>3. x = 0 \/ (x - 1 \in 0..N /\ f[x - 1] = w[x - 1]) BY <1>1, <2>2
  <2>4. x \in 0..N /\ f[x] = step(f, x) /\ w[x] = step(w, x) BY <1>3, <1>4, <2>2
  <2> HIDE DEF w
  <2>5. f[x] = w[x] BY <2>3, <2>4
  <2> QED BY <2>2, <2>5
<1>5. Walk(m, L) = CHOOSE f : f = [i \in 0..N |-> step(f, i)] BY DEF Walk
<1> HIDE DEF w, step
<1> QED BY <1>3, <1>4, <1>5 DEF w

\* A loop along the list visits the chain.
LEMMA ChainIs ==
    ASSUME NEW m, NEW L, NEW c, IsChain(m, L, c)
    PROVE  Chain(m, L) = c /\ On(m, L) = NodesOf(c)
<1> DEFINE N == Cardinality(Node)
           w == [i \in 0..N |-> Nth(c, i + 1)]
           visited == {i \in 1..N : w[i - 1] # NULL}
<1>1. N \in Nat /\ Len(c) \in Nat /\ Len(c) <= N /\ c \in Seq(Node) BY ChainBound
<1>2. \A i \in 1..Len(c) : c[i] # NULL BY ChainBound
<1>3. visited = 1..Len(c) BY <1>1, <1>2 DEF Nth
<1>4. Cardinality(1..Len(c)) = Len(c) BY <1>1, UpTo
<1>5. Walk(m, L) = w BY WalkIs
<1>6. Chain(m, L) = [i \in 1..Cardinality(visited) |-> w[i - 1]]
  <2> HIDE DEF w
  <2> QED BY <1>5 DEF Chain
<1>7. \A i \in 1..Len(c) : w[i - 1] = c[i] BY <1>1 DEF Nth
<1> HIDE DEF visited, w
<1>8. Chain(m, L) = [i \in 1..Len(c) |-> c[i]] BY <1>3, <1>4, <1>6, <1>7
<1>9. Chain(m, L) = c BY <1>1, <1>8
<1> QED BY <1>1, <1>9 DEF On, NodesOf

\* The descriptor tells the truth about a chain.
LEMMA WellFormedIs ==
    ASSUME NEW m, NEW L, NEW c, IsChain(m, L, c)
    PROVE  WellFormed(m, L)
<1>1. Chain(m, L) = c BY ChainIs
<1>2. /\ Cardinality(Node) \in Nat /\ Len(c) \in Nat /\ Len(c) <= Cardinality(Node)
      /\ DOMAIN c = 1..Len(c) /\ (c = <<>> <=> Len(c) = 0)
  BY ChainBound
<1>3. Walk(m, L)[Cardinality(Node)] = NULL BY <1>2, WalkIs DEF Nth
<1> QED BY <1>1, <1>2, <1>3 DEF WellFormed, IsChain, Nth
-----------------------------------------------------------------------------
\* What lstInsert assigns: n has got between p and q.
Linked(w, m, L, p, q, n) ==
    /\ \A K \in List : /\ w.HEAD[K] = IF K = L /\ p = NULL THEN n ELSE m.HEAD[K]
                       /\ w.TAIL[K] = IF K = L /\ q = NULL THEN n ELSE m.TAIL[K]
                       /\ w.count[K] = IF K = L THEN m.count[K] + 1 ELSE m.count[K]
    /\ \A x \in Node : /\ w.next[x] = IF x = n THEN q ELSE IF x = p THEN n ELSE m.next[x]
                       /\ w.previous[x] = IF x = n THEN p ELSE IF x = q THEN n ELSE m.previous[x]

\* What lstDelete assigns: p and q have become neighbours.
Unlinked(w, m, L, p, q) ==
    /\ \A K \in List : /\ w.HEAD[K] = IF K = L /\ p = NULL THEN q ELSE m.HEAD[K]
                       /\ w.TAIL[K] = IF K = L /\ q = NULL THEN p ELSE m.TAIL[K]
                       /\ w.count[K] = IF K = L THEN m.count[K] - 1 ELSE m.count[K]
    /\ \A x \in Node : /\ w.next[x] = IF x = p THEN q ELSE m.next[x]
                       /\ w.previous[x] = IF x = q THEN p ELSE m.previous[x]

\* lstInsert, assignment by assignment.
LEMMA InsertLinks ==
    ASSUME NEW m \in Memory, NEW L \in List, NEW p \in Node \cup {NULL}, NEW n \in Node,
           NEW q, q = (IF p = NULL THEN m.HEAD[L] ELSE m.next[p]), p # n, q # n
    PROVE  lstInsert(m, L, p, n) \in Memory /\ Linked(lstInsert(m, L, p, n), m, L, p, q, n)
<1> DEFINE fwd == IF p = NULL THEN [m EXCEPT !.HEAD[L] = n] ELSE [m EXCEPT !.next[p] = n]
           bwd == IF q = NULL THEN [fwd EXCEPT !.TAIL[L] = n] ELSE [fwd EXCEPT !.previous[q] = n]
           own == [bwd EXCEPT !.next[n] = q, !.previous[n] = p]
           w == [own EXCEPT !.count[L] = @ + 1]
<1>1. q \in Node \cup {NULL} BY DEF Memory
<1>2. /\ fwd \in Memory
      /\ fwd.TAIL = m.TAIL /\ fwd.previous = m.previous /\ fwd.count = m.count
      /\ fwd.HEAD = IF p = NULL THEN [m.HEAD EXCEPT ![L] = n] ELSE m.HEAD
      /\ fwd.next = IF p = NULL THEN m.next ELSE [m.next EXCEPT ![p] = n]
  BY DEF Memory
<1>3. lstInsert(m, L, p, n) = w BY DEF lstInsert
<1> HIDE DEF fwd
<1>4. /\ bwd \in Memory
      /\ bwd.HEAD = fwd.HEAD /\ bwd.next = fwd.next /\ bwd.count = fwd.count
      /\ bwd.TAIL = IF q = NULL THEN [fwd.TAIL EXCEPT ![L] = n] ELSE fwd.TAIL
      /\ bwd.previous = IF q = NULL THEN fwd.previous ELSE [fwd.previous EXCEPT ![q] = n]
  BY <1>1, <1>2 DEF Memory
<1> HIDE DEF bwd
<1>5. /\ own \in Memory
      /\ own.HEAD = bwd.HEAD /\ own.TAIL = bwd.TAIL /\ own.count = bwd.count
      /\ own.next = [bwd.next EXCEPT ![n] = q]
      /\ own.previous = [bwd.previous EXCEPT ![n] = p]
  BY <1>1, <1>4 DEF Memory
<1> HIDE DEF own
<1>7. /\ w \in Memory
      /\ w.HEAD = own.HEAD /\ w.TAIL = own.TAIL /\ w.next = own.next /\ w.previous = own.previous
      /\ w.count = [own.count EXCEPT ![L] = @ + 1]
  BY <1>5 DEF Memory
<1> HIDE DEF w
<1>8. Linked(w, m, L, p, q, n)
  BY <1>1, <1>2, <1>4, <1>5, <1>7, OsListAssumption DEF Memory, Linked
<1> QED BY <1>3, <1>7, <1>8

\* lstDelete, assignment by assignment.
LEMMA DeleteLinks ==
    ASSUME NEW m \in Memory, NEW L \in List, NEW n \in Node,
           NEW p, NEW q, p = m.previous[n], q = m.next[n]
    PROVE  lstDelete(m, L, n) \in Memory /\ Unlinked(lstDelete(m, L, n), m, L, p, q)
<1> DEFINE fwd == IF p = NULL THEN [m EXCEPT !.HEAD[L] = q] ELSE [m EXCEPT !.next[p] = q]
           bwd == IF q = NULL THEN [fwd EXCEPT !.TAIL[L] = p] ELSE [fwd EXCEPT !.previous[q] = p]
           w == [bwd EXCEPT !.count[L] = @ - 1]
<1>1. p \in Node \cup {NULL} /\ q \in Node \cup {NULL} BY DEF Memory
<1>2. /\ fwd \in Memory
      /\ fwd.TAIL = m.TAIL /\ fwd.previous = m.previous /\ fwd.count = m.count
      /\ fwd.HEAD = IF p = NULL THEN [m.HEAD EXCEPT ![L] = q] ELSE m.HEAD
      /\ fwd.next = IF p = NULL THEN m.next ELSE [m.next EXCEPT ![p] = q]
  BY <1>1 DEF Memory
<1>3. lstDelete(m, L, n) = w BY DEF lstDelete
<1> HIDE DEF fwd
<1>4. /\ bwd \in Memory
      /\ bwd.HEAD = fwd.HEAD /\ bwd.next = fwd.next /\ bwd.count = fwd.count
      /\ bwd.TAIL = IF q = NULL THEN [fwd.TAIL EXCEPT ![L] = p] ELSE fwd.TAIL
      /\ bwd.previous = IF q = NULL THEN fwd.previous ELSE [fwd.previous EXCEPT ![q] = p]
  BY <1>1, <1>2 DEF Memory
<1> HIDE DEF bwd
<1>5. /\ w \in Memory
      /\ w.HEAD = bwd.HEAD /\ w.TAIL = bwd.TAIL /\ w.next = bwd.next /\ w.previous = bwd.previous
      /\ w.count = [bwd.count EXCEPT ![L] = @ - 1]
  BY <1>1, <1>4 DEF Memory
<1> HIDE DEF w
<1>6. Unlinked(w, m, L, p, q)
  BY <1>1, <1>2, <1>4, <1>5, OsListAssumption DEF Memory, Unlinked
<1> QED BY <1>3, <1>5, <1>6
-----------------------------------------------------------------------------
\* A list that lstInit has made.
LEMMA EmptyIs ==
    ASSUME NEW L \in List
    PROVE  EmptyLists \in Memory /\ IsChain(EmptyLists, L, <<>>)
<1>1. EmptyLists \in Memory BY DEF EmptyLists, Memory
<1>2. <<>> \in Seq(Node) /\ Len(<<>>) = 0 OBVIOUS
<1>3. IsChain(EmptyLists, L, <<>>) BY <1>2 DEF EmptyLists, IsChain, Nth
<1> QED BY <1>1, <1>3

\* The sequence after an insertion.
LEMMA InsertedIs ==
    ASSUME NEW c \in Seq(Node), NEW k \in 1..(Len(c) + 1), NEW n \in Node
    PROVE  /\ Inserted(c, k, n) \in Seq(Node) /\ Len(Inserted(c, k, n)) = Len(c) + 1
           /\ NodesOf(Inserted(c, k, n)) = NodesOf(c) \cup {n}
           /\ \A i \in 1..(Len(c) + 1) : Inserted(c, k, n)[i] =
                 IF i < k THEN c[i] ELSE IF i = k THEN n ELSE c[i - 1]
<1> DEFINE d == Inserted(c, k, n)
<1>1. Len(c) \in Nat /\ \A i \in 1..Len(c) : c[i] \in Node OBVIOUS
<1>2. \A i \in 1..(Len(c) + 1) : d[i] = IF i < k THEN c[i] ELSE IF i = k THEN n ELSE c[i - 1]
  BY DEF Inserted
<1>3. d \in [1..(Len(c) + 1) -> Node]
  <2>1. \A i \in 1..(Len(c) + 1) : (IF i < k THEN c[i] ELSE IF i = k THEN n ELSE c[i - 1]) \in Node
    BY <1>1
  <2> QED BY <2>1 DEF Inserted
<1> HIDE DEF d
<1>4. d \in Seq(Node) /\ Len(d) = Len(c) + 1 BY <1>1, <1>3
<1>5. NodesOf(d) \subseteq NodesOf(c) \cup {n} BY <1>1, <1>2, <1>4 DEF NodesOf
<1>6. n \in NodesOf(d) BY <1>1, <1>2, <1>4 DEF NodesOf
<1>7. ASSUME NEW i \in 1..Len(c) PROVE c[i] \in NodesOf(d)
  <2>1. CASE i < k
    <3>1. d[i] = c[i] /\ i \in 1..Len(d) BY <2>1, <1>1, <1>2, <1>4
    <3> QED BY <3>1 DEF NodesOf
  <2>2. CASE i >= k
    <3>1. d[i + 1] = c[i] /\ i + 1 \in 1..Len(d) BY <2>2, <1>1, <1>2, <1>4
    <3> QED BY <3>1 DEF NodesOf
  <2> QED BY <2>1, <2>2, <1>1
<1>8. NodesOf(c) \subseteq NodesOf(d) BY <1>7 DEF NodesOf
<1> QED BY <1>2, <1>4, <1>5, <1>6, <1>8 DEF d

\* The sequence after a removal.
LEMMA RemovedIs ==
    ASSUME NEW c \in Seq(Node), NEW k \in 1..Len(c),
           \A i, j \in 1..Len(c) : c[i] = c[j] => i = j
    PROVE  /\ Removed(c, k) \in Seq(Node) /\ Len(Removed(c, k)) = Len(c) - 1
           /\ NodesOf(Removed(c, k)) = NodesOf(c) \ {c[k]}
           /\ \A i \in 1..(Len(c) - 1) : Removed(c, k)[i] = IF i < k THEN c[i] ELSE c[i + 1]
<1> DEFINE d == Removed(c, k)
<1>1. Len(c) \in Nat \ {0} /\ \A i \in 1..Len(c) : c[i] \in Node OBVIOUS
<1>2. \A i \in 1..(Len(c) - 1) : d[i] = IF i < k THEN c[i] ELSE c[i + 1] BY DEF Removed
<1>3. d \in [1..(Len(c) - 1) -> Node]
  <2>1. \A i \in 1..(Len(c) - 1) : (IF i < k THEN c[i] ELSE c[i + 1]) \in Node BY <1>1
  <2> QED BY <2>1 DEF Removed
<1> HIDE DEF d
<1>4. d \in Seq(Node) /\ Len(d) = Len(c) - 1 BY <1>1, <1>3
<1>5. ASSUME NEW i \in 1..Len(d) PROVE d[i] \in NodesOf(c) \ {c[k]}
  <2>1. CASE i < k
    <3>1. d[i] = c[i] /\ i \in 1..Len(c) BY <2>1, <1>1, <1>2, <1>4
    <3> QED BY <2>1, <3>1 DEF NodesOf
  <2>2. CASE i >= k
    <3>1. d[i] = c[i + 1] /\ i + 1 \in 1..Len(c) BY <2>2, <1>1, <1>2, <1>4
    <3> QED BY <2>2, <3>1 DEF NodesOf
  <2> QED BY <2>1, <2>2, <1>4
<1>6. ASSUME NEW i \in 1..Len(c), i # k PROVE c[i] \in NodesOf(d)
  <2>1. CASE i < k
    <3>1. d[i] = c[i] /\ i \in 1..Len(d) BY <2>1, <1>1, <1>2, <1>4
    <3> QED BY <3>1 DEF NodesOf
  <2>2. CASE i > k
    <3>1. d[i - 1] = c[i] /\ i - 1 \in 1..Len(d) BY <2>2, <1>1, <1>2, <1>4
    <3> QED BY <3>1 DEF NodesOf
  <2> QED BY <2>1, <2>2, <1>6
<1>7. NodesOf(d) = NodesOf(c) \ {c[k]} BY <1>5, <1>6 DEF NodesOf
<1> QED BY <1>2, <1>4, <1>7 DEF d

\* What is at a place after an insertion.
LEMMA NthInserted ==
    ASSUME NEW c \in Seq(Node), NEW k \in 1..(Len(c) + 1), NEW n \in Node, NEW i \in Int
    PROVE  Nth(Inserted(c, k, n), i) =
              IF i < k THEN Nth(c, i) ELSE IF i = k THEN n ELSE Nth(c, i - 1)
<1>1. /\ Len(c) \in Nat /\ Len(Inserted(c, k, n)) = Len(c) + 1
      /\ \A j \in 1..(Len(c) + 1) : Inserted(c, k, n)[j] =
             IF j < k THEN c[j] ELSE IF j = k THEN n ELSE c[j - 1]
  BY InsertedIs
<1> QED BY <1>1 DEF Nth

\* What is at a place after a removal.
LEMMA NthRemoved ==
    ASSUME NEW c \in Seq(Node), NEW k \in 1..Len(c), NEW i \in Int,
           \A a, b \in 1..Len(c) : c[a] = c[b] => a = b
    PROVE  Nth(Removed(c, k), i) = IF i < k THEN Nth(c, i) ELSE Nth(c, i + 1)
<1>1. /\ Len(c) \in Nat /\ Len(Removed(c, k)) = Len(c) - 1
      /\ \A j \in 1..(Len(c) - 1) : Removed(c, k)[j] = IF j < k THEN c[j] ELSE c[j + 1]
  BY RemovedIs
<1> QED BY <1>1 DEF Nth

\* A place that exists is told by its node.
LEMMA NthEqual ==
    ASSUME NEW m, NEW L, NEW c, IsChain(m, L, c), NEW i \in 1..Len(c), NEW j \in Int
    PROVE  c[i] = Nth(c, j) <=> i = j
<1>1. c[i] # NULL BY ChainBound
<1>2. \A a, b \in 1..Len(c) : c[a] = c[b] => a = b BY DEF IsChain
<1> QED BY <1>1, <1>2 DEF Nth

\* lstInsert puts n after the node it is given, into a list it is not in.
LEMMA InsertIs ==
    ASSUME NEW m \in Memory, NEW L \in List, NEW c, IsChain(m, L, c),
           NEW k \in 1..(Len(c) + 1), NEW n \in Node, n \notin NodesOf(c)
    PROVE  /\ lstInsert(m, L, Nth(c, k - 1), n) \in Memory
           /\ IsChain(lstInsert(m, L, Nth(c, k - 1), n), L, Inserted(c, k, n))
           /\ Linked(lstInsert(m, L, Nth(c, k - 1), n), m, L, Nth(c, k - 1), Nth(c, k), n)
<1> DEFINE p == Nth(c, k - 1)
           q == Nth(c, k)
           w == lstInsert(m, L, p, n)
           d == Inserted(c, k, n)
<1>1. c \in Seq(Node) /\ Len(c) \in Nat /\ \A i \in 1..Len(c) : c[i] \in Node /\ c[i] # NULL /\ c[i] # n
  BY ChainBound DEF NodesOf
<1>2. p \in Node \cup {NULL} /\ p # n /\ q # n BY <1>1, OsListAssumption DEF Nth
<1>3. q = IF p = NULL THEN m.HEAD[L] ELSE m.next[p]
  <2>1. CASE k = 1 BY <1>1, <2>1 DEF Nth, IsChain
  <2>2. CASE k # 1
    <3>1. k - 1 \in 1..Len(c) /\ p = c[k - 1] /\ (k - 1) + 1 = k BY <1>1, <2>2 DEF Nth
    <3>2. m.next[c[k - 1]] = Nth(c, (k - 1) + 1) BY <3>1 DEF IsChain
    <3> QED BY <1>1, <3>1, <3>2
  <2> QED BY <2>1, <2>2
<1> HIDE DEF p, q
<1>4. w \in Memory /\ Linked(w, m, L, p, q, n) BY <1>2, <1>3, InsertLinks
<1>5. /\ d \in Seq(Node) /\ Len(d) = Len(c) + 1
      /\ \A i \in 1..(Len(c) + 1) : d[i] = IF i < k THEN c[i] ELSE IF i = k THEN n ELSE c[i - 1]
  BY <1>1, InsertedIs
<1>6. \A i \in Int : Nth(d, i) = IF i < k THEN Nth(c, i) ELSE IF i = k THEN n ELSE Nth(c, i - 1)
  BY <1>1, NthInserted
<1> HIDE DEF w, d
<1>7. \A i, j \in 1..Len(c) : c[i] = c[j] => i = j BY DEF IsChain
<1>8. ASSUME NEW i \in 1..Len(d), NEW j \in 1..Len(d), d[i] = d[j] PROVE i = j
  <2> DEFINE old(x) == IF x < k THEN x ELSE x - 1
  <2>1. \A x \in 1..Len(d) : x # k => old(x) \in 1..Len(c) /\ d[x] = c[old(x)] BY <1>1, <1>5
  <2>2. CASE i = k \/ j = k
    <3>1. d[k] = n BY <1>5
    <3>2. \A x \in 1..Len(d) : x # k => d[x] # n
      <4> HIDE DEF old
      <4> QED BY <1>1, <2>1
    <3> QED BY <1>8, <2>2, <3>1, <3>2
  <2>3. CASE i # k /\ j # k
    <3>1. old(i) = old(j)
      <4> HIDE DEF old
      <4> QED BY <1>7, <1>8, <2>1, <2>3
    <3> QED BY <1>5, <2>3, <3>1
  <2> QED BY <2>2, <2>3
<1>9. w.HEAD[L] = Nth(d, 1)
  <2>1. w.HEAD[L] = IF p = NULL THEN n ELSE m.HEAD[L] BY <1>4 DEF Linked
  <2>2. p = NULL <=> k = 1 BY <1>1 DEF p, Nth
  <2> QED BY <1>6, <2>1, <2>2 DEF IsChain
<1>10. w.TAIL[L] = Nth(d, Len(d))
  <2>1. w.TAIL[L] = IF q = NULL THEN n ELSE m.TAIL[L] BY <1>4 DEF Linked
  <2>2. q = NULL <=> k = Len(c) + 1 BY <1>1 DEF q, Nth
  <2>3. Nth(d, Len(c) + 1) = IF k = Len(c) + 1 THEN n ELSE Nth(c, Len(c)) BY <1>1, <1>6
  <2> QED BY <1>5, <2>1, <2>2, <2>3 DEF IsChain
<1>11. w.count[L] = Len(d) BY <1>4, <1>5 DEF Linked, IsChain
<1>12. \A i \in 1..Len(c), j \in Int : c[i] = Nth(c, j) <=> i = j BY NthEqual
<1>13. ASSUME NEW i \in 1..Len(d)
       PROVE  w.next[d[i]] = Nth(d, i + 1) /\ w.previous[d[i]] = Nth(d, i - 1)
  <2>0. d[i] \in Node BY <1>5
  <2>1. /\ w.next[d[i]] = IF d[i] = n THEN q ELSE IF d[i] = p THEN n ELSE m.next[d[i]]
        /\ w.previous[d[i]] = IF d[i] = n THEN p ELSE IF d[i] = q THEN n ELSE m.previous[d[i]]
    BY <1>4, <2>0 DEF Linked
  <2>2. CASE i < k
    <3>1. i \in 1..Len(c) /\ d[i] = c[i] /\ d[i] # n BY <1>1, <1>5, <2>2
    <3>2. (c[i] = p <=> i = k - 1) /\ (c[i] = q <=> i = k) BY <1>12, <3>1 DEF p, q
    <3>3. m.next[c[i]] = Nth(c, i + 1) /\ m.previous[c[i]] = Nth(c, i - 1) BY <3>1 DEF IsChain
    <3>4. Nth(d, i - 1) = Nth(c, i - 1) /\ Nth(d, i + 1) = IF i + 1 < k THEN Nth(c, i + 1) ELSE n
      BY <1>6, <2>2
    <3> QED BY <2>1, <2>2, <3>1, <3>2, <3>3, <3>4
  <2>3. CASE i = k
    <3>1. d[i] = n BY <1>5, <2>3
    <3>2. Nth(d, k + 1) = Nth(c, k) /\ Nth(d, k - 1) = Nth(c, k - 1)
      <4>1. (k + 1) - 1 = k /\ k + 1 \in Int /\ k - 1 \in Int BY <1>1
      <4>2. Nth(d, k + 1) = Nth(c, (k + 1) - 1) BY <1>6, <4>1
      <4> QED BY <1>6, <4>1, <4>2
    <3> QED BY <2>1, <2>3, <3>1, <3>2 DEF p, q
  <2>4. CASE i > k
    <3>1. i - 1 \in 1..Len(c) /\ d[i] = c[i - 1] /\ d[i] # n BY <1>1, <1>5, <2>4
    <3>2. (c[i - 1] = p <=> i - 1 = k - 1) /\ (c[i - 1] = q <=> i - 1 = k) BY <1>12, <3>1 DEF p, q
    <3>3. /\ m.next[c[i - 1]] = Nth(c, (i - 1) + 1)
          /\ m.previous[c[i - 1]] = Nth(c, (i - 1) - 1)
      BY <3>1 DEF IsChain
    <3>4. Nth(d, i + 1) = Nth(c, (i + 1) - 1) BY <1>6, <2>4
    <3>5. Nth(d, i - 1) = IF i - 1 = k THEN n ELSE Nth(c, (i - 1) - 1) BY <1>6, <2>4
    <3>6. (i - 1) + 1 = i /\ (i + 1) - 1 = i BY <3>1
    <3> QED BY <2>1, <2>4, <3>1, <3>2, <3>3, <3>4, <3>5, <3>6
  <2> QED BY <2>2, <2>3, <2>4, <1>5
<1>14. IsChain(w, L, d) BY <1>5, <1>8, <1>9, <1>10, <1>11, <1>13 DEF IsChain
<1> QED BY <1>4, <1>14 DEF w, d, p, q

\* lstDelete takes a node out of the list it is in.
LEMMA DeleteIs ==
    ASSUME NEW m \in Memory, NEW L \in List, NEW c, IsChain(m, L, c), NEW k \in 1..Len(c)
    PROVE  /\ lstDelete(m, L, c[k]) \in Memory
           /\ IsChain(lstDelete(m, L, c[k]), L, Removed(c, k))
           /\ Unlinked(lstDelete(m, L, c[k]), m, L, Nth(c, k - 1), Nth(c, k + 1))
<1> DEFINE p == Nth(c, k - 1)
           q == Nth(c, k + 1)
           w == lstDelete(m, L, c[k])
           d == Removed(c, k)
<1>1. c \in Seq(Node) /\ Len(c) \in Nat /\ \A i \in 1..Len(c) : c[i] \in Node /\ c[i] # NULL
  BY ChainBound
<1>2. c[k] \in Node /\ p = m.previous[c[k]] /\ q = m.next[c[k]] BY <1>1 DEF IsChain
<1> HIDE DEF p, q
<1>3. w \in Memory /\ Unlinked(w, m, L, p, q) BY <1>2, DeleteLinks
<1>4. \A i, j \in 1..Len(c) : c[i] = c[j] => i = j BY DEF IsChain
<1>5. /\ d \in Seq(Node) /\ Len(d) = Len(c) - 1
      /\ \A i \in 1..(Len(c) - 1) : d[i] = IF i < k THEN c[i] ELSE c[i + 1]
  BY <1>1, <1>4, RemovedIs
<1>6. \A i \in Int : Nth(d, i) = IF i < k THEN Nth(c, i) ELSE Nth(c, i + 1)
  BY <1>1, <1>4, NthRemoved
<1> HIDE DEF w, d
<1>7. ASSUME NEW i \in 1..Len(d), NEW j \in 1..Len(d), d[i] = d[j] PROVE i = j
  <2> DEFINE old(x) == IF x < k THEN x ELSE x + 1
  <2>1. \A x \in 1..Len(d) : old(x) \in 1..Len(c) /\ d[x] = c[old(x)] BY <1>1, <1>5
  <2>2. old(i) = old(j)
    <3> HIDE DEF old
    <3> QED BY <1>4, <1>7, <2>1
  <2> QED BY <1>5, <2>2
<1>8. w.HEAD[L] = Nth(d, 1)
  <2>1. w.HEAD[L] = IF p = NULL THEN q ELSE m.HEAD[L] BY <1>3 DEF Unlinked
  <2>2. p = NULL <=> k = 1 BY <1>1 DEF p, Nth
  <2> QED BY <1>6, <2>1, <2>2 DEF IsChain, q
<1>9. w.TAIL[L] = Nth(d, Len(d))
  <2>1. w.TAIL[L] = IF q = NULL THEN p ELSE m.TAIL[L] BY <1>3 DEF Unlinked
  <2>2. q = NULL <=> k = Len(c) BY <1>1 DEF q, Nth
  <2>3. Nth(d, Len(c) - 1) = IF k = Len(c) THEN Nth(c, k - 1) ELSE Nth(c, Len(c)) BY <1>1, <1>6
  <2> QED BY <1>5, <2>1, <2>2, <2>3 DEF IsChain, p
<1>10. w.count[L] = Len(d) BY <1>3, <1>5 DEF Unlinked, IsChain
<1>11. \A i \in 1..Len(c), j \in Int : c[i] = Nth(c, j) <=> i = j BY NthEqual
<1>12. ASSUME NEW i \in 1..Len(d)
       PROVE  w.next[d[i]] = Nth(d, i + 1) /\ w.previous[d[i]] = Nth(d, i - 1)
  <2>0. d[i] \in Node BY <1>5
  <2>1. /\ w.next[d[i]] = IF d[i] = p THEN q ELSE m.next[d[i]]
        /\ w.previous[d[i]] = IF d[i] = q THEN p ELSE m.previous[d[i]]
    BY <1>3, <2>0 DEF Unlinked
  <2>2. CASE i < k
    <3>1. i \in 1..Len(c) /\ d[i] = c[i] BY <1>1, <1>5, <2>2
    <3>2. (c[i] = p <=> i = k - 1) /\ (c[i] = q <=> i = k + 1) BY <1>11, <3>1 DEF p, q
    <3>3. m.next[c[i]] = Nth(c, i + 1) /\ m.previous[c[i]] = Nth(c, i - 1) BY <3>1 DEF IsChain
    <3>4. Nth(d, i - 1) = Nth(c, i - 1) BY <1>6, <2>2
    <3>5. Nth(d, i + 1) = IF i + 1 < k THEN Nth(c, i + 1) ELSE Nth(c, (i + 1) + 1) BY <1>6
    <3>6. i = k - 1 => (i + 1) + 1 = k + 1 OBVIOUS
    <3> QED BY <2>1, <2>2, <3>1, <3>2, <3>3, <3>4, <3>5, <3>6 DEF q
  <2>3. CASE i >= k
    <3>1. i + 1 \in 1..Len(c) /\ d[i] = c[i + 1] BY <1>1, <1>5, <2>3
    <3>2. (c[i + 1] = p <=> i + 1 = k - 1) /\ (c[i + 1] = q <=> i + 1 = k + 1)
      BY <1>11, <3>1 DEF p, q
    <3>3. /\ m.next[c[i + 1]] = Nth(c, (i + 1) + 1)
          /\ m.previous[c[i + 1]] = Nth(c, (i + 1) - 1)
      BY <3>1 DEF IsChain
    <3>4. Nth(d, i + 1) = Nth(c, (i + 1) + 1) BY <1>6, <2>3
    <3>5. Nth(d, i - 1) = IF i - 1 < k THEN Nth(c, i - 1) ELSE Nth(c, (i - 1) + 1) BY <1>6
    <3>6. (i + 1) - 1 = i /\ (i - 1) + 1 = i OBVIOUS
    <3> QED BY <2>1, <2>3, <3>1, <3>2, <3>3, <3>4, <3>5, <3>6 DEF p
  <2> QED BY <2>2, <2>3, <1>5
<1>13. IsChain(w, L, d) BY <1>5, <1>7, <1>8, <1>9, <1>10, <1>12 DEF IsChain
<1> QED BY <1>3, <1>13 DEF w, d, p, q

\* Linking a node in touches no other list.
LEMMA LinkedFrame ==
    ASSUME NEW m, NEW w, NEW L \in List, NEW K \in List, K # L, NEW e, IsChain(m, K, e),
           NEW p, NEW q, NEW n, Linked(w, m, L, p, q, n),
           p \notin NodesOf(e), q \notin NodesOf(e), n \notin NodesOf(e)
    PROVE  IsChain(w, K, e)
<1>1. \A i \in 1..Len(e) : e[i] \in Node /\ e[i] # p /\ e[i] # q /\ e[i] # n
  BY ChainBound DEF NodesOf
<1>2. \A i \in 1..Len(e) : w.next[e[i]] = m.next[e[i]] /\ w.previous[e[i]] = m.previous[e[i]]
  BY <1>1 DEF Linked
<1>3. w.HEAD[K] = m.HEAD[K] /\ w.TAIL[K] = m.TAIL[K] /\ w.count[K] = m.count[K] BY DEF Linked
<1> QED BY <1>2, <1>3 DEF IsChain

\* Nor does unlinking one.
LEMMA UnlinkedFrame ==
    ASSUME NEW m, NEW w, NEW L \in List, NEW K \in List, K # L, NEW e, IsChain(m, K, e),
           NEW p, NEW q, Unlinked(w, m, L, p, q), p \notin NodesOf(e), q \notin NodesOf(e)
    PROVE  IsChain(w, K, e)
<1>1. \A i \in 1..Len(e) : e[i] \in Node /\ e[i] # p /\ e[i] # q BY ChainBound DEF NodesOf
<1>2. \A i \in 1..Len(e) : w.next[e[i]] = m.next[e[i]] /\ w.previous[e[i]] = m.previous[e[i]]
  BY <1>1 DEF Unlinked
<1>3. w.HEAD[K] = m.HEAD[K] /\ w.TAIL[K] = m.TAIL[K] /\ w.count[K] = m.count[K] BY DEF Unlinked
<1> QED BY <1>2, <1>3 DEF IsChain
-----------------------------------------------------------------------------
\* Every list is a chain, and no node is in two of them.
Sound(m) ==
    /\ m \in Memory
    /\ \A L \in List : IsChain(m, L, Chain(m, L))
    /\ \A K, L \in List : K # L => On(m, K) \cap On(m, L) = {}

\* Between m and w, n has come to place k of L, and nothing else has changed.
Puts(w, m, L, k, n) ==
    /\ Sound(w)
    /\ k \in 1..(Len(Chain(m, L)) + 1)
    /\ Chain(w, L) = Inserted(Chain(m, L), k, n) /\ On(w, L) = On(m, L) \cup {n}
    /\ \A K \in List : K # L => Chain(w, K) = Chain(m, K) /\ On(w, K) = On(m, K)

\* Between m and w, what was at place k of L has left it.
Takes(w, m, L, k) ==
    /\ Sound(w)
    /\ k \in 1..Len(Chain(m, L))
    /\ Chain(w, L) = Removed(Chain(m, L), k) /\ On(w, L) = On(m, L) \ {Chain(m, L)[k]}
    /\ \A K \in List : K # L => Chain(w, K) = Chain(m, K) /\ On(w, K) = On(m, K)

\* The nodes on a list are those of its chain.
LEMMA SoundChain ==
    ASSUME NEW m, Sound(m), NEW L \in List
    PROVE  /\ IsChain(m, L, Chain(m, L)) /\ On(m, L) = NodesOf(Chain(m, L))
           /\ Chain(m, L) \in Seq(Node) /\ Len(Chain(m, L)) \in Nat /\ On(m, L) \subseteq Node
           /\ \A i \in 1..Len(Chain(m, L)) : Chain(m, L)[i] \in On(m, L)
           /\ \A i, j \in 1..Len(Chain(m, L)) : Chain(m, L)[i] = Chain(m, L)[j] => i = j
<1> DEFINE c == Chain(m, L)
<1>1. IsChain(m, L, c) BY DEF Sound
<1> HIDE DEF c
<1>2. c \in Seq(Node) /\ Len(c) \in Nat /\ \A i, j \in 1..Len(c) : c[i] = c[j] => i = j
  BY <1>1 DEF IsChain
<1>3. On(m, L) = NodesOf(c) BY <1>1, ChainIs
<1>4. NodesOf(c) \subseteq Node /\ \A i \in 1..Len(c) : c[i] \in NodesOf(c) BY <1>2 DEF NodesOf
<1> QED BY <1>1, <1>2, <1>3, <1>4 DEF c

\* Lists are sound when they start empty.
LEMMA SoundEmpty ==
    Sound(EmptyLists) /\ \A L \in List : Chain(EmptyLists, L) = <<>> /\ On(EmptyLists, L) = {}
<1>1. ASSUME NEW L \in List
      PROVE  /\ IsChain(EmptyLists, L, <<>>) /\ Chain(EmptyLists, L) = <<>>
             /\ On(EmptyLists, L) = {}
  <2>1. IsChain(EmptyLists, L, <<>>) BY EmptyIs
  <2>2. Chain(EmptyLists, L) = <<>> /\ On(EmptyLists, L) = NodesOf(<<>>) BY <2>1, ChainIs
  <2> QED BY <2>1, <2>2 DEF NodesOf
<1>2. EmptyLists \in Memory BY DEF EmptyLists, Memory
<1> QED BY <1>1, <1>2 DEF Sound

\* Inserting a node that is in no list.
LEMMA SoundInsert ==
    ASSUME NEW m, Sound(m), NEW L \in List, NEW k \in 1..(Len(Chain(m, L)) + 1), NEW n \in Node,
           \A K \in List : n \notin On(m, K)
    PROVE  Puts(lstInsert(m, L, Nth(Chain(m, L), k - 1), n), m, L, k, n)
<1> DEFINE c == Chain(m, L)
           p == Nth(c, k - 1)
           q == Nth(c, k)
           w == lstInsert(m, L, p, n)
<1>1. m \in Memory /\ IsChain(m, L, c) /\ On(m, L) = NodesOf(c) /\ n \notin NodesOf(c) /\ c \in Seq(Node)
  BY SoundChain DEF Sound
<1> HIDE DEF c
<1>2. w \in Memory /\ IsChain(w, L, Inserted(c, k, n)) /\ Linked(w, m, L, p, q, n)
  BY <1>1, InsertIs DEF c
<1>3. Chain(w, L) = Inserted(c, k, n) /\ On(w, L) = On(m, L) \cup {n}
  <2>1. NodesOf(Inserted(c, k, n)) = NodesOf(c) \cup {n} BY <1>1, InsertedIs DEF c
  <2> HIDE DEF w
  <2> QED BY <1>1, <1>2, <2>1, ChainIs
<1>4. p \in NodesOf(c) \cup {NULL} /\ q \in NodesOf(c) \cup {NULL} BY DEF Nth, NodesOf
<1> HIDE DEF w, p, q
<1>5. ASSUME NEW K \in List, K # L
      PROVE  IsChain(w, K, Chain(m, K)) /\ Chain(w, K) = Chain(m, K) /\ On(w, K) = On(m, K)
  <2>1. IsChain(m, K, Chain(m, K)) /\ On(m, K) = NodesOf(Chain(m, K)) /\ On(m, K) \subseteq Node
    BY SoundChain
  <2>2. p \notin On(m, K) /\ q \notin On(m, K) /\ n \notin On(m, K)
    BY <1>1, <1>4, <1>5, <2>1, OsListAssumption DEF Sound
  <2>3. IsChain(w, K, Chain(m, K)) BY <1>2, <1>5, <2>1, <2>2, LinkedFrame
  <2> QED BY <2>1, <2>3, ChainIs
<1>6. Sound(w)
  <2>1. \A K \in List : IsChain(w, K, Chain(w, K)) BY <1>2, <1>3, <1>5
  <2>2. \A K, J \in List : K # J => On(w, K) \cap On(w, J) = {} BY <1>3, <1>5 DEF Sound
  <2> QED BY <1>2, <2>1, <2>2 DEF Sound
<1> QED BY <1>3, <1>5, <1>6 DEF Puts, w, p, c

\* Deleting a node from the list it is in.
THEOREM SoundDelete ==
    ASSUME NEW m, Sound(m), NEW L \in List, NEW n \in On(m, L)
    PROVE  \E k \in 1..Len(Chain(m, L)) :
              Chain(m, L)[k] = n /\ Takes(lstDelete(m, L, n), m, L, k)
<1> DEFINE c == Chain(m, L)
<1>1. m \in Memory /\ IsChain(m, L, c) /\ On(m, L) = NodesOf(c) /\ c \in Seq(Node)
  BY SoundChain DEF Sound
<1>i. \A i, j \in 1..Len(c) : c[i] = c[j] => i = j BY SoundChain
<1> HIDE DEF c
<1>2. PICK k \in 1..Len(c) : c[k] = n BY <1>1 DEF NodesOf
<1> DEFINE p == Nth(c, k - 1)
           q == Nth(c, k + 1)
           w == lstDelete(m, L, n)
<1>3. w \in Memory /\ IsChain(w, L, Removed(c, k)) /\ Unlinked(w, m, L, p, q)
  BY <1>1, <1>2, DeleteIs
<1>4. Chain(w, L) = Removed(c, k) /\ On(w, L) = On(m, L) \ {n}
  <2>1. NodesOf(Removed(c, k)) = NodesOf(c) \ {c[k]} BY <1>1, <1>i, RemovedIs
  <2> HIDE DEF w
  <2> QED BY <1>1, <1>2, <1>3, <2>1, ChainIs
<1>5. p \in NodesOf(c) \cup {NULL} /\ q \in NodesOf(c) \cup {NULL} BY DEF Nth, NodesOf
<1> HIDE DEF w, p, q
<1>6. ASSUME NEW K \in List, K # L
      PROVE  IsChain(w, K, Chain(m, K)) /\ Chain(w, K) = Chain(m, K) /\ On(w, K) = On(m, K)
  <2>1. IsChain(m, K, Chain(m, K)) /\ On(m, K) = NodesOf(Chain(m, K)) /\ On(m, K) \subseteq Node
    BY SoundChain
  <2>2. p \notin On(m, K) /\ q \notin On(m, K)
    BY <1>1, <1>5, <1>6, <2>1, OsListAssumption DEF Sound
  <2>3. IsChain(w, K, Chain(m, K)) BY <1>3, <1>6, <2>1, <2>2, UnlinkedFrame
  <2> QED BY <2>1, <2>3, ChainIs
<1>7. Sound(w)
  <2>1. \A K \in List : IsChain(w, K, Chain(w, K)) BY <1>3, <1>4, <1>6
  <2>2. \A K, J \in List : K # J => On(w, K) \cap On(w, J) = {} BY <1>4, <1>6 DEF Sound
  <2> QED BY <1>3, <2>1, <2>2 DEF Sound
<1>8. Takes(w, m, L, k) BY <1>2, <1>4, <1>6, <1>7 DEF Takes, c
<1> QED BY <1>2, <1>8 DEF w, c

\* lstAdd appends.
LEMMA SoundAdd ==
    ASSUME NEW m, Sound(m), NEW L \in List, NEW n \in Node, \A K \in List : n \notin On(m, K)
    PROVE  Puts(lstAdd(m, L, n), m, L, Len(Chain(m, L)) + 1, n)
<1> DEFINE c == Chain(m, L)
           k == Len(c) + 1
<1>1. IsChain(m, L, c) /\ Len(c) \in Nat BY SoundChain
<1>2. k \in 1..(Len(c) + 1) /\ k - 1 = Len(c) BY <1>1
<1>3. m.TAIL[L] = Nth(c, k - 1) BY <1>1, <1>2 DEF IsChain
<1> HIDE DEF k
<1>4. Puts(lstInsert(m, L, Nth(c, k - 1), n), m, L, k, n) BY <1>2, SoundInsert
<1> QED BY <1>3, <1>4 DEF lstAdd, k

\* The keys along a list do not decrease.
InOrder(c, key) == \A i, j \in 1..Len(c) : i < j => key[c[i]] <= key[c[j]]

\* n is after what is not later than it and before what is.
Between(c, key, k, n) ==
    \A i \in 1..Len(c) : IF i < k THEN key[c[i]] <= key[n] ELSE key[n] <= key[c[i]]

\* lstAddSort inserts somewhere, and between the right ones if the list is in order.
THEOREM SoundAddSort ==
    ASSUME NEW m, Sound(m), NEW L \in List, NEW n \in Node, \A K \in List : n \notin On(m, K),
           NEW key \in [Node -> Int]
    PROVE  \E k \in 1..(Len(Chain(m, L)) + 1) :
              /\ Puts(lstAddSort(m, L, n, key), m, L, k, n)
              /\ InOrder(Chain(m, L), key) => Between(Chain(m, L), key, k, n)
<1> DEFINE c == Chain(m, L)
           Later == {i \in DOMAIN c : key[n] < key[c[i]]}
           first == CHOOSE i \in Later : \A j \in Later : i <= j
           app == m.count[L] = 0 \/ Later = {} \/ ~(key[n] < key[m.TAIL[L]])
<1>1. /\ IsChain(m, L, c) /\ c \in Seq(Node) /\ Len(c) \in Nat /\ DOMAIN c = 1..Len(c)
      /\ \A i \in 1..Len(c) : key[c[i]] \in Int /\ c[i] # NULL
      /\ key[n] \in Int
  BY SoundChain, ChainBound
<1>2. lstAddSort(m, L, n, key) =
         IF app THEN lstAdd(m, L, n) ELSE lstInsert(m, L, m.previous[c[first]], n)
  BY DEF lstAddSort
<1>3. CASE app
  <2> DEFINE k == Len(c) + 1
  <2>1. k \in 1..(Len(c) + 1) /\ Puts(lstAdd(m, L, n), m, L, k, n) BY <1>1, SoundAdd
  <2>2. ASSUME InOrder(c, key), NEW i \in 1..Len(c) PROVE key[c[i]] <= key[n]
    <3>1. CASE m.count[L] = 0
      <4>1. Len(c) = 0 BY <1>1, <3>1 DEF IsChain
      <4> QED BY <4>1
    <3>2. CASE Later = {} BY <1>1, <3>2
    <3>3. CASE ~(key[n] < key[m.TAIL[L]])
      <4>1. m.TAIL[L] = c[Len(c)] /\ Len(c) \in 1..Len(c) BY <1>1 DEF IsChain, Nth
      <4>2. key[c[i]] <= key[c[Len(c)]] BY <1>1, <2>2, <4>1 DEF InOrder
      <4> QED BY <1>1, <3>3, <4>1, <4>2
    <3> QED BY <1>3, <3>1, <3>2, <3>3
  <2>3. InOrder(c, key) => Between(c, key, k, n) BY <1>1, <2>2 DEF Between
  <2> HIDE DEF k, c, app
  <2> QED BY <1>2, <1>3, <2>1, <2>3 DEF c
<1>4. CASE ~app
  <2>1. Later \subseteq Nat /\ Later # {} BY <1>1, <1>4
  <2>2. \E i \in Later : \A j \in Later : i <= j
    <3> HIDE DEF Later
    <3> QED BY <2>1, Smallest
  <2>3. first \in Later /\ \A j \in Later : first <= j
    <3> HIDE DEF Later
    <3> QED BY <2>2
  <2>4. first \in 1..Len(c) /\ key[n] < key[c[first]] BY <1>1, <2>3
  <2>5. \A i \in 1..Len(c) : i < first => key[c[i]] <= key[n]
    <3> HIDE DEF first
    <3> QED BY <1>1, <2>3, <2>4
  <2> HIDE DEF first
  <2>6. m.previous[c[first]] = Nth(c, first - 1) /\ first \in 1..(Len(c) + 1)
    BY <1>1, <2>4 DEF IsChain
  <2>7. Puts(lstInsert(m, L, Nth(c, first - 1), n), m, L, first, n) BY <2>6, SoundInsert
  <2>8. ASSUME InOrder(c, key), NEW i \in 1..Len(c), ~(i < first) PROVE key[n] <= key[c[i]]
    <3>1. i = first \/ key[c[first]] <= key[c[i]] BY <2>4, <2>8 DEF InOrder
    <3> QED BY <1>1, <2>4, <3>1
  <2>9. InOrder(c, key) => Between(c, key, first, n) BY <2>5, <2>8 DEF Between
  <2> HIDE DEF c, app
  <2> QED BY <1>2, <1>4, <2>6, <2>7, <2>9 DEF c
<1> QED BY <1>3, <1>4

\* Order is kept by such an insertion.
LEMMA OrderInserted ==
    ASSUME NEW c \in Seq(Node), NEW key \in [Node -> Int], NEW n \in Node,
           NEW k \in 1..(Len(c) + 1), InOrder(c, key), Between(c, key, k, n)
    PROVE  InOrder(Inserted(c, k, n), key)
<1> DEFINE d == Inserted(c, k, n)
<1>1. /\ Len(c) \in Nat /\ Len(d) = Len(c) + 1
      /\ \A i \in 1..(Len(c) + 1) : d[i] = IF i < k THEN c[i] ELSE IF i = k THEN n ELSE c[i - 1]
  BY InsertedIs
<1> HIDE DEF d
<1>2. key[n] \in Int /\ \A i \in 1..Len(c) : key[c[i]] \in Int OBVIOUS
<1>3. SUFFICES ASSUME NEW i \in 1..Len(d), NEW j \in 1..Len(d), i < j
               PROVE  key[d[i]] <= key[d[j]]
  BY DEF InOrder, d
<1>4. CASE j < k
  <2>1. d[i] = c[i] /\ d[j] = c[j] /\ i \in 1..Len(c) /\ j \in 1..Len(c) BY <1>1, <1>3, <1>4
  <2> QED BY <1>3, <2>1 DEF InOrder
<1>5. CASE j = k
  <2>1. d[i] = c[i] /\ d[j] = n /\ i \in 1..Len(c) BY <1>1, <1>3, <1>5
  <2> QED BY <1>3, <1>5, <2>1 DEF Between
<1>6. CASE i = k
  <2>1. d[i] = n /\ d[j] = c[j - 1] /\ j - 1 \in 1..Len(c) /\ ~(j - 1 < k) BY <1>1, <1>3, <1>6
  <2> QED BY <2>1 DEF Between
<1>7. CASE i < k /\ k < j
  <2>1. d[i] = c[i] /\ d[j] = c[j - 1] /\ i \in 1..Len(c) /\ j - 1 \in 1..Len(c) /\ ~(j - 1 < k)
    BY <1>1, <1>3, <1>7
  <2>2. key[c[i]] <= key[n] /\ key[n] <= key[c[j - 1]] BY <1>7, <2>1 DEF Between
  <2> QED BY <1>2, <2>1, <2>2
<1>8. CASE k < i
  <2>1. d[i] = c[i - 1] /\ d[j] = c[j - 1] /\ i - 1 \in 1..Len(c) /\ j - 1 \in 1..Len(c) /\ i - 1 < j - 1
    BY <1>1, <1>3, <1>8
  <2> QED BY <2>1 DEF InOrder
<1> QED BY <1>1, <1>3, <1>4, <1>5, <1>6, <1>7, <1>8

\* And by a removal.
LEMMA OrderRemoved ==
    ASSUME NEW c \in Seq(Node), NEW key, NEW k \in 1..Len(c), InOrder(c, key),
           \A i, j \in 1..Len(c) : c[i] = c[j] => i = j
    PROVE  InOrder(Removed(c, k), key)
<1> DEFINE d == Removed(c, k)
           old(x) == IF x < k THEN x ELSE x + 1
<1>1. /\ Len(c) \in Nat /\ Len(d) = Len(c) - 1
      /\ \A i \in 1..(Len(c) - 1) : d[i] = IF i < k THEN c[i] ELSE c[i + 1]
  BY RemovedIs
<1> HIDE DEF d
<1>2. SUFFICES ASSUME NEW i \in 1..Len(d), NEW j \in 1..Len(d), i < j
               PROVE  key[d[i]] <= key[d[j]]
  BY DEF InOrder, d
<1>3. d[i] = c[old(i)] /\ d[j] = c[old(j)] BY <1>1
<1>4. old(i) \in 1..Len(c) /\ old(j) \in 1..Len(c) /\ old(i) < old(j) BY <1>1, <1>2
<1> HIDE DEF old
<1> QED BY <1>3, <1>4 DEF InOrder

\* The pointers of a node that is in no list are its owner's.
LEMMA SoundCleared ==
    ASSUME NEW m, Sound(m), NEW n \in Node, \A K \in List : n \notin On(m, K)
    PROVE  LET w == [m EXCEPT !.next[n] = NULL, !.previous[n] = NULL]
           IN  Sound(w) /\ \A K \in List : Chain(w, K) = Chain(m, K) /\ On(w, K) = On(m, K)
<1> DEFINE w == [m EXCEPT !.next[n] = NULL, !.previous[n] = NULL]
<1>1. m \in Memory BY DEF Sound
<1>2. /\ w \in Memory /\ w.HEAD = m.HEAD /\ w.TAIL = m.TAIL /\ w.count = m.count
      /\ w.next = [m.next EXCEPT ![n] = NULL]
      /\ w.previous = [m.previous EXCEPT ![n] = NULL]
  BY <1>1 DEF Memory
<1> HIDE DEF w
<1>3. ASSUME NEW K \in List
      PROVE  IsChain(w, K, Chain(m, K)) /\ Chain(w, K) = Chain(m, K) /\ On(w, K) = On(m, K)
  <2> DEFINE e == Chain(m, K)
  <2>1. IsChain(m, K, e) /\ On(m, K) = NodesOf(e) /\ e \in Seq(Node)
        /\ \A i \in 1..Len(e) : e[i] \in On(m, K)
    BY SoundChain
  <2> HIDE DEF e
  <2>2. \A i \in 1..Len(e) : e[i] \in Node /\ e[i] # n BY <2>1
  <2>3. \A i \in 1..Len(e) : w.next[e[i]] = m.next[e[i]] /\ w.previous[e[i]] = m.previous[e[i]]
    BY <1>1, <1>2, <2>2 DEF Memory
  <2>4. IsChain(w, K, e) BY <1>2, <2>1, <2>3 DEF IsChain
  <2> QED BY <2>1, <2>4, ChainIs DEF e
<1>4. Sound(w) BY <1>2, <1>3 DEF Sound
<1> QED BY <1>3, <1>4 DEF w

\* From one list to the end of another.
LEMMA SoundMove ==
    ASSUME NEW m, Sound(m), NEW K \in List, NEW L \in List, K # L, NEW n \in On(m, K)
    PROVE  \E k \in 1..Len(Chain(m, K)) :
              /\ Sound(lstAdd(lstDelete(m, K, n), L, n))
              /\ Chain(m, K)[k] = n
              /\ Chain(lstAdd(lstDelete(m, K, n), L, n), K) = Removed(Chain(m, K), k)
              /\ On(lstAdd(lstDelete(m, K, n), L, n), K) = On(m, K) \ {n}
              /\ Chain(lstAdd(lstDelete(m, K, n), L, n), L)
                    = Inserted(Chain(m, L), Len(Chain(m, L)) + 1, n)
              /\ On(lstAdd(lstDelete(m, K, n), L, n), L) = On(m, L) \cup {n}
              /\ \A J \in List \ {K, L} :
                    /\ Chain(lstAdd(lstDelete(m, K, n), L, n), J) = Chain(m, J)
                    /\ On(lstAdd(lstDelete(m, K, n), L, n), J) = On(m, J)
<1> DEFINE d == lstDelete(m, K, n)
           w == lstAdd(d, L, n)
<1>1. PICK k \in 1..Len(Chain(m, K)) : Chain(m, K)[k] = n /\ Takes(d, m, K, k)
  BY SoundDelete
<1> HIDE DEF d
<1>2. n \in Node /\ \A J \in List : n \notin On(d, J)
  BY <1>1, SoundChain DEF Takes, Sound
<1>3. Puts(w, d, L, Len(Chain(d, L)) + 1, n) BY <1>1, <1>2, SoundAdd DEF Takes
<1> HIDE DEF w
<1>4. /\ Sound(w) /\ Chain(w, K) = Removed(Chain(m, K), k) /\ On(w, K) = On(m, K) \ {n}
      /\ Chain(w, L) = Inserted(Chain(m, L), Len(Chain(m, L)) + 1, n)
      /\ On(w, L) = On(m, L) \cup {n}
      /\ \A J \in List \ {K, L} : Chain(w, J) = Chain(m, J) /\ On(w, J) = On(m, J)
  BY <1>1, <1>3 DEF Takes, Puts
<1> QED BY <1>1, <1>4 DEF w, d

\* What the descriptors of sound lists say is true.
LEMMA SoundWellFormed ==
    ASSUME NEW m, Sound(m), NEW L \in List
    PROVE  WellFormed(m, L)
BY SoundChain, WellFormedIs
=============================================================================
