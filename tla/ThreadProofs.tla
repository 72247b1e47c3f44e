----------------------------- MODULE ThreadProofs -----------------------------
(* Theorems about the event loop of Thread, for every value of its constants. *)
EXTENDS Thread, SequenceTheorems, TLAPS

-----------------------------------------------------------------------------
(* What the list primitives do to the elements of a list *)

\* Appending an element that is not there adds it and duplicates nothing
\* (thread_list_add).
LEMMA AppendElems ==
    ASSUME NEW S, NEW s \in Seq(S), NEW x \in S
    PROVE  /\ Append(s, x) \in Seq(S)
           /\ Elems(Append(s, x)) = Elems(s) \cup {x}
           /\ NoDup(s) /\ x \notin Elems(s) => NoDup(Append(s, x))
<1>1. Append(s, x) \in Seq(S) OBVIOUS
<1>2. DOMAIN Append(s, x) = 1..(Len(s) + 1) /\ DOMAIN s = 1..Len(s) OBVIOUS
<1>3. /\ \A i \in 1..Len(s) : Append(s, x)[i] = s[i]
      /\ Append(s, x)[Len(s) + 1] = x
  OBVIOUS
<1> QED BY <1>1, <1>2, <1>3 DEF Elems, NoDup

\* Taking the head loses the head and nothing else (thread_trim_head).
LEMMA TailElems ==
    ASSUME NEW S, NEW s \in Seq(S), s # <<>>
    PROVE  /\ Tail(s) \in Seq(S) /\ Head(s) \in S
           /\ Head(s) \in Elems(s)
           /\ NoDup(s) => NoDup(Tail(s)) /\ Elems(Tail(s)) = Elems(s) \ {Head(s)}
<1>1. Tail(s) \in Seq(S) /\ Head(s) \in S /\ Len(s) \in Nat \ {0} OBVIOUS
<1>2. DOMAIN Tail(s) = 1..(Len(s) - 1) /\ DOMAIN s = 1..Len(s) OBVIOUS
<1>3. /\ \A i \in 1..(Len(s) - 1) : Tail(s)[i] = s[i + 1]
      /\ Head(s) = s[1]
  OBVIOUS
<1>4. Head(s) \in Elems(s) BY <1>1, <1>2, <1>3 DEF Elems
<1>5. ASSUME NoDup(s) PROVE NoDup(Tail(s)) /\ Elems(Tail(s)) = Elems(s) \ {Head(s)}
  <2>1. NoDup(Tail(s)) BY <1>1, <1>2, <1>3, <1>5 DEF NoDup
  <2>2. Elems(Tail(s)) \subseteq Elems(s) \ {Head(s)}
    BY <1>1, <1>2, <1>3, <1>5 DEF NoDup, Elems
  <2>3. ASSUME NEW y \in Elems(s) \ {Head(s)} PROVE y \in Elems(Tail(s))
    <3>1. PICK i \in 1..Len(s) : y = s[i] BY <2>3, <1>2 DEF Elems
    <3>2. i # 1 BY <3>1, <2>3, <1>3
    <3>3. i - 1 \in 1..(Len(s) - 1) /\ Tail(s)[i - 1] = y
      BY <3>1, <3>2, <1>1, <1>3
    <3> QED BY <3>3, <1>2 DEF Elems
  <2> QED BY <2>1, <2>2, <2>3
<1> QED BY <1>1, <1>4, <1>5

\* What is where after a position has been removed.
LEMMA RemoveAtIndex ==
    ASSUME NEW S, NEW s \in Seq(S), NEW k \in DOMAIN s
    PROVE  /\ RemoveAt(s, k) \in Seq(S) /\ Len(RemoveAt(s, k)) = Len(s) - 1
           /\ \A i \in 1..(Len(s) - 1) :
                 RemoveAt(s, k)[i] = IF i < k THEN s[i] ELSE s[i + 1]
<1> DEFINE r == RemoveAt(s, k)
<1>1. k \in 1..Len(s) /\ Len(s) \in Nat /\ DOMAIN s = 1..Len(s) OBVIOUS
<1>2. /\ SubSeq(s, 1, k - 1) \in Seq(S) /\ Len(SubSeq(s, 1, k - 1)) = k - 1
      /\ \A i \in 1..(k - 1) : SubSeq(s, 1, k - 1)[i] = s[i]
  BY <1>1, SubSeqProperties
<1>3. /\ SubSeq(s, k + 1, Len(s)) \in Seq(S) /\ Len(SubSeq(s, k + 1, Len(s))) = Len(s) - k
      /\ \A i \in 1..(Len(s) - k) : SubSeq(s, k + 1, Len(s))[i] = s[k + i]
  BY <1>1, SubSeqProperties
<1> DEFINE a == SubSeq(s, 1, k - 1)
           b == SubSeq(s, k + 1, Len(s))
<1>r. r = a \o b BY DEF RemoveAt
<1> HIDE DEF a, b, r
<1>c. /\ a \o b \in Seq(S) /\ Len(a \o b) = Len(a) + Len(b)
      /\ \A i \in 1..(Len(a) + Len(b)) :
            (a \o b)[i] = IF i <= Len(a) THEN a[i] ELSE b[i - Len(a)]
  BY <1>2, <1>3, ConcatProperties DEF a, b
<1>4. r \in Seq(S) /\ Len(r) = Len(s) - 1
  <2>1. Len(a) = k - 1 /\ Len(b) = Len(s) - k BY <1>2, <1>3 DEF a, b
  <2> QED BY <2>1, <1>1, <1>r, <1>c
<1>5. \A i \in 1..(Len(s) - 1) : r[i] = IF i < k THEN s[i] ELSE s[i + 1]
  <2> SUFFICES ASSUME NEW i \in 1..(Len(s) - 1)
               PROVE  r[i] = IF i < k THEN s[i] ELSE s[i + 1]
    OBVIOUS
  <2>1. Len(a) = k - 1 /\ Len(b) = Len(s) - k BY <1>2, <1>3 DEF a, b
  <2>2. r[i] = IF i <= k - 1 THEN a[i] ELSE b[i - (k - 1)]
    <3>1. i \in 1..(Len(a) + Len(b)) BY <2>1, <1>1
    <3>2. r[i] = IF i <= Len(a) THEN a[i] ELSE b[i - Len(a)] BY <3>1, <1>r, <1>c
    <3> QED BY <3>2, <2>1
  <2>3. CASE i < k BY <2>2, <2>3, <1>1, <1>2 DEF a
  <2>4. CASE i >= k
    <3>1. i - (k - 1) \in 1..(Len(s) - k) /\ k + (i - (k - 1)) = i + 1
      BY <2>4, <1>1
    <3>2. b[i - (k - 1)] = s[k + (i - (k - 1))] BY <3>1, <1>3 DEF b
    <3>3. r[i] = b[i - (k - 1)] BY <2>2, <2>4, <1>1
    <3>4. r[i] = s[i + 1] BY <3>1, <3>2, <3>3
    <3> QED BY <3>4, <2>4, <1>1
  <2> QED BY <2>3, <2>4, <1>1
<1> QED BY <1>4, <1>5 DEF r

\* Removing a position loses the element there and nothing else.
LEMMA RemoveAtElems ==
    ASSUME NEW S, NEW s \in Seq(S), NEW k \in DOMAIN s
    PROVE  /\ RemoveAt(s, k) \in Seq(S) /\ s[k] \in S
           /\ NoDup(s) => /\ NoDup(RemoveAt(s, k))
                          /\ Elems(RemoveAt(s, k)) = Elems(s) \ {s[k]}
<1> DEFINE r == RemoveAt(s, k)
<1>1. k \in 1..Len(s) /\ Len(s) \in Nat /\ DOMAIN s = 1..Len(s) OBVIOUS
<1>2. /\ RemoveAt(s, k) \in Seq(S) /\ Len(RemoveAt(s, k)) = Len(s) - 1
      /\ \A i \in 1..(Len(s) - 1) :
            RemoveAt(s, k)[i] = IF i < k THEN s[i] ELSE s[i + 1]
  BY RemoveAtIndex, Zenon
<1> HIDE DEF r
<1>4. r \in Seq(S) /\ Len(r) = Len(s) - 1 BY <1>2 DEF r
<1>5. \A i \in 1..(Len(s) - 1) : r[i] = IF i < k THEN s[i] ELSE s[i + 1]
  BY <1>2, Zenon DEF r
<1>6. DOMAIN r = 1..(Len(s) - 1) BY <1>4
<1>7. ASSUME NoDup(s) PROVE NoDup(r) /\ Elems(r) = Elems(s) \ {s[k]}
  <2>0. \A i \in 1..(Len(s) - 1) :
           \E m \in 1..Len(s) : m # k /\ r[i] = s[m] /\ (m = i \/ m = i + 1)
                                /\ (m = i <=> i < k)
    <3> TAKE i \in 1..(Len(s) - 1)
    <3>1. CASE i < k
      <4> WITNESS i \in 1..Len(s)
      <4> QED BY <3>1, <1>1, <1>5
    <3>2. CASE i >= k
      <4>1. i + 1 \in 1..Len(s) BY <1>1
      <4> WITNESS i + 1 \in 1..Len(s)
      <4> QED BY <3>2, <1>1, <1>5
    <3> QED BY <3>1, <3>2, <1>1
  <2>n. \A m, n \in 1..Len(s) : m # n => s[m] # s[n] BY <1>7, <1>1 DEF NoDup
  <2>1. NoDup(r)
    <3> SUFFICES ASSUME NEW i \in 1..(Len(s) - 1), NEW j \in 1..(Len(s) - 1), i < j
                 PROVE  r[i] # r[j]
      BY <1>1, <1>6 DEF NoDup
    <3>1. PICK m \in 1..Len(s) : r[i] = s[m] /\ (m = i \/ m = i + 1) /\ (m = i <=> i < k)
      BY <2>0
    <3>2. PICK n \in 1..Len(s) : r[j] = s[n] /\ (n = j \/ n = j + 1) /\ (n = j <=> j < k)
      BY <2>0
    <3>3. m # n BY <3>1, <3>2, <1>1
    <3> QED BY <3>1, <3>2, <3>3, <2>n
  <2>2. Elems(r) \subseteq Elems(s) \ {s[k]}
    <3> SUFFICES ASSUME NEW i \in 1..(Len(s) - 1)
                 PROVE  r[i] \in Elems(s) \ {s[k]}
      BY <1>6 DEF Elems
    <3>1. PICK m \in 1..Len(s) : m # k /\ r[i] = s[m] BY <2>0
    <3> QED BY <3>1, <2>n, <1>1 DEF Elems
  <2>3. ASSUME NEW y \in Elems(s) \ {s[k]} PROVE y \in Elems(r)
    <3>1. PICK i \in 1..Len(s) : y = s[i] BY <2>3, <1>1 DEF Elems
    <3>2. i # k BY <3>1, <2>3
    <3>3. CASE i < k
      BY <3>1, <3>3, <1>1, <1>5, <1>6 DEF Elems
    <3>4. CASE i > k
      <4>1. i - 1 \in 1..(Len(s) - 1) /\ r[i - 1] = y BY <3>1, <3>4, <1>1, <1>5
      <4> QED BY <4>1, <1>6 DEF Elems
    <3> QED BY <3>1, <3>2, <3>3, <3>4, <1>1
  <2> QED BY <2>1, <2>2, <2>3
<1>8. s[k] \in S BY <1>1
<1> QED BY <1>4, <1>7, <1>8 DEF r

\* r is s with x inserted at k.
InsertedAt(r, s, k, x) ==
    /\ Len(r) = Len(s) + 1
    /\ \A i \in 1..(Len(s) + 1) :
          r[i] = IF i < k THEN s[i] ELSE IF i = k THEN x ELSE s[i - 1]

\* What is where after an insertion.
LEMMA InsertAtIndex ==
    ASSUME NEW S, NEW s \in Seq(S), NEW x \in S, NEW k \in 1..(Len(s) + 1)
    PROVE  InsertAt(s, k, x) \in Seq(S) /\ InsertedAt(InsertAt(s, k, x), s, k, x)
<1> DEFINE r == InsertAt(s, k, x)
<1>1. Len(s) \in Nat /\ DOMAIN s = 1..Len(s) OBVIOUS
<1>2. /\ SubSeq(s, 1, k - 1) \in Seq(S) /\ Len(SubSeq(s, 1, k - 1)) = k - 1
      /\ \A i \in 1..(k - 1) : SubSeq(s, 1, k - 1)[i] = s[i]
  BY <1>1, SubSeqProperties
<1>3. /\ SubSeq(s, k, Len(s)) \in Seq(S) /\ Len(SubSeq(s, k, Len(s))) = Len(s) + 1 - k
      /\ \A i \in 1..(Len(s) + 1 - k) : SubSeq(s, k, Len(s))[i] = s[k + i - 1]
  BY <1>1, SubSeqProperties
<1>4. <<x>> \in Seq(S) /\ Len(<<x>>) = 1 /\ <<x>>[1] = x OBVIOUS
<1> DEFINE a == SubSeq(s, 1, k - 1)
           e == <<x>>
           p == a \o e
<1>5. /\ p \in Seq(S) /\ Len(p) = k
      /\ \A i \in 1..(k - 1) : p[i] = s[i]
      /\ p[k] = x
  <2> HIDE DEF a, e
  <2>1. /\ a \o e \in Seq(S) /\ Len(a \o e) = Len(a) + Len(e)
        /\ \A i \in 1..(Len(a) + Len(e)) :
              (a \o e)[i] = IF i <= Len(a) THEN a[i] ELSE e[i - Len(a)]
    BY <1>2, <1>4, ConcatProperties DEF a, e
  <2>2. /\ Len(a) = k - 1 /\ Len(e) = 1 /\ e[1] = x
        /\ \A i \in 1..(k - 1) : a[i] = s[i]
    BY <1>2, <1>4 DEF a, e
  <2>3. Len(a \o e) = k /\ \A i \in 1..(k - 1) : (a \o e)[i] = s[i]
    BY <2>1, <2>2, <1>1
  <2>4. (a \o e)[k] = e[k - (k - 1)] BY <2>1, <2>2, <1>1
  <2>5. k - (k - 1) = 1 BY <1>1
  <2> QED BY <2>1, <2>2, <2>3, <2>4, <2>5
<1>6. r = p \o SubSeq(s, k, Len(s)) BY DEF InsertAt, p, a, e
<1> HIDE DEF a, e, p, r
<1>7. r \in Seq(S) /\ Len(r) = Len(s) + 1
  BY <1>1, <1>3, <1>5, <1>6, ConcatProperties
<1>8. \A i \in 1..(Len(s) + 1) :
         r[i] = IF i < k THEN s[i] ELSE IF i = k THEN x ELSE s[i - 1]
  BY <1>1, <1>3, <1>5, <1>6, ConcatProperties
<1>9. InsertedAt(r, s, k, x) BY <1>7, <1>8 DEF InsertedAt
<1> QED BY <1>7, <1>9 DEF r

\* Inserting an element that is not there adds it and duplicates nothing
\* (pqueue_enqueue).
LEMMA InsertAtElems ==
    ASSUME NEW S, NEW s \in Seq(S), NEW x \in S, NEW k \in 1..(Len(s) + 1)
    PROVE  /\ InsertAt(s, k, x) \in Seq(S)
           /\ Elems(InsertAt(s, k, x)) = Elems(s) \cup {x}
           /\ NoDup(s) /\ x \notin Elems(s) => NoDup(InsertAt(s, k, x))
<1> DEFINE r == InsertAt(s, k, x)
<1>1. Len(s) \in Nat /\ DOMAIN s = 1..Len(s) OBVIOUS
<1>2. r \in Seq(S) /\ InsertedAt(r, s, k, x) BY InsertAtIndex
<1> HIDE DEF r
<1>7. r \in Seq(S) /\ Len(r) = Len(s) + 1 BY <1>2 DEF InsertedAt
<1>8. \A i \in 1..(Len(s) + 1) :
         r[i] = IF i < k THEN s[i] ELSE IF i = k THEN x ELSE s[i - 1]
  BY <1>2 DEF InsertedAt
<1>9. DOMAIN r = 1..(Len(s) + 1) BY <1>7
<1>10. Elems(r) \subseteq Elems(s) \cup {x} BY <1>1, <1>8, <1>9 DEF Elems
<1>11. x \in Elems(r) BY <1>8, <1>9, <1>1 DEF Elems
<1>12. ASSUME NEW y \in Elems(s) PROVE y \in Elems(r)
  <2>1. PICK i \in 1..Len(s) : y = s[i] BY <1>12, <1>1 DEF Elems
  <2>2. CASE i < k BY <2>1, <2>2, <1>1, <1>8, <1>9 DEF Elems
  <2>3. CASE i >= k
    <3>1. i + 1 \in 1..(Len(s) + 1) /\ r[i + 1] = y BY <2>1, <2>3, <1>1, <1>8
    <3> QED BY <3>1, <1>9 DEF Elems
  <2> QED BY <2>1, <2>2, <2>3, <1>1
<1>13. ASSUME NoDup(s), x \notin Elems(s) PROVE NoDup(r)
  <2>1. \A i \in 1..Len(s) : s[i] # x BY <1>13, <1>1 DEF Elems
  <2> SUFFICES ASSUME NEW i \in 1..(Len(s) + 1), NEW j \in 1..(Len(s) + 1), i < j
               PROVE  r[i] # r[j]
    BY <1>1, <1>9 DEF NoDup
  <2>2. \A m, n \in 1..Len(s) : m # n => s[m] # s[n] BY <1>13, <1>1 DEF NoDup
  <2>3. CASE j < k BY <2>2, <2>3, <1>1, <1>8
  <2>4. CASE j = k
    <3>1. i \in 1..Len(s) /\ r[i] = s[i] /\ r[j] = x BY <2>4, <1>1, <1>8
    <3> QED BY <3>1, <2>1
  <2>5. CASE k < j
    <3>1. j - 1 \in 1..Len(s) /\ r[j] = s[j - 1] BY <2>5, <1>1, <1>8
    <3>2. CASE i < k BY <3>1, <3>2, <2>2, <2>5, <1>1, <1>8
    <3>3. CASE i = k BY <3>1, <3>3, <2>1, <1>1, <1>8
    <3>4. CASE k < i
      <4>1. i - 1 \in 1..Len(s) /\ r[i] = s[i - 1] BY <3>4, <1>1, <1>8
      <4> QED BY <3>1, <4>1, <2>2, <1>1
    <3> QED BY <3>2, <3>3, <3>4, <1>1
  <2> QED BY <2>3, <2>4, <2>5, <1>1
<1> QED BY <1>7, <1>10, <1>11, <1>12, <1>13 DEF r

\* Concatenating disjoint lists loses and duplicates nothing (thread_process).
LEMMA ConcatElems ==
    ASSUME NEW S, NEW s \in Seq(S), NEW t \in Seq(S)
    PROVE  /\ s \o t \in Seq(S)
           /\ Elems(s \o t) = Elems(s) \cup Elems(t)
           /\ NoDup(s) /\ NoDup(t) /\ Elems(s) \cap Elems(t) = {} => NoDup(s \o t)
<1>1. /\ s \o t \in Seq(S) /\ Len(s \o t) = Len(s) + Len(t)
      /\ \A i \in 1..(Len(s) + Len(t)) :
            (s \o t)[i] = IF i <= Len(s) THEN s[i] ELSE t[i - Len(s)]
  BY ConcatProperties
<1>2. /\ Len(s) \in Nat /\ Len(t) \in Nat
      /\ DOMAIN s = 1..Len(s) /\ DOMAIN t = 1..Len(t)
      /\ DOMAIN (s \o t) = 1..(Len(s) + Len(t))
  BY <1>1
<1> DEFINE r == s \o t
<1>3. \A i \in 1..Len(s) : r[i] = s[i] BY <1>1, <1>2
<1>4. \A i \in 1..Len(t) : r[Len(s) + i] = t[i] /\ Len(s) + i \in 1..(Len(s) + Len(t))
  BY <1>1, <1>2
<1>5. Elems(r) \subseteq Elems(s) \cup Elems(t) BY <1>1, <1>2 DEF Elems
<1>6. Elems(s) \subseteq Elems(r) BY <1>2, <1>3 DEF Elems
<1>7. Elems(t) \subseteq Elems(r)
  <2> SUFFICES ASSUME NEW y \in Elems(t) PROVE y \in Elems(r) OBVIOUS
  <2>1. PICK i \in 1..Len(t) : y = t[i] BY <1>2 DEF Elems
  <2> QED BY <2>1, <1>2, <1>4 DEF Elems
<1>8. ASSUME NoDup(s), NoDup(t), Elems(s) \cap Elems(t) = {} PROVE NoDup(r)
  <2>1. \A i \in 1..Len(s), j \in 1..Len(t) : s[i] # t[j] BY <1>2, <1>8 DEF Elems
  <2> QED BY <2>1, <1>1, <1>2, <1>8 DEF NoDup
<1> QED BY <1>1, <1>5, <1>6, <1>7, <1>8

\* thread_list_delete loses the thread it unlinks and nothing else, when the
\* thread is on the list.
LEMMA ListDeleteElems ==
    ASSUME NEW S, NEW s \in Seq(S), NEW t \in Elems(s), NoDup(s)
    PROVE  LET r == thread_list_delete(s, t)
           IN  r \in Seq(S) /\ NoDup(r) /\ Elems(r) = Elems(s) \ {t}
<1> DEFINE k == CHOOSE i \in DOMAIN s : s[i] = t
<1>1. k \in DOMAIN s /\ s[k] = t BY DEF Elems
<1>2. thread_list_delete(s, t) = RemoveAt(s, k) BY DEF thread_list_delete
<1> QED BY <1>1, <1>2, RemoveAtElems

\* An empty list has no elements.
LEMMA EmptyElems == Elems(<<>>) = {} /\ NoDup(<<>>)
BY DEF Elems, NoDup

-----------------------------------------------------------------------------
(* What the steps do to the lists: ListInv is kept by scheduling a thread,  *)
(* by cancelling one and by making one ready.                               *)

\* The part of TypeOK that is about the lists.
ListType_OK == list \in [ListType -> Seq(Thread)] /\ type \in [Thread -> ListType \cup {"FREE"}]

\* What thread_get hands out is on no list but the unuse list.
LEMMA CandidateFree ==
    ASSUME ListType_OK, ListInv, NEW t \in thread_get_candidates
    PROVE  /\ t \in Thread /\ t # cur
           /\ type[t] \in {"UNUSED", "FREE"}
           /\ UnuseTrimmed \in Seq(Thread) /\ NoDup(UnuseTrimmed)
           /\ Elems(UnuseTrimmed) = Elems(list["UNUSED"]) \ {t}
<1> DEFINE u == list["UNUSED"]
<1>1. u \in Seq(Thread) /\ NoDup(u) BY DEF ListType_OK, ListInv, ListType, Pending
<1>2. cur \in Thread => type[cur] # "UNUSED" /\ type[cur] # "FREE"
  <2>1. \A x \in Thread : x \in Elems(u) <=> (type[x] = "UNUSED" /\ x # cur)
    BY DEF ListInv, ListType
  <2> QED BY <2>1, ConstAssumption DEF ListInv
<1>3. CASE u # <<>>
  <2>1. t = Head(u) /\ UnuseTrimmed = Tail(u)
    BY <1>3 DEF thread_get_candidates, UnuseTrimmed
  <2>2. t \in Elems(u) /\ t \in Thread BY <2>1, <1>1, <1>3, TailElems
  <2>3. type[t] = "UNUSED" /\ t # cur BY <2>2 DEF ListInv, ListType
  <2> QED BY <2>1, <2>2, <2>3, <1>1, <1>3, TailElems
<1>4. CASE u = <<>>
  <2>1. t \in Thread /\ type[t] = "FREE" /\ UnuseTrimmed = <<>>
    BY <1>4 DEF thread_get_candidates, UnuseTrimmed
  <2>2. t # cur BY <2>1, <1>2
  <2> QED BY <2>1, <2>2, <1>4, EmptyElems
<1> QED BY <1>3, <1>4

\* thread_get moves a struct from the unuse list, or from the heap, to the list
\* of its type: the lists stay as ListInv says.
LEMMA ScheduleInv ==
    ASSUME ListType_OK, ListInv,
           NEW t \in thread_get_candidates, NEW ty \in Pending, NEW s \in Seq(Thread),
           NoDup(list[ty]) /\ t \notin Elems(list[ty]) => NoDup(s),
           Elems(s) = Elems(list[ty]) \cup {t},
           list' = [list EXCEPT !["UNUSED"] = UnuseTrimmed, ![ty] = s],
           type' = [type EXCEPT ![t] = ty],
           cur' = cur, pc' = pc
    PROVE  ListType_OK' /\ ListInv'
<1>1. /\ t \in Thread /\ t # cur /\ type[t] \in {"UNUSED", "FREE"}
      /\ UnuseTrimmed \in Seq(Thread) /\ NoDup(UnuseTrimmed)
      /\ Elems(UnuseTrimmed) = Elems(list["UNUSED"]) \ {t}
  BY CandidateFree
<1>2. ty # "UNUSED" /\ ty # "FREE" /\ ty \in ListType BY DEF Pending, ListType, FdType, TimerType
<1>3. /\ list'["UNUSED"] = UnuseTrimmed /\ list'[ty] = s
      /\ \A l \in ListType \ {"UNUSED", ty} : list'[l] = list[l]
      /\ list' \in [ListType -> Seq(Thread)]
  BY <1>1, <1>2 DEF ListType_OK, ListType
<1>4. ListType_OK' BY <1>1, <1>2, <1>3 DEF ListType_OK
<1>5. t \notin Elems(list[ty]) BY <1>1, <1>2 DEF ListInv
<1>6. ASSUME NEW l \in ListType
      PROVE  /\ NoDup(list'[l])
             /\ \A x \in Thread : x \in Elems(list'[l]) <=> (type'[x] = l /\ x # cur)
  <2>0. NoDup(list[l]) /\ \A x \in Thread : x \in Elems(list[l]) <=> (type[x] = l /\ x # cur)
    BY DEF ListInv
  <2>1. CASE l = "UNUSED" BY <2>0, <2>1, <1>1, <1>2, <1>3 DEF ListType_OK
  <2>2. CASE l = ty BY <2>0, <2>2, <1>1, <1>2, <1>3, <1>5 DEF ListType_OK
  <2>3. CASE l \notin {"UNUSED", ty}
    <3>1. list'[l] = list[l] BY <2>3, <1>3
    <3>2. \A x \in Thread : type'[x] = l <=> type[x] = l
      BY <2>3, <1>1, <1>2 DEF ListType_OK, ListType, Pending, FdType, TimerType
    <3> QED BY <2>0, <3>1, <3>2
  <2> QED BY <2>1, <2>2, <2>3
<1>7. cur' # NULL => type'[cur'] = "READY"
  BY <1>1, <1>2 DEF ListInv, ListType_OK
<1> QED BY <1>4, <1>6, <1>7 DEF ListInv

\* thread_add_unuse moves a scheduled struct to the unuse list: the lists stay
\* as ListInv says.
LEMMA UnscheduleInv ==
    ASSUME ListType_OK, ListInv,
           NEW t \in Thread, type[t] \in Pending, t # cur,
           list' = [list EXCEPT ![type[t]] = thread_list_delete(@, t),
                                !["UNUSED"] = Append(list["UNUSED"], t)],
           type' = [type EXCEPT ![t] = "UNUSED"],
           cur' = cur, pc' = pc
    PROVE  ListType_OK' /\ ListInv'
<1> DEFINE ty == type[t]
           d == thread_list_delete(list[ty], t)
           a == Append(list["UNUSED"], t)
<1>1. ty # "UNUSED" /\ ty # "FREE" /\ ty \in ListType /\ "UNUSED" \in ListType
  BY DEF Pending, ListType, FdType, TimerType
<1>2. t \in Elems(list[ty]) /\ NoDup(list[ty]) /\ list[ty] \in Seq(Thread)
  BY <1>1 DEF ListInv, ListType_OK
<1>3. d \in Seq(Thread) /\ NoDup(d) /\ Elems(d) = Elems(list[ty]) \ {t}
  BY <1>2, ListDeleteElems
<1>4. /\ list["UNUSED"] \in Seq(Thread) /\ NoDup(list["UNUSED"])
      /\ t \notin Elems(list["UNUSED"])
  BY <1>1 DEF ListInv, ListType_OK
<1>5. a \in Seq(Thread) /\ NoDup(a) /\ Elems(a) = Elems(list["UNUSED"]) \cup {t}
  BY <1>4, AppendElems
<1> HIDE DEF d, a
<1>6. /\ list'["UNUSED"] = a /\ list'[ty] = d
      /\ \A l \in ListType \ {"UNUSED", ty} : list'[l] = list[l]
      /\ list' \in [ListType -> Seq(Thread)]
  BY <1>1, <1>3, <1>5 DEF ListType_OK, a, d
<1>7. ListType_OK' BY <1>1, <1>6 DEF ListType_OK
<1>8. ASSUME NEW l \in ListType
      PROVE  /\ NoDup(list'[l])
             /\ \A x \in Thread : x \in Elems(list'[l]) <=> (type'[x] = l /\ x # cur)
  <2>0. NoDup(list[l]) /\ \A x \in Thread : x \in Elems(list[l]) <=> (type[x] = l /\ x # cur)
    BY DEF ListInv
  <2>1. CASE l = "UNUSED" BY <2>0, <2>1, <1>1, <1>5, <1>6 DEF ListType_OK
  <2>2. CASE l = ty BY <2>0, <2>2, <1>1, <1>3, <1>6 DEF ListType_OK
  <2>3. CASE l \notin {"UNUSED", ty} BY <2>0, <2>3, <1>1, <1>6 DEF ListType_OK
  <2> QED BY <2>1, <2>2, <2>3
<1>9. cur' # NULL => type'[cur'] = "READY" BY <1>1 DEF ListInv, ListType_OK
<1> QED BY <1>7, <1>8, <1>9 DEF ListInv

\* A pending thread goes to the end of the ready list: the lists stay as
\* ListInv says (thread_process, thread_process_fds_helper,
\* thread_timer_process).
LEMMA MoveInv ==
    ASSUME ListType_OK, ListInv,
           NEW ty \in Pending \ {"READY"}, NEW i \in DOMAIN list[ty],
           MoveToReady(ty, i),
           cur' = cur, cur' # NULL <=> pc' \in {"call", "func", "cancelev"}
    PROVE  /\ ListType_OK' /\ ListInv'
           /\ list[ty][i] \in Elems(list[ty]) /\ list[ty][i] \in Thread
           /\ type[list[ty][i]] = ty /\ list[ty][i] # cur
<1> DEFINE t == list[ty][i]
           d == RemoveAt(list[ty], i)
           a == Append(list["READY"], t)
<1>1. ty # "READY" /\ ty \in ListType /\ "READY" \in ListType
  BY DEF Pending, ListType, FdType, TimerType
<1>2. list[ty] \in Seq(Thread) /\ NoDup(list[ty]) /\ list["READY"] \in Seq(Thread)
      /\ NoDup(list["READY"])
  BY <1>1 DEF ListInv, ListType_OK
<1>3. t \in Thread /\ d \in Seq(Thread) /\ NoDup(d) /\ Elems(d) = Elems(list[ty]) \ {t}
  BY <1>2, RemoveAtElems
<1>4. t \in Elems(list[ty]) BY DEF Elems
<1>5. type[t] = ty /\ t # cur BY <1>1, <1>3, <1>4 DEF ListInv
<1>6. t \notin Elems(list["READY"]) BY <1>1, <1>3, <1>5 DEF ListInv
<1>7. a \in Seq(Thread) /\ NoDup(a) /\ Elems(a) = Elems(list["READY"]) \cup {t}
  BY <1>2, <1>3, <1>6, AppendElems
<1>8. /\ list' = [list EXCEPT ![ty] = d, !["READY"] = a]
      /\ type' = [type EXCEPT ![t] = "READY"]
  BY DEF MoveToReady
<1> HIDE DEF d, a, t
<1>9. /\ list'["READY"] = a /\ list'[ty] = d
      /\ \A l \in ListType \ {"READY", ty} : list'[l] = list[l]
      /\ list' \in [ListType -> Seq(Thread)]
  BY <1>1, <1>3, <1>7, <1>8 DEF ListType_OK
<1>10. ListType_OK' BY <1>1, <1>3, <1>8, <1>9 DEF ListType_OK
<1>11. ASSUME NEW l \in ListType
      PROVE  /\ NoDup(list'[l])
             /\ \A x \in Thread : x \in Elems(list'[l]) <=> (type'[x] = l /\ x # cur)
  <2>0. NoDup(list[l]) /\ \A x \in Thread : x \in Elems(list[l]) <=> (type[x] = l /\ x # cur)
    BY DEF ListInv
  <2>1. CASE l = "READY" BY <2>0, <2>1, <1>1, <1>3, <1>5, <1>7, <1>8, <1>9 DEF ListType_OK
  <2>2. CASE l = ty BY <2>0, <2>2, <1>1, <1>3, <1>5, <1>8, <1>9 DEF ListType_OK
  <2>3. CASE l \notin {"READY", ty} BY <2>0, <2>3, <1>1, <1>3, <1>5, <1>8, <1>9 DEF ListType_OK
  <2> QED BY <2>1, <2>2, <2>3
<1>12. cur' # NULL => type'[cur'] = "READY"
  BY <1>3, <1>8 DEF ListInv, ListType_OK
<1>13. ListInv' BY <1>11, <1>12 DEF ListInv
<1> QED BY <1>3, <1>4, <1>5, <1>10, <1>13 DEF t

-----------------------------------------------------------------------------
(* The inductive invariant.  HandleInv is part of it because THREAD_OFF      *)
(* passes a handle to thread_cancel: only HandleInv says that the struct it  *)
(* names is on a list and is not the one being called.                       *)

IInv == TypeOK /\ ListInv /\ HandleInv

\* The type constants of thread.h are different.
LEMMA TypesDiffer ==
    /\ "UNUSED" \notin Pending /\ "FREE" \notin Pending /\ "READY" \in Pending
    /\ "EVENT" \in Pending
    /\ Pending \subseteq ListType /\ FdType \subseteq Pending
    /\ TimerType \subseteq Pending
    /\ "READY" \notin FdType /\ "READY" \notin TimerType
BY DEF Pending, ListType, FdType, TimerType

\* TypeOK, put together from its parts.
LEMMA TypeParts ==
    ASSUME ListType_OK',
           add_type' \in [Thread -> Pending \cup {NULL}],
           arg' \in [Thread -> Client \cup {NULL}],
           fd' \in [Thread -> Fd \cup {NULL}],
           sands' \in [Thread -> -1..MaxDelay],
           fdset' \in [FdType -> SUBSET Fd], alloc' \in Int,
           bquit' \in BOOLEAN, sel' \in [FdType -> SUBSET Fd],
           pc' \in PC, cur' \in Thread \cup {NULL},
           handle' \in [Client -> Thread \cup {NULL}]
    PROVE  TypeOK'
BY DEF TypeOK, ListType_OK

\* A client schedules a thread and keeps the handle.
LEMMA ClientSchedules ==
    ASSUME IInv, NEW c \in Client, InUserCode, handle[c] = NULL,
           NEW t \in Thread, NEW ty \in Pending, thread_get(t, ty, c),
           ListInv', ListType_OK',
           handle' = [handle EXCEPT ![c] = t],
           cur' = cur, pc' = pc
    PROVE  HandleInv'
<1>1. t \in thread_get_candidates BY DEF thread_get
<1>2. t # cur /\ type[t] \in {"UNUSED", "FREE"}
  BY <1>1, CandidateFree DEF IInv, TypeOK, ListType_OK
<1>3. /\ type' = [type EXCEPT ![t] = ty] /\ arg' = [arg EXCEPT ![t] = c]
      /\ type \in [Thread -> ListType \cup {"FREE"}]
      /\ arg \in [Thread -> Client \cup {NULL}]
      /\ handle \in [Client -> Thread \cup {NULL}]
  BY DEF thread_get, IInv, TypeOK
<1>4. \A d \in Client : handle[d] # NULL => handle[d] \in Thread /\ handle[d] # t
  BY <1>2, <1>3, TypesDiffer DEF IInv, HandleInv
<1>5. ASSUME NEW d \in Client, handle'[d] # NULL
      PROVE  /\ type'[handle'[d]] \in Pending /\ arg'[handle'[d]] = d
             /\ handle'[d] = cur => pc = "call"
  <2>1. CASE d = c BY <2>1, <1>2, <1>3
  <2>2. CASE d # c
    BY <2>2, <1>3, <1>4, <1>5 DEF IInv, HandleInv
  <2> QED BY <2>1, <2>2
<1>6. ASSUME NEW u \in Thread, type'[u] \in Pending, arg'[u] # NULL,
             u = cur => pc = "call"
      PROVE  handle'[arg'[u]] = u
  <2>1. CASE u = t BY <2>1, <1>3
  <2>2. CASE u # t
    <3>1. handle[arg[u]] = u /\ arg[u] \in Client
      BY <2>2, <1>3, <1>6 DEF IInv, HandleInv
    <3>2. arg[u] # c BY <3>1, ConstAssumption
    <3> QED BY <2>2, <3>1, <3>2, <1>3
  <2> QED BY <2>1, <2>2
<1> QED BY <1>5, <1>6 DEF HandleInv

\* A thread without a handle is scheduled.
LEMMA NoHandleSchedules ==
    ASSUME IInv, NEW t \in Thread, NEW ty \in Pending, thread_get(t, ty, NULL),
           handle' = handle, cur' = cur, pc' = pc
    PROVE  HandleInv'
<1>1. t \in thread_get_candidates BY DEF thread_get
<1>2. t # cur /\ type[t] \in {"UNUSED", "FREE"}
  BY <1>1, CandidateFree DEF IInv, TypeOK, ListType_OK
<1>3. /\ type' = [type EXCEPT ![t] = ty] /\ arg' = [arg EXCEPT ![t] = NULL]
      /\ type \in [Thread -> ListType \cup {"FREE"}]
      /\ arg \in [Thread -> Client \cup {NULL}]
      /\ handle \in [Client -> Thread \cup {NULL}]
  BY DEF thread_get, IInv, TypeOK
<1>4. \A d \in Client : handle[d] # NULL => handle[d] \in Thread /\ handle[d] # t
  BY <1>2, <1>3, TypesDiffer DEF IInv, HandleInv
<1>5. \A d \in Client : handle'[d] # NULL =>
          /\ type'[handle'[d]] \in Pending /\ arg'[handle'[d]] = d
          /\ handle'[d] = cur => pc = "call"
  BY <1>3, <1>4 DEF IInv, HandleInv
<1>6. \A u \in Thread :
         type'[u] \in Pending /\ arg'[u] # NULL /\ (u = cur => pc = "call")
            => handle'[arg'[u]] = u
  BY <1>3 DEF IInv, HandleInv
<1> QED BY <1>5, <1>6 DEF HandleInv

\* The list is ScheduleInv's for a list that is appended to ...
LEMMA AppendSchedules ==
    ASSUME IInv, NEW t \in thread_get_candidates, NEW ty \in Pending,
           list' = [list EXCEPT !["UNUSED"] = UnuseTrimmed, ![ty] = Append(@, t)],
           type' = [type EXCEPT ![t] = ty],
           cur' = cur, pc' = pc
    PROVE  ListType_OK' /\ ListInv'
<1>1. ListType_OK /\ ListInv /\ t \in Thread
  BY CandidateFree DEF IInv, TypeOK, ListType_OK
<1>2. ty # "UNUSED" /\ list[ty] \in Seq(Thread) BY <1>1, TypesDiffer DEF ListType_OK
<1> DEFINE s == Append(list[ty], t)
<1>3. s \in Seq(Thread) /\ Elems(s) = Elems(list[ty]) \cup {t}
      /\ (NoDup(list[ty]) /\ t \notin Elems(list[ty]) => NoDup(s))
  BY <1>1, <1>2, AppendElems
<1>4. list' = [list EXCEPT !["UNUSED"] = UnuseTrimmed, ![ty] = s] BY <1>2
<1> HIDE DEF s
<1> QED BY <1>1, <1>3, <1>4, ScheduleInv

\* ... and for a queue that is inserted into.
LEMMA InsertSchedules ==
    ASSUME IInv, NEW t \in thread_get_candidates, NEW ty \in Pending,
           NEW k \in 1..(Len(list[ty]) + 1),
           list' = [list EXCEPT !["UNUSED"] = UnuseTrimmed, ![ty] = InsertAt(@, k, t)],
           type' = [type EXCEPT ![t] = ty],
           cur' = cur, pc' = pc
    PROVE  ListType_OK' /\ ListInv'
<1>1. ListType_OK /\ ListInv /\ t \in Thread
  BY CandidateFree DEF IInv, TypeOK, ListType_OK
<1>2. ty # "UNUSED" /\ list[ty] \in Seq(Thread) BY <1>1, TypesDiffer DEF ListType_OK
<1> DEFINE s == InsertAt(list[ty], k, t)
<1>3. s \in Seq(Thread) /\ Elems(s) = Elems(list[ty]) \cup {t}
      /\ (NoDup(list[ty]) /\ t \notin Elems(list[ty]) => NoDup(s))
  BY <1>1, <1>2, InsertAtElems
<1>4. list' = [list EXCEPT !["UNUSED"] = UnuseTrimmed, ![ty] = s] BY <1>2
<1> HIDE DEF s
<1> QED BY <1>1, <1>3, <1>4, ScheduleInv

\* Scheduling keeps the types of what thread_get writes.
LEMMA ThreadGetType ==
    ASSUME TypeOK, NEW t \in Thread, NEW ty \in Pending, NEW a \in Client \cup {NULL},
           thread_get(t, ty, a)
    PROVE  /\ t \in thread_get_candidates
           /\ type' = [type EXCEPT ![t] = ty]
           /\ add_type' \in [Thread -> Pending \cup {NULL}]
           /\ arg' \in [Thread -> Client \cup {NULL}]
           /\ alloc' \in Int
BY DEF thread_get, TypeOK

\* thread_add_read_write keeps IInv.
LEMMA UserAddReadWriteStep ==
    ASSUME IInv, NEW c \in Client, UserAddReadWrite(c) PROVE IInv'
<1>1. PICK t \in Thread, dir \in FdType \cap AddTypes, f \in Fd :
         thread_add_read_write(t, dir, c, f) /\ handle' = [handle EXCEPT ![c] = t]
  BY DEF UserAddReadWrite
<1>2. dir \in Pending /\ thread_get(t, dir, c) /\ TypeOK
  BY <1>1, TypesDiffer DEF thread_add_read_write, IInv
<1>3. /\ t \in thread_get_candidates
      /\ type' = [type EXCEPT ![t] = dir]
      /\ add_type' \in [Thread -> Pending \cup {NULL}]
      /\ arg' \in [Thread -> Client \cup {NULL}]
      /\ alloc' \in Int
  BY <1>2, ThreadGetType
<1>4. cur' = cur /\ pc' = pc /\ InUserCode /\ handle[c] = NULL
  BY DEF UserAddReadWrite
<1>5. ListType_OK' /\ ListInv'
  BY <1>1, <1>2, <1>3, <1>4, AppendSchedules DEF thread_add_read_write
<1>6. HandleInv' BY <1>1, <1>2, <1>4, <1>5, ClientSchedules
<1>7. TypeOK'
  <2>1. handle' \in [Client -> Thread \cup {NULL}] BY <1>1, <1>2 DEF TypeOK
  <2>2. /\ fdset' = [fdset EXCEPT ![dir] = @ \cup {f}] /\ fd' = [fd EXCEPT ![t] = f]
        /\ sands' = sands
    BY <1>1 DEF thread_add_read_write
  <2>3. fdset' \in [FdType -> SUBSET Fd] /\ fd' \in [Thread -> Fd \cup {NULL}]
    BY <2>2, <1>2 DEF TypeOK
  <2>4. UNCHANGED <<bquit, sel, pc, cur>> BY DEF UserAddReadWrite
  <2>5. /\ sands' \in [Thread -> -1..MaxDelay] /\ bquit' \in BOOLEAN
        /\ sel' \in [FdType -> SUBSET Fd] /\ pc' \in PC /\ cur' \in Thread \cup {NULL}
    BY <2>2, <2>4, <1>2 DEF TypeOK
  <2> QED BY <2>1, <2>3, <2>5, <1>3, <1>5, TypeParts
<1> QED BY <1>5, <1>6, <1>7 DEF IInv

\* thread_add_timer and thread_add_background keep IInv.
LEMMA UserAddTimerStep ==
    ASSUME IInv, NEW c \in Client, UserAddTimer(c) PROVE IInv'
<1>1. PICK t \in Thread, ty \in TimerType \cap AddTypes, d \in 0..MaxDelay :
         thread_add_timer(t, ty, c, d) /\ handle' = [handle EXCEPT ![c] = t]
  BY DEF UserAddTimer
<1>2. ty \in Pending /\ thread_get(t, ty, c) /\ TypeOK
  BY <1>1, TypesDiffer DEF thread_add_timer, IInv
<1>3. /\ t \in thread_get_candidates
      /\ type' = [type EXCEPT ![t] = ty]
      /\ add_type' \in [Thread -> Pending \cup {NULL}]
      /\ arg' \in [Thread -> Client \cup {NULL}]
      /\ alloc' \in Int
  BY <1>2, ThreadGetType
<1>4. cur' = cur /\ pc' = pc /\ InUserCode /\ handle[c] = NULL
  BY DEF UserAddTimer
<1>5. ListType_OK' /\ ListInv'
  <2>1. PICK k \in EnqueuePlaces(list[ty], d) :
           list' = [list EXCEPT !["UNUSED"] = UnuseTrimmed, ![ty] = InsertAt(@, k, t)]
    BY <1>1 DEF thread_add_timer
  <2>2. k \in 1..(Len(list[ty]) + 1) BY DEF EnqueuePlaces
  <2> QED BY <2>1, <2>2, <1>2, <1>3, <1>4, InsertSchedules
<1>6. HandleInv' BY <1>1, <1>2, <1>4, <1>5, ClientSchedules
<1>7. TypeOK'
  <2>1. d \in -1..MaxDelay BY ConstAssumption
  <2> QED BY <2>1, <1>1, <1>2, <1>3, <1>5
          DEF TypeOK, ListType_OK, UserAddTimer, thread_add_timer
<1> QED BY <1>5, <1>6, <1>7 DEF IInv

\* thread_add_event with a handle keeps IInv.
LEMMA UserAddEventStep ==
    ASSUME IInv, NEW c \in Client, UserAddEvent(c) PROVE IInv'
<1>1. PICK t \in Thread :
         thread_add_event(t, "EVENT", c) /\ handle' = [handle EXCEPT ![c] = t]
  BY DEF UserAddEvent
<1>2. thread_get(t, "EVENT", c) /\ TypeOK /\ "EVENT" \in Pending
  BY <1>1, TypesDiffer DEF thread_add_event, IInv
<1>3. /\ t \in thread_get_candidates
      /\ type' = [type EXCEPT ![t] = "EVENT"]
      /\ add_type' \in [Thread -> Pending \cup {NULL}]
      /\ arg' \in [Thread -> Client \cup {NULL}]
      /\ alloc' \in Int
  BY <1>2, ThreadGetType
<1>4. cur' = cur /\ pc' = pc /\ InUserCode /\ handle[c] = NULL
  BY DEF UserAddEvent
<1>5. ListType_OK' /\ ListInv'
  BY <1>1, <1>2, <1>3, <1>4, AppendSchedules DEF thread_add_event
<1>6. HandleInv' BY <1>1, <1>2, <1>4, <1>5, ClientSchedules
<1>7. TypeOK'
  BY <1>1, <1>2, <1>3, <1>5
  DEF TypeOK, ListType_OK, UserAddEvent, thread_add_event
<1> QED BY <1>5, <1>6, <1>7 DEF IInv

\* UserAddReady and Post
LEMMA NoHandleStep ==
    ASSUME IInv, NEW t \in Thread, NEW ty \in {"EVENT", "READY"},
           thread_add_event(t, ty, NULL),
           UNCHANGED <<bquit, sel, pc, cur, handle>>
    PROVE  IInv'
<1>2. thread_get(t, ty, NULL) /\ TypeOK /\ ty \in Pending
  BY TypesDiffer DEF thread_add_event, IInv
<1>3. /\ t \in thread_get_candidates
      /\ type' = [type EXCEPT ![t] = ty]
      /\ add_type' \in [Thread -> Pending \cup {NULL}]
      /\ arg' \in [Thread -> Client \cup {NULL}]
      /\ alloc' \in Int
  BY <1>2, ThreadGetType
<1>5. ListType_OK' /\ ListInv'
  BY <1>2, <1>3, AppendSchedules DEF thread_add_event
<1>6. HandleInv' BY <1>2, NoHandleSchedules
<1>7. TypeOK'
  BY <1>2, <1>3, <1>5 DEF TypeOK, ListType_OK, thread_add_event
<1> QED BY <1>5, <1>6, <1>7 DEF IInv

\* What a struct that leaves its list for the unuse list does to the types.
LEMMA UnuseType ==
    ASSUME TypeOK, NEW lst, NEW t \in Thread, thread_add_unuse(lst, t)
    PROVE  /\ add_type' \in [Thread -> Pending \cup {NULL}]
           /\ arg' = [arg EXCEPT ![t] = NULL]
           /\ arg' \in [Thread -> Client \cup {NULL}]
           /\ fd' \in [Thread -> Fd \cup {NULL}]
           /\ sands' \in [Thread -> -1..MaxDelay]
           /\ type' = [type EXCEPT ![t] = "UNUSED"]
           /\ list' = [lst EXCEPT !["UNUSED"] = Append(@, t)]
<1>1. -1 \in -1..MaxDelay BY ConstAssumption
<1> QED BY <1>1 DEF thread_add_unuse, TypeOK

\* Unschedule leaves the lists as ListInv says, with the type UNUSED.
LEMMA UnscheduleLists ==
    ASSUME IInv, NEW t \in Thread, type[t] \in Pending, t # cur, Unschedule(t),
           cur' = cur, pc' = pc
    PROVE  ListType_OK' /\ ListInv'
<1>1. ListType_OK /\ ListInv /\ TypeOK BY DEF IInv, TypeOK, ListType_OK
<1>2. type[t] # "UNUSED" /\ type[t] \in ListType BY TypesDiffer
<1>3. list' = [list EXCEPT ![type[t]] = thread_list_delete(@, t),
                           !["UNUSED"] = Append(list["UNUSED"], t)]
  BY <1>1, <1>2 DEF Unschedule, thread_add_unuse, ListType_OK, ListType
<1>4. type' = [type EXCEPT ![t] = "UNUSED"] BY DEF Unschedule, thread_add_unuse
<1> QED BY <1>1, <1>3, <1>4, UnscheduleInv

\* THREAD_OFF keeps IInv, whether the thread is still pending or not.
LEMMA UserOffStep ==
    ASSUME IInv, NEW c \in Client, UserOff(c) PROVE IInv'
<1> DEFINE t == handle[c]
<1>1. /\ t \in Thread /\ type[t] \in Pending /\ arg[t] = c /\ t # cur
      /\ TypeOK /\ pc' = pc /\ cur' = cur /\ bquit' = bquit /\ sel' = sel
      /\ handle' = [handle EXCEPT ![c] = NULL]
  BY DEF IInv, TypeOK, HandleInv, UserOff, InUserCode
<1>2. Unschedule(t) /\ alloc' = alloc
      /\ fdset' = IF type[t] \in FdType THEN [fdset EXCEPT ![type[t]] = @ \ {fd[t]}] ELSE fdset
  BY <1>1 DEF UserOff, thread_cancel
<1> HIDE DEF t
<1>3. ListType_OK' /\ ListInv' BY <1>1, <1>2, UnscheduleLists
<1>4. /\ add_type' \in [Thread -> Pending \cup {NULL}]
      /\ arg' = [arg EXCEPT ![t] = NULL]
      /\ arg' \in [Thread -> Client \cup {NULL}]
      /\ fd' \in [Thread -> Fd \cup {NULL}]
      /\ sands' \in [Thread -> -1..MaxDelay]
      /\ type' = [type EXCEPT ![t] = "UNUSED"]
  BY <1>1, <1>2, UnuseType DEF Unschedule
<1>5. fdset' \in [FdType -> SUBSET Fd] BY <1>1, <1>2 DEF TypeOK
<1>6. TypeOK'
  <2>1. handle' \in [Client -> Thread \cup {NULL}] BY <1>1 DEF TypeOK
  <2>2. /\ alloc' \in Int /\ bquit' \in BOOLEAN /\ sel' \in [FdType -> SUBSET Fd]
        /\ pc' \in PC /\ cur' \in Thread \cup {NULL}
    <3>1. alloc' = alloc BY <1>2
    <3> QED BY <3>1, <1>1 DEF TypeOK
  <2> QED BY <2>1, <2>2, <1>3, <1>4, <1>5, TypeParts
<1>7. HandleInv'
  <2>1. ASSUME NEW d \in Client, handle'[d] # NULL
        PROVE  /\ type'[handle'[d]] \in Pending /\ arg'[handle'[d]] = d
               /\ handle'[d] = cur' => pc' = "call"
    <3>1. d # c /\ handle'[d] = handle[d] /\ handle[d] \in Thread
      BY <2>1, <1>1 DEF TypeOK
    <3>2. handle[d] # t BY <3>1, <2>1, <1>1 DEF IInv, HandleInv
    <3> QED BY <3>1, <3>2, <2>1, <1>1, <1>4 DEF IInv, HandleInv, TypeOK
  <2>2. ASSUME NEW u \in Thread, type'[u] \in Pending, arg'[u] # NULL,
               u = cur' => pc' = "call"
        PROVE  handle'[arg'[u]] = u
    <3>1. u # t BY <2>2, <1>1, <1>4, TypesDiffer DEF TypeOK
    <3>2. handle[arg[u]] = u /\ arg'[u] = arg[u] /\ arg[u] \in Client
      BY <3>1, <2>2, <1>1, <1>4 DEF IInv, HandleInv, TypeOK
    <3>3. arg[u] # c BY <3>1, <3>2 DEF t
    <3> QED BY <3>2, <3>3, <1>1 DEF TypeOK
  <2> QED BY <2>1, <2>2 DEF HandleInv
<1> QED BY <1>3, <1>6, <1>7 DEF IInv

\* An iteration of thread_cancel_event keeps IInv.
LEMMA CancelEventStepStep == ASSUME IInv, CancelEventStep PROVE IInv'
<1>1. PICK t \in FirstWithNullArg(list["EVENT"]) \cup FirstWithNullArg(list["READY"]) :
         Unschedule(t)
  BY DEF CancelEventStep
<1>2. /\ TypeOK /\ pc = "cancelev" /\ pc' = pc /\ cur' = cur /\ bquit' = bquit /\ sel' = sel
      /\ handle' = handle /\ alloc' = alloc /\ fdset' = fdset
  BY DEF CancelEventStep, IInv
<1>3. t \in Thread /\ type[t] \in Pending /\ t # cur /\ arg[t] = NULL
  <2>1. PICK l \in {"EVENT", "READY"} : t \in FirstWithNullArg(list[l]) OBVIOUS
  <2>2. t \in Elems(list[l]) /\ arg[t] = NULL BY <2>1 DEF FirstWithNullArg, Elems
  <2>3. l \in ListType /\ l \in Pending BY TypesDiffer
  <2>4. t \in Thread BY <2>2, <2>3, <1>2 DEF TypeOK, Elems
  <2> QED BY <2>2, <2>3, <2>4 DEF IInv, ListInv
<1>4. ListType_OK' /\ ListInv' BY <1>1, <1>2, <1>3, UnscheduleLists
<1>5. /\ add_type' \in [Thread -> Pending \cup {NULL}]
      /\ arg' = [arg EXCEPT ![t] = NULL]
      /\ arg' \in [Thread -> Client \cup {NULL}]
      /\ fd' \in [Thread -> Fd \cup {NULL}]
      /\ sands' \in [Thread -> -1..MaxDelay]
      /\ type' = [type EXCEPT ![t] = "UNUSED"]
  BY <1>1, <1>2, <1>3, UnuseType DEF Unschedule
<1>6. TypeOK' BY <1>2, <1>4, <1>5 DEF TypeOK, ListType_OK
<1>7. \A d \in Client : handle[d] # NULL => handle[d] # t
  BY <1>3, ConstAssumption DEF IInv, HandleInv
<1>8. HandleInv'
  BY <1>2, <1>3, <1>5, <1>7, TypesDiffer DEF HandleInv, IInv, TypeOK
<1> QED BY <1>4, <1>6, <1>8 DEF IInv

\* A thread leaves the ready list to be called (FetchReady, FetchTrim).
LEMMA TrimReadyStep ==
    ASSUME IInv, list["READY"] # <<>>, TrimReady, cur = NULL,
           UNCHANGED <<type, add_type, arg, fd, sands, fdset, alloc, bquit, handle>>,
           sel' \in [FdType -> SUBSET Fd]
    PROVE  IInv'
<1> DEFINE t == Head(list["READY"])
<1>1. "READY" \in ListType BY TypesDiffer
<1>2. list["READY"] \in Seq(Thread) /\ NoDup(list["READY"])
  BY <1>1 DEF IInv, TypeOK, ListInv
<1>3. /\ t \in Thread /\ t \in Elems(list["READY"])
      /\ Tail(list["READY"]) \in Seq(Thread) /\ NoDup(Tail(list["READY"]))
      /\ Elems(Tail(list["READY"])) = Elems(list["READY"]) \ {t}
  BY <1>2, TailElems
<1>4. type[t] = "READY" BY <1>1, <1>3 DEF IInv, ListInv
<1>5. cur' = t /\ pc' = "call" /\ list' = [list EXCEPT !["READY"] = Tail(@)]
  BY DEF TrimReady
<1> HIDE DEF t
<1>6. TypeOK' BY <1>1, <1>3, <1>5 DEF IInv, TypeOK, PC
<1>7. ListInv'
  <2>1. ASSUME NEW l \in ListType
        PROVE  /\ NoDup(list'[l])
               /\ \A x \in Thread : x \in Elems(list'[l]) <=> (type'[x] = l /\ x # cur')
    <3>0. /\ NoDup(list[l])
          /\ \A x \in Thread : x \in Elems(list[l]) <=> (type[x] = l /\ x # cur)
      BY DEF IInv, ListInv
    <3>1. CASE l = "READY"
      <4>1. list'[l] = Tail(list["READY"]) BY <3>1, <1>1, <1>5 DEF IInv, TypeOK
      <4> QED BY <4>1, <3>0, <3>1, <1>3, <1>5, ConstAssumption
    <3>2. CASE l # "READY"
      <4>1. list'[l] = list[l] BY <3>2, <1>5 DEF IInv, TypeOK
      <4> QED BY <4>1, <3>0, <3>2, <1>3, <1>4, <1>5, ConstAssumption
    <3> QED BY <3>1, <3>2
  <2>2. cur' # NULL /\ type'[cur'] = "READY" BY <1>3, <1>4, <1>5, ConstAssumption
  <2> QED BY <2>1, <2>2, <1>5 DEF ListInv
<1>8. HandleInv'
  <2>1. pc' = "call" BY <1>5
  <2>2. \A u \in Thread : (type[u] \in Pending /\ arg[u] # NULL) => handle[arg[u]] = u
    BY ConstAssumption DEF IInv, HandleInv
  <2> QED BY <2>1, <2>2 DEF IInv, HandleInv
<1> QED BY <1>6, <1>7, <1>8 DEF IInv

\* The first half of thread_fetch, with its thread_process, keeps IInv.
LEMMA FetchEventsStep == ASSUME IInv, FetchEvents PROVE IInv'
<1>1. "READY" \in ListType /\ "EVENT" \in ListType /\ "READY" # "EVENT" BY TypesDiffer
<1> DEFINE r == list["READY"]
           e == list["EVENT"]
<1>2. /\ r \in Seq(Thread) /\ NoDup(r) /\ e \in Seq(Thread) /\ NoDup(e)
      /\ Elems(r) \cap Elems(e) = {}
  <2>1. r \in Seq(Thread) /\ e \in Seq(Thread) /\ NoDup(r) /\ NoDup(e)
    BY <1>1 DEF IInv, TypeOK, ListInv
  <2>2. Elems(r) \subseteq Thread BY <2>1 DEF Elems
  <2> QED BY <2>1, <2>2, <1>1 DEF IInv, ListInv
<1>3. r \o e \in Seq(Thread) /\ NoDup(r \o e) /\ Elems(r \o e) = Elems(r) \cup Elems(e)
  BY <1>2, ConcatElems
<1>4. /\ list' = [list EXCEPT !["READY"] = r \o e, !["EVENT"] = <<>>]
      /\ type' = [t \in Thread |-> IF t \in Elems(e) THEN "READY" ELSE type[t]]
      /\ pc = "fetch" /\ pc' = "select" /\ cur' = cur /\ handle' = handle /\ arg' = arg
  BY DEF FetchEvents
<1>5. /\ list'["READY"] = r \o e /\ list'["EVENT"] = <<>>
      /\ \A l \in ListType \ {"READY", "EVENT"} : list'[l] = list[l]
      /\ list' \in [ListType -> Seq(Thread)]
  <2>1. <<>> \in Seq(Thread) OBVIOUS
  <2> QED BY <2>1, <1>1, <1>3, <1>4 DEF IInv, TypeOK
<1> HIDE DEF r, e
<1>6. TypeOK'
  <2>1. type' \in [Thread -> ListType \cup {"FREE"}] BY <1>1, <1>4 DEF IInv, TypeOK
  <2>2. ListType_OK' BY <2>1, <1>5 DEF ListType_OK
  <2>3. "select" \in PC BY DEF PC
  <2>4. /\ sel' = fdset
        /\ UNCHANGED <<add_type, arg, fd, sands, fdset, alloc, bquit, cur, handle>>
    BY DEF FetchEvents
  <2>5. TypeOK BY DEF IInv
  <2> QED BY <2>2, <2>3, <2>4, <2>5, <1>4, TypeParts DEF TypeOK
<1>7. \A t \in Thread : t \in Elems(e) <=> (type[t] = "EVENT" /\ t # cur)
  BY <1>1 DEF IInv, ListInv, e
<1>8. cur = NULL BY <1>4 DEF IInv, ListInv
<1>9. \A t \in Thread : t \in Elems(r) <=> (type[t] = "READY" /\ t # cur)
  BY <1>1 DEF IInv, ListInv, r
<1>10. \A t \in Thread : t # cur BY <1>8, ConstAssumption
<1>11. ListInv'
  <2>1. ASSUME NEW l \in ListType
        PROVE  /\ NoDup(list'[l])
               /\ \A x \in Thread : x \in Elems(list'[l]) <=> (type'[x] = l /\ x # cur')
    <3>0. /\ NoDup(list[l])
          /\ \A x \in Thread : x \in Elems(list[l]) <=> (type[x] = l /\ x # cur)
      BY DEF IInv, ListInv
    <3>1. CASE l = "READY" BY <3>1, <1>3, <1>4, <1>5, <1>7, <1>9, <1>10
    <3>2. CASE l = "EVENT" BY <3>2, <1>4, <1>5, <1>7, <1>10, EmptyElems
    <3>3. CASE l \notin {"READY", "EVENT"}
      BY <3>0, <3>3, <1>4, <1>5, <1>7, <1>10
    <3> QED BY <3>1, <3>2, <3>3
  <2> QED BY <2>1, <1>4, <1>8 DEF ListInv
<1>12. \A t \in Thread : type'[t] \in Pending <=> type[t] \in Pending
  BY <1>4, <1>7, TypesDiffer
<1>13. HandleInv'
  BY <1>4, <1>8, <1>10, <1>12, ConstAssumption DEF IInv, HandleInv, TypeOK
<1> QED BY <1>6, <1>11, <1>13 DEF IInv

\* A thread becomes ready while the loop task holds the mutex.
LEMMA MoveStep ==
    ASSUME IInv, NEW ty \in Pending \ {"READY"}, NEW i \in DOMAIN list[ty],
           MoveToReady(ty, i), pc \in LockedPc \ {"cancelev"}, pc' = pc,
           UNCHANGED <<add_type, arg, fd, sands, alloc, bquit, sel, cur, handle>>,
           fdset' \in [FdType -> SUBSET Fd]
    PROVE  IInv'
<1> DEFINE t == list[ty][i]
<1>1. ListType_OK /\ ListInv BY DEF IInv, TypeOK, ListType_OK
<1>2. cur' # NULL <=> pc' \in {"call", "func", "cancelev"} BY DEF IInv, ListInv
<1>3. /\ ListType_OK' /\ ListInv' /\ t \in Thread /\ type[t] = ty /\ t # cur
  BY <1>1, <1>2, MoveInv
<1>4. type' = [type EXCEPT ![t] = "READY"] BY DEF MoveToReady
<1> HIDE DEF t
<1>5. TypeOK' BY <1>3 DEF IInv, TypeOK, ListType_OK
<1>6. \A u \in Thread : type'[u] \in Pending <=> type[u] \in Pending
  BY <1>3, <1>4, TypesDiffer DEF IInv, TypeOK
<1>7. HandleInv' BY <1>6 DEF IInv, HandleInv, TypeOK
<1> QED BY <1>3, <1>5, <1>7 DEF IInv

\* An iteration of thread_timer_process keeps IInv.
LEMMA TimerPopStep ==
    ASSUME IInv, NEW ty \in TimerType, NEW at \in LockedPc \ {"cancelev"},
           NEW next \in LockedPc \ {"cancelev"}, TimerPop(ty, at, next)
    PROVE  IInv'
<1>1. CASE list[ty] # <<>> /\ timer_due(Head(list[ty]))
  <2>1. ty \in Pending \ {"READY"} /\ ty \in ListType BY TypesDiffer
  <2>2. 1 \in DOMAIN list[ty]
    <3>1. list[ty] \in Seq(Thread) BY <2>1 DEF IInv, TypeOK
    <3> QED BY <3>1, <1>1
  <2>3. /\ MoveToReady(ty, 1) /\ pc = at /\ pc' = pc
        /\ UNCHANGED <<add_type, arg, fd, sands, fdset, alloc, bquit, sel, cur, handle>>
    BY <1>1 DEF TimerPop
  <2>4. fdset' \in [FdType -> SUBSET Fd] BY <2>3 DEF IInv, TypeOK
  <2> QED BY <2>1, <2>2, <2>3, <2>4, MoveStep
<1>2. CASE ~(list[ty] # <<>> /\ timer_due(Head(list[ty])))
  <2>1. /\ pc = at /\ pc' = next
        /\ UNCHANGED <<list, type, add_type, arg, fd, sands, fdset, alloc, bquit, sel, cur, handle>>
    BY <1>2 DEF TimerPop
  <2>2. pc \notin {"call", "func", "cancelev"} /\ pc' \notin {"call", "func", "cancelev"}
        /\ pc' \in PC
    BY <2>1 DEF LockedPc, PC
  <2> QED BY <2>1, <2>2 DEF IInv, TypeOK, ListInv, HandleInv
<1> QED BY <1>1, <1>2

\* An iteration of thread_process_fds_helper keeps IInv.
LEMMA ProcessFdsStep ==
    ASSUME IInv, NEW dir \in FdType, NEW at \in LockedPc \ {"cancelev"},
           NEW next \in LockedPc \ {"cancelev"}, ProcessFds(dir, at, next)
    PROVE  IInv'
<1>1. ASSUME NEW i \in Reported(dir), MoveToReady(dir, i), pc' = pc,
             fdset' = [fdset EXCEPT ![dir] = @ \ {fd[list[dir][i]]}]
      PROVE  IInv'
  <2>1. dir \in Pending \ {"READY"} /\ i \in DOMAIN list[dir]
    BY TypesDiffer DEF Reported
  <2>2. pc = at /\ UNCHANGED <<add_type, arg, fd, sands, alloc, bquit, sel, cur, handle>>
    BY DEF ProcessFds
  <2>3. fdset' \in [FdType -> SUBSET Fd] BY <1>1 DEF IInv, TypeOK
  <2> QED BY <1>1, <2>1, <2>2, <2>3, MoveStep
<1>2. CASE pc' = next /\ UNCHANGED <<list, type, fdset>>
  <2>1. /\ pc = at
        /\ UNCHANGED <<list, type, add_type, arg, fd, sands, fdset, alloc, bquit, sel, cur, handle>>
    BY <1>2 DEF ProcessFds
  <2>2. pc \notin {"call", "func", "cancelev"} /\ pc' \notin {"call", "func", "cancelev"}
        /\ pc' \in PC
    BY <1>2, <2>1 DEF LockedPc, PC
  <2> QED BY <2>1, <2>2 DEF IInv, TypeOK, ListInv, HandleInv
<1> QED BY <1>1, <1>2 DEF ProcessFds

\* A callback that starts and clears its handle keeps IInv.
LEMMA CallEnterStep == ASSUME IInv, CallEnter PROVE IInv'
<1>1. /\ pc = "call" /\ pc' = "func" /\ cur' = cur /\ cur \in Thread /\ type[cur] = "READY"
      /\ UNCHANGED <<list, type, add_type, arg, fd, sands, fdset, alloc, bquit, sel>>
      /\ handle' = [c \in Client |-> IF c = arg[cur] THEN NULL ELSE handle[c]]
  BY DEF CallEnter, schedVars, IInv, TypeOK, ListInv
<1>2. TypeOK' BY <1>1 DEF IInv, TypeOK, PC
<1>3. ListInv' BY <1>1 DEF IInv, ListInv
<1>4. arg[cur] # NULL => arg[cur] \in Client /\ handle[arg[cur]] = cur
  BY <1>1, TypesDiffer DEF IInv, HandleInv, TypeOK
<1>5. ASSUME NEW d \in Client, handle'[d] # NULL
      PROVE  /\ type'[handle'[d]] \in Pending /\ arg'[handle'[d]] = d
             /\ handle'[d] = cur' => pc' = "call"
  BY <1>1, <1>5 DEF IInv, HandleInv
<1>6. ASSUME NEW u \in Thread, type'[u] \in Pending, arg'[u] # NULL,
             u = cur' => pc' = "call"
      PROVE  handle'[arg'[u]] = u
  <2>1. u # cur BY <1>1, <1>6
  <2>2. handle[arg[u]] = u /\ arg[u] \in Client
    BY <1>1, <1>6, <2>1 DEF IInv, HandleInv, TypeOK
  <2>3. arg[u] # arg[cur] BY <2>1, <2>2, <1>4, <1>6, <1>1
  <2> QED BY <1>1, <2>2, <2>3
<1> QED BY <1>2, <1>3, <1>5, <1>6 DEF IInv, HandleInv

\* A callback that returns, and thread_add_unuse of its struct, keep IInv.
LEMMA CallReturnStep == ASSUME IInv, CallReturn PROVE IInv'
<1>1. /\ TypeOK /\ pc = "func" /\ pc' = "check" /\ cur' = NULL
      /\ cur \in Thread /\ type[cur] = "READY" /\ cur # NULL
      /\ UNCHANGED <<fdset, alloc, bquit, sel, handle>>
  BY DEF CallReturn, IInv, TypeOK, ListInv
<1>2. /\ add_type' \in [Thread -> Pending \cup {NULL}]
      /\ arg' = [arg EXCEPT ![cur] = NULL]
      /\ arg' \in [Thread -> Client \cup {NULL}]
      /\ fd' \in [Thread -> Fd \cup {NULL}]
      /\ sands' \in [Thread -> -1..MaxDelay]
      /\ type' = [type EXCEPT ![cur] = "UNUSED"]
      /\ list' = [list EXCEPT !["UNUSED"] = Append(@, cur)]
  BY <1>1, UnuseType DEF CallReturn
<1>3. "UNUSED" \in ListType /\ list["UNUSED"] \in Seq(Thread) /\ NoDup(list["UNUSED"])
  BY DEF ListType, IInv, TypeOK, ListInv
<1>4. cur \notin Elems(list["UNUSED"]) BY <1>1, <1>3 DEF IInv, ListInv
<1> DEFINE a == Append(list["UNUSED"], cur)
<1>5. a \in Seq(Thread) /\ NoDup(a) /\ Elems(a) = Elems(list["UNUSED"]) \cup {cur}
  BY <1>1, <1>3, <1>4, AppendElems
<1>6. /\ list'["UNUSED"] = a /\ \A l \in ListType \ {"UNUSED"} : list'[l] = list[l]
      /\ list' \in [ListType -> Seq(Thread)]
  BY <1>1, <1>2, <1>3, <1>5 DEF TypeOK
<1> HIDE DEF a
<1>7. TypeOK' BY <1>1, <1>2, <1>3, <1>6 DEF TypeOK, PC
<1>8. ListInv'
  <2>1. ASSUME NEW l \in ListType
        PROVE  /\ NoDup(list'[l])
               /\ \A x \in Thread : x \in Elems(list'[l]) <=> (type'[x] = l /\ x # cur')
    <3>0. /\ NoDup(list[l])
          /\ \A x \in Thread : x \in Elems(list[l]) <=> (type[x] = l /\ x # cur)
      BY DEF IInv, ListInv
    <3>a. \A x \in Thread : x # cur'  BY <1>1, ConstAssumption
    <3>b. type'[cur] = "UNUSED" /\ \A x \in Thread : x # cur => type'[x] = type[x]
      BY <1>1, <1>2 DEF TypeOK
    <3>1. CASE l = "UNUSED"
      <4>1. NoDup(list'[l]) /\ Elems(list'[l]) = Elems(list[l]) \cup {cur}
        BY <3>1, <1>5, <1>6
      <4> QED BY <4>1, <3>0, <3>1, <3>a, <3>b
    <3>2. CASE l # "UNUSED"
      <4>1. list'[l] = list[l] BY <3>2, <1>6
      <4>2. type'[cur] # l /\ cur \notin Elems(list[l]) BY <3>0, <3>2, <3>b, <1>1
      <4> QED BY <4>1, <4>2, <3>0, <3>a, <3>b, <1>1
    <3> QED BY <3>1, <3>2
  <2> QED BY <2>1, <1>1 DEF ListInv
<1>9. \A d \in Client : handle[d] # NULL => handle[d] # cur
  BY <1>1 DEF IInv, HandleInv
<1>10. HandleInv'
  <2>1. ASSUME NEW d \in Client, handle'[d] # NULL
        PROVE  /\ type'[handle'[d]] \in Pending /\ arg'[handle'[d]] = d
               /\ handle'[d] = cur' => pc' = "call"
    <3>1. handle'[d] \in Thread /\ handle'[d] = handle[d] BY <2>1, <1>1 DEF TypeOK
    <3> QED BY <3>1, <2>1, <1>1, <1>2, <1>9, ConstAssumption DEF IInv, HandleInv, TypeOK
  <2>2. ASSUME NEW u \in Thread, type'[u] \in Pending, arg'[u] # NULL,
               u = cur' => pc' = "call"
        PROVE  handle'[arg'[u]] = u
    <3>1. u # cur BY <2>2, <1>1, <1>2, TypesDiffer DEF TypeOK
    <3> QED BY <3>1, <2>2, <1>1, <1>2 DEF IInv, HandleInv, TypeOK
  <2> QED BY <2>1, <2>2 DEF HandleInv
<1> QED BY <1>7, <1>8, <1>10 DEF IInv

\* Steps that leave the lists, the structs and the handles alone: the task
\* goes on to p, with n the new value of bquit.
LEMMA ControlStep ==
    ASSUME IInv,
           UNCHANGED <<list, type, add_type, arg, fd, fdset, alloc, cur, handle>>,
           sands' \in [Thread -> -1..MaxDelay], bquit' \in BOOLEAN,
           sel' \in [FdType -> SUBSET Fd], pc' \in PC,
           pc' \in {"call", "func", "cancelev"} <=> pc \in {"call", "func", "cancelev"},
           pc' = "call" <=> pc = "call"
    PROVE  IInv'
<1>1. TypeOK' BY DEF IInv, TypeOK
<1>2. ListInv' BY DEF IInv, ListInv
<1>3. HandleInv' BY DEF IInv, HandleInv
<1> QED BY <1>1, <1>2, <1>3 DEF IInv

\* Once the loop has ended every struct is on a list, and is freed.
LEMMA MasterFreeStep == ASSUME IInv, thread_master_free PROVE IInv'
<1>1. /\ pc = "exit" /\ pc' = "freed" /\ cur' = cur /\ cur = NULL
      /\ list' = [l \in ListType |-> <<>>]
      /\ type' = [t \in Thread |->
                    IF \E l \in ListType : t \in Elems(list[l]) THEN "FREE" ELSE type[t]]
      /\ handle' = [c \in Client |-> NULL]
      /\ fdset' = NoFds
      /\ UNCHANGED <<add_type, arg, fd, sands, bquit, sel>>
  BY DEF thread_master_free, IInv, ListInv
<1>2. \A t \in Thread : type'[t] = "FREE"
  <2> SUFFICES ASSUME NEW t \in Thread, type[t] # "FREE"
               PROVE  \E l \in ListType : t \in Elems(list[l])
    BY <1>1
  <2>1. type[t] \in ListType BY DEF IInv, TypeOK
  <2>2. t # cur BY <1>1, ConstAssumption
  <2> QED BY <2>1, <2>2 DEF IInv, ListInv
<1>3. "FREE" \notin ListType BY DEF ListType, Pending, FdType, TimerType
<1>4. ListType_OK'
  <2>1. <<>> \in Seq(Thread) OBVIOUS
  <2>2. type' \in [Thread -> ListType \cup {"FREE"}] BY <1>1 DEF IInv, TypeOK
  <2> QED BY <2>1, <2>2, <1>1 DEF ListType_OK
<1>5. TypeOK'
  <2>1. alloc' \in Int
    <3>1. /\ Len(list["READ"]) \in Int /\ Len(list["WRITE"]) \in Int
          /\ Len(list["TIMER"]) \in Int /\ Len(list["EVENT"]) \in Int
          /\ Len(list["READY"]) \in Int /\ Len(list["UNUSED"]) \in Int
          /\ Len(list["BACKGROUND"]) \in Int
      BY DEF IInv, TypeOK, ListType, Pending, FdType, TimerType
    <3>2. alloc \in Int BY DEF IInv, TypeOK
    <3> QED BY <3>1, <3>2 DEF thread_master_free
  <2>2. fdset' \in [FdType -> SUBSET Fd] BY <1>1 DEF NoFds
  <2>3. handle' \in [Client -> Thread \cup {NULL}] BY <1>1
  <2>4. pc' \in PC BY <1>1 DEF PC
  <2> QED BY <2>1, <2>2, <2>3, <2>4, <1>1, <1>4, TypeParts DEF IInv, TypeOK
<1>6. ListInv' BY <1>1, <1>2, <1>3, EmptyElems DEF ListInv
<1>7. HandleInv' BY <1>1, <1>2, TypesDiffer DEF HandleInv
<1> QED BY <1>5, <1>6, <1>7 DEF IInv

\* IInv holds when the master has been created.
LEMMA InitIInv == Init => IInv
<1> SUFFICES ASSUME Init PROVE IInv OBVIOUS
<1>1. "FREE" \notin ListType /\ "FREE" \notin Pending
  BY DEF ListType, Pending, FdType, TimerType
<1>2. TypeOK
  <2>1. list \in [ListType -> Seq(Thread)] BY DEF Init
  <2>2. sands \in [Thread -> -1..MaxDelay] BY ConstAssumption DEF Init
  <2>3. fdset \in [FdType -> SUBSET Fd] /\ sel \in [FdType -> SUBSET Fd]
    BY DEF Init, NoFds
  <2>4. /\ type \in [Thread -> ListType \cup {"FREE"}]
        /\ add_type \in [Thread -> Pending \cup {NULL}]
        /\ arg \in [Thread -> Client \cup {NULL}]
        /\ fd \in [Thread -> Fd \cup {NULL}]
        /\ handle \in [Client -> Thread \cup {NULL}]
    BY DEF Init
  <2>5. bquit \in BOOLEAN BY DEF Init
  <2>6. alloc \in Int /\ pc \in PC /\ cur \in Thread \cup {NULL} BY DEF Init, PC
  <2> QED BY <2>1, <2>2, <2>3, <2>4, <2>5, <2>6 DEF TypeOK
<1>3. ListInv BY <1>1, EmptyElems DEF Init, ListInv
<1>4. HandleInv BY <1>1 DEF Init, HandleInv
<1> QED BY <1>2, <1>3, <1>4 DEF IInv

\* Whatever user code does in the loop task keeps IInv.
LEMMA UserCodeStep == ASSUME IInv, UserCode PROVE IInv'
<1>1. ASSUME NEW c \in Client,
             UserAddReadWrite(c) \/ UserAddTimer(c) \/ UserAddEvent(c) \/ UserOff(c)
      PROVE  IInv'
  BY <1>1, UserAddReadWriteStep, UserAddTimerStep, UserAddEventStep, UserOffStep
<1>2. CASE UserAddReady
  BY <1>2, NoHandleStep DEF UserAddReady
<1>3. CASE UserCancelEvent
  <2>1. /\ UNCHANGED <<list, type, add_type, arg, fd, fdset, alloc, cur, handle, sands,
                       bquit, sel>>
        /\ pc = "func" /\ pc' = "cancelev"
    BY <1>3 DEF UserCancelEvent, schedVars
  <2> QED BY <2>1, ControlStep DEF IInv, TypeOK, PC, LockedPc
<1> QED BY <1>1, <1>2, <1>3 DEF UserCode

\* Whatever the loop task does by itself keeps IInv.
LEMMA LoopStepStep == ASSUME IInv, LoopStep PROVE IInv'
<1> DEFINE Kept == UNCHANGED <<list, type, add_type, arg, fd, fdset, alloc, cur, handle,
                               sands, sel>>
<1>0. /\ sands \in [Thread -> -1..MaxDelay] /\ bquit \in BOOLEAN
      /\ sel \in [FdType -> SUBSET Fd]
      /\ {"fetch", "exit", "func"} \subseteq PC
      /\ NoFds \in [FdType -> SUBSET Fd]
  BY DEF IInv, TypeOK, PC, NoFds
<1>1. CASE StartLoop
  <2>1. Kept /\ bquit' = bquit /\ pc = "init" /\ pc' = "fetch"
    BY <1>1 DEF StartLoop, schedVars
  <2> QED BY <2>1, <1>0, ControlStep
<1>2. CASE FetchReady
  BY <1>0, <1>2, TrimReadyStep DEF FetchReady, IInv, ListInv
<1>3. CASE FetchQuit
  <2>1. Kept /\ bquit' = FALSE /\ pc = "fetch" /\ pc' = "exit"
    BY <1>3 DEF FetchQuit, schedVars
  <2> QED BY <2>1, <1>0, ControlStep
<1>4. CASE FetchEvents BY <1>4, FetchEventsStep
<1>5. CASE ProcessTimers
  BY <1>5, TimerPopStep DEF ProcessTimers, TimerType, LockedPc
<1>6. CASE ProcessBackground
  BY <1>6, TimerPopStep DEF ProcessBackground, TimerType, LockedPc
<1>7. CASE ProcessReadFds
  BY <1>7, ProcessFdsStep DEF ProcessReadFds, FdType, LockedPc
<1>8. CASE ProcessWriteFds
  BY <1>8, ProcessFdsStep DEF ProcessWriteFds, FdType, LockedPc
<1>9. CASE FetchTrim
  <2>1. /\ pc = "trim" /\ sel' = NoFds /\ cur = NULL
        /\ UNCHANGED <<type, add_type, arg, fd, sands, fdset, alloc, bquit, handle>>
    BY <1>9 DEF FetchTrim, IInv, ListInv
  <2>2. CASE list["READY"] # <<>>
    <3>1. TrimReady BY <1>9, <2>2 DEF FetchTrim
    <3> QED BY <3>1, <2>1, <2>2, <1>0, TrimReadyStep
  <2>3. CASE list["READY"] = <<>>
    <3>1. pc' = "fetch" /\ UNCHANGED <<list, cur>> BY <1>9, <2>3 DEF FetchTrim
    <3> QED BY <3>1, <2>1, <1>0, ControlStep
  <2> QED BY <2>2, <2>3
<1>10. CASE CallEnter BY <1>10, CallEnterStep
<1>11. CASE LoopCheck
  <2>1. Kept /\ bquit' = FALSE /\ pc = "check" /\ pc' \in {"exit", "fetch"}
    BY <1>11 DEF LoopCheck, schedVars
  <2> QED BY <2>1, <1>0, ControlStep
<1>12. CASE CancelEventStep BY <1>12, CancelEventStepStep
<1>13. CASE CancelEventDone
  <2>1. Kept /\ bquit' = bquit /\ pc = "cancelev" /\ pc' = "func"
    BY <1>13 DEF CancelEventDone, schedVars
  <2> QED BY <2>1, <1>0, ControlStep
<1> QED BY <1>1, <1>2, <1>3, <1>4, <1>5, <1>6, <1>7, <1>8, <1>9, <1>10, <1>11, <1>12,
           <1>13 DEF LoopStep

\* Every step keeps IInv.
LEMMA NextIInv == IInv /\ [Next]_vars => IInv'
<1> SUFFICES ASSUME IInv, [Next]_vars PROVE IInv' OBVIOUS
<1>0. /\ sands \in [Thread -> -1..MaxDelay] /\ bquit \in BOOLEAN
      /\ sel \in [FdType -> SUBSET Fd] /\ pc \in PC
      /\ {"fetch", "exit", "timers"} \subseteq PC
      /\ NoFds \in [FdType -> SUBSET Fd]
  BY DEF IInv, TypeOK, PC, LockedPc, NoFds
<1>1. CASE UserCode BY <1>1, UserCodeStep
<1>2. CASE LoopStep BY <1>2, LoopStepStep
<1>3. CASE SelectIntr \/ SelectError \/ SelectReturn
  <2>1. /\ UNCHANGED <<list, type, add_type, arg, fd, fdset, alloc, cur, handle, sands,
                       bquit>>
        /\ pc = "select" /\ pc' \in {"fetch", "exit", "timers"}
    BY <1>3 DEF SelectIntr, SelectError, SelectReturn, schedVars
  <2>2. sel' \in [FdType -> SUBSET Fd]
    BY <1>3, <1>0 DEF SelectIntr, SelectError, SelectReturn
  <2> QED BY <2>1, <2>2, <1>0, ControlStep
<1>4. CASE CallReturn BY <1>4, CallReturnStep
<1>5. CASE thread_master_free BY <1>5, MasterFreeStep
<1>6. CASE Post BY <1>6, NoHandleStep DEF Post
<1>7. CASE thread_fetch_quit
  <2>1. /\ UNCHANGED <<list, type, add_type, arg, fd, fdset, alloc, cur, handle, sands,
                       sel, pc>>
        /\ bquit' = TRUE
    BY <1>7 DEF thread_fetch_quit, schedVars
  <2> QED BY <2>1, <1>0, ControlStep
<1>8. CASE Tick
  <2>1. /\ UNCHANGED <<list, type, add_type, arg, fd, fdset, alloc, cur, handle, bquit,
                       sel, pc>>
        /\ sands' = [t \in Thread |-> IF sands[t] > -1 THEN sands[t] - 1 ELSE -1]
    BY <1>8 DEF Tick
  <2>2. sands' \in [Thread -> -1..MaxDelay] BY <2>1, <1>0, ConstAssumption
  <2> QED BY <2>1, <2>2, <1>0, ControlStep
<1>9. CASE UNCHANGED vars
  BY <1>9, <1>0, ControlStep DEF vars
<1> QED BY <1>1, <1>2, <1>3, <1>4, <1>5, <1>6, <1>7, <1>8, <1>9 DEF Next

-----------------------------------------------------------------------------
(* The theorems *)

\* The inductive invariant holds throughout.
THEOREM SpecIInv == Spec => []IInv
BY InitIInv, NextIInv, PTL DEF Spec

\* Lists hold allocated structs and are looked up by the types the code uses;
\* an overdue timer is never more than overdue (thread.c, all operations).
THEOREM SpecTypeOK == Spec => []TypeOK
BY SpecIInv, PTL DEF IInv

\* A struct is on the list its type names, once, and on no other
\* (thread_get, thread_cancel, thread_process, thread_call).
THEOREM SpecListInv == Spec => []ListInv
BY SpecIInv, PTL DEF IInv

\* A handle that is not NULL names its client's scheduled thread, so
\* THREAD_OFF never cancels another client's thread (thread.h, thread_cancel).
THEOREM SpecHandleInv == Spec => []HandleInv
BY SpecIInv, PTL DEF IInv

\* The assertions of thread_add_unuse hold whenever a callback returns, as
\* long as only the loop task cancels threads.
THEOREM SpecUnuseAsserts == Spec => []UnuseAsserts
<1>1. IInv => UnuseAsserts
  <2> SUFFICES ASSUME IInv, pc = "func" PROVE ~Next_(cur) /\ ~Prev_(cur)
    BY DEF UnuseAsserts
  <2>1. cur \in Thread BY DEF IInv, TypeOK, ListInv
  <2>2. \A l \in ListType : cur \notin Elems(list[l]) BY <2>1 DEF IInv, ListInv
  <2> QED BY <2>2 DEF Next_, Prev_
<1> QED BY <1>1, SpecIInv, PTL
===============================================================================
