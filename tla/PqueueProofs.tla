------------------------------ MODULE PqueueProofs ------------------------------
(* Theorems about the heap of Pqueue, for every value of its constants. *)
EXTENDS Pqueue, WellFoundedInduction, TLAPS

\* PARENT_OF undoes LEFT_OF and RIGHT_OF, and nothing else maps there.
LEMMA ParentChild ==
    ASSUME NEW i \in Nat \ {0}
    PROVE  /\ PARENT_OF(i) \in Nat /\ PARENT_OF(i) < i
           /\ \A p \in Nat : PARENT_OF(i) = p <=> i = LEFT_OF(p) \/ i = RIGHT_OF(p)
BY SMT DEF PARENT_OF, LEFT_OF, RIGHT_OF

\* HAVE_CHILD tells whether the left child is in the heap.
LEMMA HaveChild ==
    ASSUME size \in Nat, NEW x \in Nat
    PROVE  HAVE_CHILD(x) <=> LEFT_OF(x) < size
BY SMT DEF HAVE_CHILD, LEFT_OF

-----------------------------------------------------------------------------
(* The inductive invariant *)

\* Between two operations every slot of the heap is filled.
LEMMA IdleSlots ==
    ASSUME IInv, mode = "idle"
    PROVE  hole = -1 /\ Slots = 0..(size - 1) /\ Filled = 0..(size - 1)
BY DEF IInv, TypeOK, ModeOK, Filled, Slots

\* Keys of queued nodes can be compared.
LEMMA KeyInt ==
    ASSUME IInv
    PROVE  /\ \A i \in Filled : key[array[i]] \in Int
           /\ hole \in Slots => key[tmp] \in Int
BY PqueueAssumption DEF IInv, SlotsOK

\* Between two operations the slots are in heap order.
LEMMA IdleOrder ==
    ASSUME IInv, mode = "idle", NEW i \in Filled \ {0}
    PROVE  /\ PARENT_OF(i) \in Filled /\ PARENT_OF(i) < i
           /\ key[array[PARENT_OF(i)]] <= key[array[i]]
<1>1. hole = -1 /\ Filled = 0..(size - 1) /\ size \in Nat BY IdleSlots DEF IInv, TypeOK
<1>2. i \in Nat \ {0} BY <1>1
<1>3. PARENT_OF(i) \in Nat /\ PARENT_OF(i) < i BY <1>2, ParentChild
<1>4. PARENT_OF(i) \in Filled /\ PARENT_OF(i) # hole BY <1>1, <1>2, <1>3
<1> QED BY <1>3, <1>4 DEF IInv, OrderOK

\* IInv holds of the queue pqueue_create returns.
LEMMA InitIInv == Init => IInv
<1> SUFFICES ASSUME Init PROVE IInv OBVIOUS
<1>1. Slots = {} /\ Filled = {} BY DEF Init, Slots, Filled
<1>2. TypeOK BY PqueueAssumption DEF Init, TypeOK
<1>3. ModeOK /\ SlotsOK /\ OrderOK BY <1>1 DEF Init, ModeOK, SlotsOK, OrderOK
<1> QED BY <1>2, <1>3 DEF IInv

\* pqueue_enqueue puts a node into a free slot of an array that is large enough.
LEMMA EnqueueStep ==
    ASSUME IInv, NEW n \in Node, NEW k \in Key, pqueue_enqueue(n, k)
    PROVE  IInv'
<1>1. mode = "idle" /\ hole = -1 /\ Filled = 0..(size - 1) /\ TypeOK
  BY IdleSlots DEF pqueue_enqueue, IInv
<1>2. mode' = "enqueue" /\ hole' = size /\ tmp' = n /\ size' = size /\ taken' = NULL
      /\ index' = [index EXCEPT ![n] = size] /\ key' = [key EXCEPT ![n] = k]
      /\ array_size' = pqueue_expand
  BY DEF pqueue_enqueue
<1>3. array_size' \in Nat /\ size + 1 < array_size' /\ array_size <= array_size'
  BY <1>1, <1>2 DEF TypeOK, pqueue_expand
<1>4. /\ array' \in [0..(array_size' - 1) -> Node \cup {NULL}]
      /\ \A i \in Filled : array'[i] = array[i]
  <2>1. array' = [i \in 0..(array_size' - 1) |->
                   CASE i = size -> n
                     [] i # size /\ i < array_size -> array[i]
                     [] OTHER -> NULL]
    BY <1>2 DEF pqueue_enqueue
  <2>2. \A i \in 0..(array_size' - 1) :
           i < array_size => array[i] \in Node \cup {NULL}
    BY <1>1, <1>3 DEF TypeOK
  <2> QED BY <2>1, <2>2, <1>1, <1>3 DEF TypeOK
<1>5. Slots' = 0..size /\ Filled' = Filled
  BY <1>1, <1>2 DEF Slots, Filled, TypeOK
<1>6. n \notin {array[i] : i \in Filled}
  BY <1>1 DEF pqueue_enqueue, Content, Filled
<1>7. TypeOK' BY <1>1, <1>2, <1>3, <1>4 DEF TypeOK
<1>8. ModeOK' BY <1>1, <1>2, <1>3 DEF ModeOK, TypeOK
<1>9. SlotsOK' BY <1>1, <1>2, <1>4, <1>5, <1>6 DEF SlotsOK, IInv, TypeOK
<1>10. OrderOK'
  <2> SUFFICES ASSUME NEW i \in Filled \ {0}
               PROVE  /\ PARENT_OF(i) # hole'
                      /\ key'[array'[PARENT_OF(i)]] <= key'[array'[i]]
    BY <1>2, <1>5 DEF OrderOK
  <2>1. PARENT_OF(i) \in Filled /\ PARENT_OF(i) # size /\ PARENT_OF(i) # hole
    BY <1>1, ParentChild DEF TypeOK
  <2>2. key[array[PARENT_OF(i)]] <= key[array[i]] BY <2>1 DEF IInv, OrderOK
  <2>3. key'[array[PARENT_OF(i)]] = key[array[PARENT_OF(i)]] /\ key'[array[i]] = key[array[i]]
    BY <2>1, <1>1, <1>2, <1>6 DEF IInv, SlotsOK, TypeOK
  <2> QED BY <2>1, <2>2, <2>3, <1>2, <1>4
<1> QED BY <1>7, <1>8, <1>9, <1>10 DEF IInv

\* pqueue_dequeue and pqueue_remove_at: the last node is to fill the gap at h.
LEMMA FillGapStep ==
    ASSUME IInv, mode = "idle", NEW h \in 0..(size - 1), FillGap(h, array[h]),
           mode' = IF h > 0 /\ key[array[size - 1]] < key[array[PARENT_OF(h)]]
                   THEN "up" ELSE "down",
           taken' \in Node \cup {NULL}
    PROVE  IInv'
<1> DEFINE n == array[h]
           x == array[size - 1]
<1>1. hole = -1 /\ Filled = 0..(size - 1) /\ TypeOK /\ size - 1 \in Nat
  BY IdleSlots DEF IInv, TypeOK
<1>2. /\ array' = [array EXCEPT ![h] = x, ![size - 1] = NULL]
      /\ hole' = h /\ tmp' = x /\ size' = size - 1
      /\ index' = [index EXCEPT ![n] = 0] /\ key' = [key EXCEPT ![n] = NULL]
      /\ array_size' = array_size
  BY DEF FillGap
<1>3. /\ n \in Node /\ x \in Node
      /\ \A i \in Filled : array[i] \in Node /\ index[array[i]] = i /\ key[array[i]] \in Key
      /\ \A i, j \in Filled : array[i] = array[j] => i = j
  BY <1>1 DEF IInv, SlotsOK
<1>4. \A i \in Filled : key[array[i]] \in Int BY KeyInt
<1>5. \A i \in Filled \ {0} : /\ PARENT_OF(i) \in Filled /\ PARENT_OF(i) < i
                              /\ key[array[PARENT_OF(i)]] <= key[array[i]]
  BY IdleOrder
<1>6. Slots' = 0..(size - 2) /\ Filled' = 0..(size - 2) \ {h}
  BY <1>1, <1>2 DEF Slots, Filled, TypeOK
<1>7. \A i \in Filled' : /\ i \in Filled /\ array'[i] = array[i] /\ array[i] # n /\ array[i] # x
                         /\ key'[array[i]] = key[array[i]] /\ index'[array[i]] = index[array[i]]
  BY <1>1, <1>2, <1>3, <1>6 DEF TypeOK
<1>8. h < size - 1 => x # n /\ key'[x] = key[x] BY <1>1, <1>2, <1>3 DEF TypeOK
<1>9. mode' = "up" => h < size - 1
  <2> SUFFICES ASSUME mode' = "up", h = size - 1 PROVE FALSE BY <1>1 DEF TypeOK
  <2>1. h > 0 /\ key[x] < key[array[PARENT_OF(h)]] OBVIOUS
  <2>2. h \in Filled \ {0} BY <2>1, <1>1
  <2>3. PARENT_OF(h) \in Filled /\ key[array[PARENT_OF(h)]] <= key[array[h]]
    BY <2>2, <1>5
  <2>4. x = array[h] /\ key[array[h]] \in Int /\ key[array[PARENT_OF(h)]] \in Int
    BY <2>2, <2>3, <1>4
  <2> HIDE DEF x
  <2> QED BY <2>1, <2>3, <2>4
<1>10. TypeOK'
  <2>1. array' \in [0..(array_size - 1) -> Node \cup {NULL}]
    BY <1>1, <1>2, <1>3 DEF TypeOK
  <2>2. index' \in [Node -> Nat] /\ key' \in [Node -> Key \cup {NULL}]
    BY <1>1, <1>2, <1>3 DEF TypeOK
  <2>3. array_size' \in Nat /\ size' \in Nat /\ size' < array_size'
    BY <1>1, <1>2 DEF TypeOK
  <2>4. hole' \in -1..(array_size' - 1) /\ tmp' \in Node \cup {NULL}
    BY <1>1, <1>2, <1>3 DEF TypeOK
  <2>5. mode' \in {"idle", "enqueue", "up", "down"} OBVIOUS
  <2>6. array_size' = array_size BY <1>2
  <2> QED BY <2>1, <2>2, <2>3, <2>4, <2>5, <2>6 DEF TypeOK
<1> HIDE DEF n, x
<1>11. ModeOK' BY <1>1, <1>2, <1>3, <1>9 DEF ModeOK, TypeOK
<1>12. SlotsOK'
  <2>1. h \in Slots' => key'[x] \in Key
    BY <1>1, <1>3, <1>6, <1>8 DEF x, TypeOK
  <2>2. ASSUME NEW i \in Filled'
        PROVE  /\ array'[i] \in Node /\ key'[array'[i]] \in Key
               /\ index'[array'[i]] = i /\ array'[i] # tmp'
    <3>1. i \in Filled /\ array'[i] = array[i] /\ array[i] # x BY <1>7
    <3>2. key'[array[i]] = key[array[i]] /\ index'[array[i]] = index[array[i]] BY <1>7
    <3> QED BY <3>1, <3>2, <1>2, <1>3
  <2>3. hole' \in Slots' => key'[tmp'] \in Key BY <2>1, <1>2
  <2> QED BY <2>2, <2>3 DEF SlotsOK
<1>13. OrderOK'
  <2>1. ASSUME NEW i \in Filled' \ {0}, PARENT_OF(i) # h
        PROVE  key'[array'[PARENT_OF(i)]] <= key'[array'[i]]
    <3>1. i \in Filled \ {0} /\ PARENT_OF(i) \in Filled /\ PARENT_OF(i) < i
      BY <1>5, <1>7
    <3>2. PARENT_OF(i) \in Filled' BY <3>1, <2>1, <1>1, <1>6 DEF TypeOK
    <3> QED BY <3>1, <3>2, <1>5, <1>7
  <2>2. ASSUME NEW i \in Filled' \ {0}, PARENT_OF(i) = h
        PROVE  key[array[h]] <= key[array[i]]
    BY <2>2, <1>5, <1>7
  <2>3. ASSUME h > 0
        PROVE  /\ h \in Filled \ {0} /\ PARENT_OF(h) \in Filled /\ PARENT_OF(h) < h
               /\ PARENT_OF(h) \in Filled'
               /\ key[array[PARENT_OF(h)]] <= key[array[h]]
               /\ key'[array'[PARENT_OF(h)]] = key[array[PARENT_OF(h)]]
    <3>1. h \in Filled \ {0} BY <2>3, <1>1
    <3>2. PARENT_OF(h) \in Filled /\ PARENT_OF(h) < h
          /\ key[array[PARENT_OF(h)]] <= key[array[h]]
      BY <3>1, <1>5
    <3>3. PARENT_OF(h) \in Filled' BY <3>1, <3>2, <1>1, <1>6 DEF TypeOK
    <3> QED BY <3>1, <3>2, <3>3, <1>7
  <2>4. ASSUME NEW i \in Filled' \ {0}, PARENT_OF(i) = h, h > 0
        PROVE  key'[array'[PARENT_OF(h)]] <= key'[array'[i]]
    <3>1. i \in Filled /\ key'[array'[i]] = key[array[i]] BY <1>7
    <3> QED BY <3>1, <2>4, <2>2, <2>3, <1>4
  <2>5. ASSUME NEW i \in Filled' \ {0}, PARENT_OF(i) = h, mode' # "down"
        PROVE  key'[x] <= key'[array'[i]]
    <3>1. h > 0 /\ key[x] < key[array[PARENT_OF(h)]] BY <2>5 DEF x
    <3>2. key'[x] = key[x] /\ key[x] \in Int
      BY <2>5, <1>8, <1>9, <1>1, <1>4 DEF x
    <3>3. i \in Filled /\ key'[array'[i]] = key[array[i]] BY <1>7
    <3> QED BY <3>1, <3>2, <3>3, <2>5, <2>2, <2>3, <1>4
  <2>6. ASSUME mode' = "down", h > 0, h \in Slots'
        PROVE  key'[array'[PARENT_OF(h)]] <= key'[x]
    <3>1. ~(key[x] < key[array[PARENT_OF(h)]]) BY <2>6 DEF x
    <3>2. key'[x] = key[x] /\ key[x] \in Int
      BY <2>6, <1>8, <1>6, <1>1, <1>4 DEF x, TypeOK
    <3> QED BY <3>1, <3>2, <2>6, <2>3, <1>4
  <2> QED BY <2>1, <2>4, <2>5, <2>6, <1>2 DEF OrderOK
<1> QED BY <1>10, <1>11, <1>12, <1>13 DEF IInv

\* The node at m, a neighbour of the hole, moves there: all but the order.
LEMMA MoveToSlots ==
    ASSUME IInv, mode # "idle", hole \in Slots, NEW m \in Filled, MoveTo(m),
           mode = "up" => m < size
    PROVE  /\ TypeOK' /\ ModeOK' /\ SlotsOK'
           /\ Slots' = Slots /\ hole' = m /\ tmp' = tmp /\ mode' = mode
           /\ Filled' = (Filled \ {m}) \cup {hole}
           /\ array'[hole] = array[m]
           /\ \A i \in Filled : array'[i] = array[i]
           /\ key' = key
<1>1. /\ array' = [array EXCEPT ![hole] = array[m]]
      /\ index' = [index EXCEPT ![array[m]] = hole]
      /\ hole' = m
      /\ UNCHANGED <<array_size, size, key, taken, mode, tmp>>
  BY DEF MoveTo
<1>2. Slots' = Slots /\ Filled = Slots \ {hole} /\ Filled' = Slots \ {m}
  BY <1>1 DEF Slots, Filled
<1>3. Slots \subseteq 0..(array_size - 1)
  BY DEF IInv, TypeOK, ModeOK, Slots
<1>4. /\ array[m] \in Node /\ index[array[m]] = m /\ key[array[m]] \in Key
      /\ \A i \in Filled : array[i] = array[m] => i = m
  BY DEF IInv, SlotsOK
<1>5. array'[hole] = array[m] /\ \A i \in Filled : array'[i] = array[i]
  BY <1>1, <1>2, <1>3 DEF IInv, TypeOK
<1>6. TypeOK'
  <2>1. hole \in Nat /\ m \in 0..(array_size - 1) BY <1>2, <1>3
  <2> QED BY <1>1, <1>4, <2>1 DEF IInv, TypeOK
<1>7. ModeOK'
  <2>1. m \in 0..size BY <1>2 DEF Slots, IInv, TypeOK
  <2> QED BY <1>1, <2>1 DEF IInv, ModeOK
<1>8. SlotsOK'
  <2>1. ASSUME NEW i \in Filled'
        PROVE  /\ array'[i] \in Node /\ key'[array'[i]] \in Key
               /\ index'[array'[i]] = i /\ array'[i] # tmp'
    <3>1. CASE i = hole
      BY <3>1, <1>1, <1>4, <1>5 DEF IInv, SlotsOK, TypeOK
    <3>2. CASE i # hole
      <4>1. i \in Filled /\ i # m BY <3>2, <1>2
      <4>2. array'[i] = array[i] /\ array[i] # array[m] BY <4>1, <1>4, <1>5
      <4> QED BY <4>1, <4>2, <1>1, <1>4 DEF IInv, SlotsOK, TypeOK
    <3> QED BY <3>1, <3>2
  <2>2. key'[tmp'] \in Key BY <1>1 DEF IInv, SlotsOK
  <2> QED BY <2>1, <2>2 DEF SlotsOK
<1> QED BY <1>1, <1>2, <1>5, <1>6, <1>7, <1>8

\* The parent moves down into the hole.
LEMMA TrickleUpMove ==
    ASSUME IInv, mode \in {"enqueue", "up"},
           hole > 0, key[tmp] < key[array[PARENT_OF(hole)]], MoveTo(PARENT_OF(hole))
    PROVE  IInv'
<1> DEFINE p == PARENT_OF(hole)
<1>1. hole \in Slots /\ hole \in Nat \ {0} /\ size \in Nat
  BY DEF IInv, ModeOK, TypeOK, Slots
<1>2. p \in Nat /\ p < hole BY <1>1, ParentChild
<1>3. p \in Filled /\ (mode = "up" => p < size) BY <1>1, <1>2 DEF Filled, Slots, IInv, ModeOK
<1>a. MoveTo(p) /\ key[tmp] < key[array[p]] OBVIOUS
<1>b. Filled \subseteq Nat BY <1>1 DEF Filled, Slots
<1> HIDE DEF p
<1>4. /\ TypeOK' /\ ModeOK' /\ SlotsOK'
      /\ Slots' = Slots /\ hole' = p /\ tmp' = tmp /\ mode' = mode
      /\ Filled' = (Filled \ {p}) \cup {hole}
      /\ array'[hole] = array[p]
      /\ \A i \in Filled : array'[i] = array[i]
      /\ key' = key
  BY <1>1, <1>3, <1>a, MoveToSlots
<1>5. /\ \A i \in Filled : key[array[i]] \in Int
      /\ key[tmp] \in Int
  BY <1>1, KeyInt
<1>6. \A i \in Filled \ {0} : PARENT_OF(i) \in Nat /\ PARENT_OF(i) < i
  BY <1>b, ParentChild
<1>7. ASSUME p > 0
      PROVE  /\ PARENT_OF(p) \in Filled /\ PARENT_OF(p) # hole /\ PARENT_OF(p) # p
             /\ key[array[PARENT_OF(p)]] <= key[array[p]]
  <2>1. PARENT_OF(p) \in Nat /\ PARENT_OF(p) < p BY <1>7, <1>3, <1>6
  <2>2. PARENT_OF(p) \in Filled BY <2>1, <1>1, <1>2 DEF Filled, Slots
  <2> QED BY <2>1, <2>2, <1>2, <1>3, <1>7, <1>1 DEF IInv, OrderOK
<1>8. ASSUME NEW i \in Filled' \ {0}
      PROVE  /\ PARENT_OF(i) # p => key[array'[PARENT_OF(i)]] <= key[array'[i]]
             /\ PARENT_OF(i) = p /\ p > 0 => key[array'[PARENT_OF(p)]] <= key[array'[i]]
             /\ PARENT_OF(i) = p => key[tmp] <= key[array'[i]]
  <2>1. CASE i = hole
    <3>1. PARENT_OF(i) = p /\ array'[i] = array[p] BY <2>1, <1>4 DEF p
    <3> QED BY <3>1, <1>3, <1>4, <1>5, <1>7, <1>a
  <2>2. CASE i # hole
    <3>1. i \in Filled \ {0} /\ i # p /\ array'[i] = array[i] BY <2>2, <1>4
    <3>2. PARENT_OF(i) \in Nat /\ PARENT_OF(i) < i BY <3>1, <1>6
    <3>3. CASE PARENT_OF(i) = hole
      <4>1. key[array[p]] <= key[array[i]] BY <3>1, <3>3, <1>1 DEF IInv, OrderOK, p
      <4> QED BY <4>1, <3>1, <3>3, <1>2, <1>4
    <3>4. CASE PARENT_OF(i) = p
      <4>1. key[array[p]] <= key[array[i]] BY <3>1, <3>4, <1>1, <1>2 DEF IInv, OrderOK
      <4> QED BY <4>1, <3>1, <3>4, <1>3, <1>4, <1>5, <1>7, <1>a
    <3>5. CASE PARENT_OF(i) # hole /\ PARENT_OF(i) # p
      <4>1. key[array[PARENT_OF(i)]] <= key[array[i]] BY <3>1, <3>5 DEF IInv, OrderOK
      <4>2. PARENT_OF(i) \in Filled BY <3>1, <3>2, <3>5, <1>1 DEF Filled, Slots
      <4> QED BY <4>1, <4>2, <3>1, <3>5, <1>4
    <3> QED BY <3>3, <3>4, <3>5
  <2> QED BY <2>1, <2>2
<1>9. mode # "down" OBVIOUS
<1>10. OrderOK' BY <1>4, <1>8, <1>9 DEF OrderOK
<1> QED BY <1>4, <1>10 DEF IInv

\* Which is the child with the lesser key.
LEMMA WhichChild ==
    ASSUME IInv, mode = "down", hole \in Nat, HAVE_CHILD(hole)
    PROVE  /\ hole \in Slots /\ Which \in Filled \ {0}
           /\ hole < Which /\ PARENT_OF(Which) = hole
           /\ \A i \in Filled \ {0} :
                 PARENT_OF(i) = hole => key[array[Which]] <= key[array[i]]
<1>1. size \in Nat /\ Slots = 0..(size - 1) BY DEF IInv, TypeOK, Slots
<1>2. LEFT_OF(hole) < size BY <1>1, HaveChild
<1>3. /\ LEFT_OF(hole) \in Nat \ {0} /\ RIGHT_OF(hole) \in Nat \ {0}
      /\ hole < LEFT_OF(hole) /\ hole < RIGHT_OF(hole)
  BY DEF LEFT_OF, RIGHT_OF
<1>4. PARENT_OF(LEFT_OF(hole)) = hole /\ PARENT_OF(RIGHT_OF(hole)) = hole
  BY <1>3, ParentChild
<1>5. hole \in Slots /\ LEFT_OF(hole) \in Filled BY <1>1, <1>2, <1>3 DEF Filled
<1>6. RIGHT_OF(hole) < size => RIGHT_OF(hole) \in Filled BY <1>1, <1>3 DEF Filled
<1>7. \A i \in Filled : key[array[i]] \in Int BY KeyInt
<1>8. Which \in Filled \ {0} /\ hole < Which /\ PARENT_OF(Which) = hole
  BY <1>3, <1>4, <1>5, <1>6 DEF Which
<1>9. ASSUME NEW i \in Filled \ {0}, PARENT_OF(i) = hole
      PROVE  key[array[Which]] <= key[array[i]]
  <2>1. i \in Nat \ {0} /\ i < size BY <1>1 DEF Filled
  <2>2. i = LEFT_OF(hole) \/ i = RIGHT_OF(hole) BY <2>1, <1>9, ParentChild
  <2>3. /\ key[array[LEFT_OF(hole)]] \in Int
        /\ RIGHT_OF(hole) < size => key[array[RIGHT_OF(hole)]] \in Int
    BY <1>5, <1>6, <1>7
  <2>4. CASE RIGHT_OF(hole) < size /\ key[array[LEFT_OF(hole)]] > key[array[RIGHT_OF(hole)]]
    <3>1. Which = RIGHT_OF(hole) BY <2>4 DEF Which
    <3> QED BY <3>1, <2>2, <2>3, <2>4
  <2>5. CASE ~(RIGHT_OF(hole) < size /\ key[array[LEFT_OF(hole)]] > key[array[RIGHT_OF(hole)]])
    <3>1. Which = LEFT_OF(hole) BY <2>5 DEF Which
    <3> QED BY <3>1, <2>1, <2>2, <2>3, <2>5
  <2> QED BY <2>4, <2>5
<1> QED BY <1>5, <1>8, <1>9

\* The child with the lesser key moves up into the hole.
LEMMA TrickleDownMove ==
    ASSUME IInv, mode = "down", HAVE_CHILD(hole), key[array[Which]] <= key[tmp],
           MoveTo(Which)
    PROVE  IInv'
<1> DEFINE w == Which
<1>1. hole \in Nat /\ size \in Nat /\ Slots = 0..(size - 1)
  BY DEF IInv, ModeOK, TypeOK, Slots
<1>2. /\ hole \in Slots /\ w \in Filled \ {0}
      /\ hole < w /\ PARENT_OF(w) = hole
      /\ \A i \in Filled \ {0} : PARENT_OF(i) = hole => key[array[w]] <= key[array[i]]
  BY <1>1, WhichChild
<1>a. MoveTo(w) /\ key[array[w]] <= key[tmp] OBVIOUS
<1>b. Filled \subseteq Nat BY <1>1 DEF Filled
<1> HIDE DEF w
<1>4. /\ TypeOK' /\ ModeOK' /\ SlotsOK'
      /\ Slots' = Slots /\ hole' = w /\ tmp' = tmp /\ mode' = mode
      /\ Filled' = (Filled \ {w}) \cup {hole}
      /\ array'[hole] = array[w]
      /\ \A i \in Filled : array'[i] = array[i]
      /\ key' = key
  BY <1>2, <1>a, MoveToSlots
<1>6. \A i \in Filled \ {0} : PARENT_OF(i) \in Nat /\ PARENT_OF(i) < i
  BY <1>b, ParentChild
<1>8. ASSUME NEW i \in Filled' \ {0}
      PROVE  /\ PARENT_OF(i) # w => key[array'[PARENT_OF(i)]] <= key[array'[i]]
             /\ PARENT_OF(i) = w => key[array'[PARENT_OF(w)]] <= key[array'[i]]
  <2>1. CASE i = hole
    <3>1. hole \in Nat \ {0} BY <2>1, <1>1
    <3>2. PARENT_OF(i) \in Nat /\ PARENT_OF(i) < i BY <3>1, <2>1, ParentChild
    <3>3. PARENT_OF(i) \in Filled /\ PARENT_OF(i) # w
      BY <3>2, <2>1, <1>1, <1>2 DEF Filled
    <3>4. key[array[PARENT_OF(hole)]] <= key[array[w]]
      BY <1>2, <3>1 DEF IInv, OrderOK
    <3> QED BY <3>3, <3>4, <2>1, <1>4
  <2>2. CASE i # hole
    <3>1. i \in Filled \ {0} /\ i # w /\ array'[i] = array[i] BY <2>2, <1>4
    <3>2. PARENT_OF(i) \in Nat /\ PARENT_OF(i) < i BY <3>1, <1>6
    <3>3. CASE PARENT_OF(i) = hole BY <3>1, <3>3, <1>2, <1>4
    <3>4. CASE PARENT_OF(i) = w
      <4>1. key[array[w]] <= key[array[i]] BY <3>1, <3>4, <1>1, <1>2 DEF IInv, OrderOK
      <4> QED BY <4>1, <3>1, <3>4, <1>2, <1>4
    <3>5. CASE PARENT_OF(i) # hole /\ PARENT_OF(i) # w
      <4>1. key[array[PARENT_OF(i)]] <= key[array[i]] BY <3>1, <3>5 DEF IInv, OrderOK
      <4>2. PARENT_OF(i) \in Filled BY <3>1, <3>2, <3>5, <1>1 DEF Filled
      <4> QED BY <4>1, <4>2, <3>1, <3>5, <1>4
    <3> QED BY <3>3, <3>4, <3>5
  <2> QED BY <2>1, <2>2
<1>9. key[array'[PARENT_OF(w)]] <= key[tmp] BY <1>2, <1>4, <1>a
<1>10. OrderOK' BY <1>4, <1>8, <1>9 DEF OrderOK
<1> QED BY <1>4, <1>10 DEF IInv

\* tmp is put where it belongs and the operation ends.
LEMMA RestoreStep ==
    ASSUME IInv, mode # "idle", Restore,
           mode # "down" => ~(hole > 0 /\ key[tmp] < key[array[PARENT_OF(hole)]]),
           mode = "down" => ~(HAVE_CHILD(hole) /\ key[array[Which]] <= key[tmp])
    PROVE  IInv' /\ Content' = Content
<1>1. /\ mode' = "idle" /\ hole' = -1 /\ tmp' = NULL
      /\ size' = IF mode = "enqueue" THEN size + 1 ELSE size
      /\ UNCHANGED <<array_size, key, taken>>
  BY DEF Restore
<1>2. /\ TypeOK /\ size \in Nat /\ hole \in Nat /\ tmp \in Node /\ hole <= size
      /\ array_size \in Nat /\ size < array_size
  BY DEF IInv, TypeOK, ModeOK
<1>3. Slots' = Slots /\ Filled' = Slots /\ Filled = Slots \ {hole}
      /\ Slots \subseteq Nat /\ hole' \notin Slots'
  BY <1>1, <1>2 DEF Slots, Filled
<1>4. \A i \in Filled : array[i] \in Node /\ key[array[i]] \in Key /\ index[array[i]] = i
                        /\ array[i] # tmp
  BY DEF IInv, SlotsOK
<1>5. ModeOK' BY <1>1 DEF ModeOK
<1>6. array_size' \in Nat /\ size' \in Nat /\ size' < array_size' 
  BY <1>1, <1>2 DEF IInv, ModeOK
<1>7. CASE hole \notin Slots
  <2>1. array' = array /\ index' = index BY <1>7 DEF Restore
  <2>2. Filled = Slots BY <1>3, <1>7
  <2>3. mode = "down" /\ hole = size BY <1>2, <1>7 DEF Slots, IInv, ModeOK, TypeOK
  <2>4. TypeOK' BY <1>1, <1>2, <1>6, <2>1 DEF TypeOK
  <2>5. SlotsOK' 
    BY <2>1, <2>2, <1>1, <1>2, <1>3, <1>4, PqueueAssumption DEF SlotsOK
  <2>6. \A i \in Filled \ {0} : key[array[PARENT_OF(i)]] <= key[array[i]]
    <3> TAKE i \in Filled \ {0}
    <3>1. i \in Nat \ {0} /\ i < size BY <2>2, <2>3, <1>2 DEF Slots
    <3>2. PARENT_OF(i) # hole BY <3>1, <2>3, <1>2, ParentChild
    <3> QED BY <3>2 DEF IInv, OrderOK
  <2>7. \A i \in Filled \ {0} : PARENT_OF(i) # -1
    BY <2>2, <1>3, ParentChild
  <2>8. OrderOK' BY <2>1, <2>2, <2>6, <2>7, <1>1, <1>3 DEF OrderOK
  <2>9. Content' = Content
    BY <2>1, <2>2, <1>1, <1>3, <1>7 DEF Content, Filled
  <2> QED BY <2>4, <2>5, <2>8, <2>9, <1>5 DEF IInv
<1>8. CASE hole \in Slots
  <2>1. array' = [array EXCEPT ![hole] = tmp] /\ index' = [index EXCEPT ![tmp] = hole]
    BY <1>8 DEF Restore
  <2>2. Slots \subseteq 0..(array_size - 1)
    BY DEF IInv, TypeOK, ModeOK, Slots
  <2>3. array'[hole] = tmp /\ \A i \in Filled : array'[i] = array[i]
    BY <2>1, <2>2, <1>2, <1>3, <1>8 DEF TypeOK
  <2>4. TypeOK'
    <3>1. array' \in [0..(array_size - 1) -> Node \cup {NULL}] /\ index' \in [Node -> Nat]
      BY <2>1, <1>2 DEF TypeOK
    <3> QED BY <3>1, <1>1, <1>2, <1>6 DEF TypeOK
  <2>5. key[tmp] \in Key BY <1>8 DEF IInv, SlotsOK
  <2>6. SlotsOK'
    <3> SUFFICES ASSUME NEW i \in Slots
                 PROVE  /\ array'[i] \in Node /\ key[array'[i]] \in Key
                        /\ index'[array'[i]] = i /\ array'[i] # NULL
      BY <1>1, <1>3, <2>5 DEF SlotsOK
    <3>1. CASE i = hole
      BY <3>1, <2>1, <2>3, <2>5, <1>2, PqueueAssumption DEF TypeOK
    <3>2. CASE i # hole
      <4>1. i \in Filled BY <3>2, <1>3
      <4> QED BY <4>1, <2>1, <2>3, <1>2, <1>4, PqueueAssumption DEF TypeOK
    <3> QED BY <3>1, <3>2
  <2>7. key[tmp] \in Int /\ \A i \in Filled : key[array[i]] \in Int
    BY <1>8, KeyInt
  <2>8. ASSUME NEW i \in Slots \ {0}
        PROVE  PARENT_OF(i) # -1 /\ key[array'[PARENT_OF(i)]] <= key[array'[i]]
    <3>1. PARENT_OF(i) \in Nat /\ PARENT_OF(i) < i BY <1>3, ParentChild
    <3>2. PARENT_OF(i) \in Slots BY <3>1, <1>2 DEF Slots
    <3>3. CASE i = hole
      <4>0. PARENT_OF(hole) = PARENT_OF(i) BY <3>3
      <4>1. PARENT_OF(hole) \in Filled /\ hole > 0
        <5>1. hole \in Nat /\ PARENT_OF(hole) \in Nat /\ PARENT_OF(hole) < hole
          BY <4>0, <3>1, <3>3, <1>2
        <5>2. PARENT_OF(hole) \in Slots /\ PARENT_OF(hole) # hole
          BY <5>1, <4>0, <3>2
        <5>3. PARENT_OF(hole) \in Filled BY <5>2, <1>3
        <5> QED BY <5>1, <5>3
      <4>2. mode = "down" => key[array[PARENT_OF(hole)]] <= key[tmp]
        BY <4>1, <1>8 DEF IInv, OrderOK
      <4>3. mode # "down" => key[array[PARENT_OF(hole)]] <= key[tmp]
        BY <4>1, <2>7
      <4> QED BY <4>1, <4>2, <4>3, <2>3, <3>1, <3>3
    <3>4. CASE PARENT_OF(i) = hole
      <4>1. i \in Filled \ {0} BY <3>1, <3>4, <1>3
      <4>2. mode # "down" => key[tmp] <= key[array[i]]
        BY <4>1, <3>4 DEF IInv, OrderOK
      <4>3. ASSUME mode = "down" PROVE key[tmp] <= key[array[i]]
        <5>1. i < size BY <4>3, <1>2 DEF Slots
        <5>2. i = LEFT_OF(hole) \/ i = RIGHT_OF(hole) BY <3>4, <1>2, <1>3, ParentChild
        <5>3. LEFT_OF(hole) < size BY <5>1, <5>2, <1>2 DEF LEFT_OF, RIGHT_OF
        <5>4. HAVE_CHILD(hole) BY <5>3, <1>2, HaveChild
        <5>5. Which \in Filled /\ key[array[Which]] <= key[array[i]]
          BY <5>4, <4>1, <4>3, <3>4, <1>2, WhichChild
        <5>6. ~(key[array[Which]] <= key[tmp]) BY <5>4, <4>3
        <5> QED BY <5>5, <5>6, <4>1, <2>7
      <4> QED BY <4>1, <4>2, <4>3, <2>3, <3>1, <3>4
    <3>5. CASE i # hole /\ PARENT_OF(i) # hole
      <4>1. i \in Filled \ {0} /\ PARENT_OF(i) \in Filled BY <3>2, <3>5, <1>3
      <4>2. key[array[PARENT_OF(i)]] <= key[array[i]] BY <4>1, <3>5 DEF IInv, OrderOK
      <4> QED BY <4>1, <4>2, <2>3, <3>1
    <3> QED BY <3>3, <3>4, <3>5
  <2>9. OrderOK' BY <2>8, <1>1, <1>3 DEF OrderOK
  <2>10. Content' = Content
    <3>0. Slots' \ {hole'} = Slots BY <1>3 DEF Filled
    <3>1. Content' = {array'[i] : i \in Slots} BY <3>0, <1>3 DEF Content
    <3>2. Content = {array[i] : i \in Filled} \cup {tmp} BY <1>8 DEF Content, Filled
    <3> QED BY <3>1, <3>2, <2>3, <1>3, <1>8
  <2> QED BY <2>4, <2>6, <2>9, <2>10, <1>5 DEF IInv
<1> QED BY <1>7, <1>8

-----------------------------------------------------------------------------
(* The steps, one lemma per operation: the invariant and the content *)

\* In a heap the root has the least key, by the least slot that says otherwise.
LEMMA RootIsMin ==
    ASSUME IInv, mode = "idle", NEW j \in Filled
    PROVE  key[array[0]] <= key[array[j]]
<1> DEFINE T == {i \in Filled : ~(key[array[0]] <= key[array[i]])}
<1>1. Filled = 0..(size - 1) /\ size \in Nat BY IdleSlots DEF IInv, TypeOK
<1>2. \A i \in Filled : key[array[i]] \in Int BY KeyInt
<1>3. 0 \in Filled BY <1>1
<1> SUFFICES ASSUME T # {} PROVE FALSE OBVIOUS
<1>4. T \subseteq Nat BY <1>1
<1>5. PICK x \in T : \A y \in T : ~(<<y, x>> \in OpToRel(<, Nat))
  <2> HIDE DEF T
  <2> QED BY <1>4, NatLessThanWellFounded, WFMin
<1>6. x \in Filled \ {0} BY <1>2, <1>3
<1>7. /\ PARENT_OF(x) \in Filled /\ PARENT_OF(x) < x
      /\ key[array[PARENT_OF(x)]] <= key[array[x]]
  BY <1>6, IdleOrder
<1>8. <<PARENT_OF(x), x>> \in OpToRel(<, Nat) BY <1>1, <1>6, <1>7 DEF OpToRel
<1>9. PARENT_OF(x) \notin T BY <1>5, <1>8
<1> QED BY <1>2, <1>3, <1>6, <1>7, <1>9

\* A step of trickle_up or trickle_down that moves a node keeps the content.
LEMMA MoveContent ==
    ASSUME hole \in Slots, NEW m \in Filled,
           Slots' = Slots, hole' = m, tmp' = tmp,
           Filled' = (Filled \ {m}) \cup {hole},
           array'[hole] = array[m],
           \A i \in Filled : array'[i] = array[i]
    PROVE  Content' = Content
<1>1. Content = {array[i] : i \in Filled} \cup {tmp} BY DEF Content, Filled
<1>2. m \in Slots /\ hole \notin Filled BY DEF Filled
<1>3. Content' = {array'[i] : i \in Filled'} \cup {tmp}
  <2>1. hole' \in Slots' BY <1>2
  <2>2. Filled' = Slots' \ {hole'} BY DEF Filled
  <2> QED BY <2>1, <2>2 DEF Content
<1>4. {array'[i] : i \in Filled'} = {array[i] : i \in Filled} BY <1>2
<1> QED BY <1>1, <1>3, <1>4

\* An iteration of trickle_up keeps IInv, and no node is lost or added.
LEMMA TrickleUpStep ==
    ASSUME IInv, trickle_up
    PROVE  IInv' /\ Content' = Content /\ key' = key /\ taken' = taken
<1>1. mode \in {"enqueue", "up"} BY DEF trickle_up
<1>2. CASE hole > 0 /\ key[tmp] < key[array[PARENT_OF(hole)]]
  <2>1. MoveTo(PARENT_OF(hole)) BY <1>2 DEF trickle_up
  <2>2. IInv' BY <1>1, <1>2, <2>1, TrickleUpMove
  <2>3. hole \in Slots /\ hole \in Nat \ {0} BY <1>1, <1>2 DEF IInv, ModeOK, TypeOK, Slots
  <2>4. PARENT_OF(hole) \in Filled
    <3>1. PARENT_OF(hole) \in Nat /\ PARENT_OF(hole) < hole BY <2>3, ParentChild
    <3> QED BY <3>1, <2>3, <1>1 DEF Filled, Slots, IInv, TypeOK
  <2>5. mode = "up" => PARENT_OF(hole) < size
    BY <2>4, <1>1 DEF Filled, Slots, IInv, TypeOK
  <2>6. Content' = Content
    BY <1>1, <2>1, <2>3, <2>4, <2>5, MoveToSlots, MoveContent
  <2> QED BY <2>1, <2>2, <2>6 DEF MoveTo
<1>3. CASE ~(hole > 0 /\ key[tmp] < key[array[PARENT_OF(hole)]])
  <2>1. Restore BY <1>3 DEF trickle_up
  <2> QED BY <1>1, <1>3, <2>1, RestoreStep DEF Restore
<1> QED BY <1>2, <1>3

\* An iteration of trickle_down keeps IInv, and no node is lost or added.
LEMMA TrickleDownStep ==
    ASSUME IInv, trickle_down
    PROVE  IInv' /\ Content' = Content /\ key' = key /\ taken' = taken
<1>1. mode = "down" /\ hole \in Nat BY DEF trickle_down, IInv, ModeOK, TypeOK
<1>2. CASE HAVE_CHILD(hole) /\ key[array[Which]] <= key[tmp]
  <2>1. MoveTo(Which) BY <1>2 DEF trickle_down
  <2>2. IInv' BY <1>1, <1>2, <2>1, TrickleDownMove
  <2>3. hole \in Slots /\ Which \in Filled BY <1>1, <1>2, WhichChild
  <2>4. Content' = Content
    BY <1>1, <2>1, <2>3, MoveToSlots, MoveContent
  <2> QED BY <2>1, <2>2, <2>4 DEF MoveTo
<1>3. CASE ~(HAVE_CHILD(hole) /\ key[array[Which]] <= key[tmp])
  <2>1. Restore BY <1>3 DEF trickle_down
  <2> QED BY <1>1, <1>3, <2>1, RestoreStep DEF Restore
<1> QED BY <1>2, <1>3

\* Between two operations the content is what the slots hold.
LEMMA IdleContent ==
    ASSUME IInv, mode = "idle"
    PROVE  Content = {array[i] : i \in Filled}
BY IdleSlots DEF Content, Filled, IInv, TypeOK

\* pqueue_enqueue adds the node to the content, and no other.
LEMMA EnqueueContent ==
    ASSUME IInv, NEW n \in Node, NEW k \in Key, pqueue_enqueue(n, k)
    PROVE  Content' = Content \cup {n}
<1>1. /\ mode = "idle" /\ Filled = 0..(size - 1) /\ TypeOK
      /\ mode' = "enqueue" /\ hole' = size /\ tmp' = n /\ size' = size
  BY IdleSlots DEF pqueue_enqueue, IInv
<1>2. Slots' = 0..size /\ Filled' = Filled BY <1>1 DEF Slots, Filled, TypeOK
<1>3. array_size' \in Nat /\ array_size <= array_size' /\ array_size' = pqueue_expand
  BY <1>1 DEF TypeOK, pqueue_expand, pqueue_enqueue
<1>4. \A i \in Filled : array'[i] = array[i]
  <2>1. array' = [i \in 0..(array_size' - 1) |->
                   CASE i = size -> n
                     [] i # size /\ i < array_size -> array[i]
                     [] OTHER -> NULL]
    BY <1>3 DEF pqueue_enqueue
  <2> QED BY <2>1, <1>1, <1>3 DEF TypeOK
<1>5. Content' = {array'[i] : i \in Filled'} \cup {n}
  <2>1. hole' \in Slots' BY <1>1, <1>2 DEF TypeOK
  <2> QED BY <2>1, <1>1 DEF Content, Filled
<1> QED BY <1>1, <1>2, <1>4, <1>5, IdleContent

\* What fills the gap was in the queue: only the node that was in the gap leaves.
LEMMA FillGapContent ==
    ASSUME IInv, mode = "idle", mode' \in {"up", "down"},
           NEW h \in 0..(size - 1), FillGap(h, array[h])
    PROVE  Content' = Content \ {array[h]}
<1>1. /\ Filled = 0..(size - 1) /\ TypeOK /\ size - 1 \in Nat
      /\ hole' = h /\ size' = size - 1 /\ tmp' = array[size - 1]
      /\ array' = [array EXCEPT ![h] = array[size - 1], ![size - 1] = NULL]
  BY IdleSlots DEF FillGap, IInv, TypeOK
<1>2. Slots' = 0..(size - 2) /\ Filled' = 0..(size - 2) \ {h}
  BY <1>1 DEF Slots, Filled, TypeOK
<1>3. \A i, j \in Filled : array[i] = array[j] => i = j BY DEF IInv, SlotsOK
<1>4. \A i \in Filled' : i \in Filled /\ array'[i] = array[i]
  BY <1>1, <1>2 DEF TypeOK
<1>5. h \in Filled /\ size - 1 \in Filled BY <1>1
<1>6. Content' = {array'[i] : i \in Filled'} \cup (IF h \in Slots' THEN {tmp'} ELSE {})
  BY <1>1 DEF Content, Filled
<1>7. CASE h \in Slots'
  <2>1. Filled \ {h} = Filled' \cup {size - 1} /\ h # size - 1
    BY <1>1, <1>2, <1>7 DEF TypeOK
  <2>a. {array'[i] : i \in Filled'} = {array[i] : i \in Filled'} BY <1>4
  <2>b. Content' = {array[i] : i \in Filled'} \cup {array[size - 1]}
    BY <2>a, <1>1, <1>6, <1>7
  <2>2. Content' = {array[i] : i \in Filled \ {h}} BY <2>1, <2>b
  <2> QED BY <2>2, <1>3, <1>5, IdleContent
<1>8. CASE h \notin Slots'
  <2>1. Filled \ {h} = Filled' BY <1>1, <1>2, <1>8 DEF TypeOK
  <2>2. Content' = {array[i] : i \in Filled \ {h}} BY <2>1, <1>4, <1>6, <1>8
  <2> QED BY <2>2, <1>3, <1>5, IdleContent
<1> QED BY <1>7, <1>8

\* pqueue_dequeue keeps IInv and takes a node with the least key.
LEMMA DequeueStep ==
    ASSUME IInv, pqueue_dequeue
    PROVE  IInv' /\ Bag!TakeMin(array[0]) /\ array[0] \in Node
<1>1. /\ mode = "idle" /\ size > 0 /\ taken' = array[0] /\ mode' = "down"
      /\ FillGap(0, array[0]) /\ size \in Nat
  BY DEF pqueue_dequeue, IInv, TypeOK
<1>2. 0 \in 0..(size - 1) /\ Filled = 0..(size - 1) BY <1>1, IdleSlots
<1>3. array[0] \in Node BY <1>2 DEF IInv, SlotsOK
<1>4. IInv' BY <1>1, <1>2, <1>3, FillGapStep
<1>5. Content' = Content \ {array[0]} BY <1>1, <1>2, FillGapContent
<1>6. array[0] \in Content /\ \A m \in Content : key[array[0]] <= key[m]
  BY <1>1, <1>2, IdleContent, RootIsMin
<1> QED BY <1>1, <1>3, <1>4, <1>5, <1>6 DEF Bag!TakeMin, FillGap

\* pqueue_remove_at keeps IInv and takes the node it was called for.
LEMMA RemoveStep ==
    ASSUME IInv, NEW n \in Node, pqueue_remove_at(n)
    PROVE  IInv' /\ Bag!Remove(n)
<1>1. mode = "idle" /\ n \in Content /\ taken' = NULL /\ FillGap(index[n], n)
      /\ mode' = IF /\ index[n] > 0
                    /\ key[array[size - 1]] < key[array[PARENT_OF(index[n])]]
                 THEN "up" ELSE "down"
  BY DEF pqueue_remove_at
<1>2. index[n] \in 0..(size - 1) /\ array[index[n]] = n
  <2>1. PICK i \in Filled : n = array[i] BY <1>1, IdleContent
  <2>2. i \in 0..(size - 1) /\ index[array[i]] = i
    BY <1>1, <2>1, IdleSlots DEF IInv, SlotsOK
  <2> QED BY <2>1, <2>2
<1>3. IInv' BY <1>1, <1>2, FillGapStep
<1>4. Content' = Content \ {n} BY <1>1, <1>2, FillGapContent
<1> QED BY <1>1, <1>3, <1>4 DEF Bag!Remove, FillGap

\* pqueue_enqueue is an insertion of the abstract queue.
LEMMA EnqueueRefines ==
    ASSUME IInv, NEW n \in Node, NEW k \in Key, pqueue_enqueue(n, k)
    PROVE  Bag!Insert(n, k)
BY EnqueueContent DEF pqueue_enqueue, Bag!Insert

\* Every step keeps IInv and is a step of the abstract queue, or none.
LEMMA NextStep ==
    ASSUME IInv, [Next]_vars
    PROVE  IInv' /\ [Bag!BagNext]_(Bag!bagVars)
<1>1. ASSUME NEW n \in Node, NEW k \in Key, pqueue_enqueue(n, k)
      PROVE  IInv' /\ Bag!BagNext
  BY <1>1, EnqueueStep, EnqueueRefines DEF Bag!BagNext
<1>2. CASE pqueue_dequeue BY <1>2, DequeueStep DEF Bag!BagNext
<1>3. ASSUME NEW n \in Node, pqueue_remove_at(n) PROVE IInv' /\ Bag!BagNext
  BY <1>3, RemoveStep DEF Bag!BagNext
<1>4. CASE trickle_up BY <1>4, TrickleUpStep DEF Bag!bagVars
<1>5. CASE trickle_down BY <1>5, TrickleDownStep DEF Bag!bagVars
<1>6. CASE UNCHANGED vars
  <2>1. IInv'
    BY <1>6 DEF vars, IInv, TypeOK, ModeOK, SlotsOK, OrderOK, Filled, Slots
  <2>2. Content' = Content BY <1>6 DEF vars, Content, Slots
  <2> QED BY <2>1, <2>2, <1>6 DEF vars, Bag!bagVars
<1> QED BY <1>1, <1>2, <1>3, <1>4, <1>5, <1>6 DEF Next

-----------------------------------------------------------------------------
(* The theorems *)

\* What holds of the heap at every step of every operation of pqueue.c.
THEOREM SpecIInv == Spec => []IInv
<1>1. IInv /\ [Next]_vars => IInv' BY NextStep
<1> QED BY <1>1, InitIInv, PTL DEF Spec

\* pqueue_enqueue writes inside the array, however many nodes there are.
THEOREM SpecTypeOK == Spec => []TypeOK
BY SpecIInv, PTL DEF IInv

\* Between two operations no node precedes its parent.
THEOREM SpecHeapOrder == Spec => []HeapOrder
<1>1. IInv => HeapOrder
  <2> SUFFICES ASSUME IInv, mode = "idle", NEW i \in 1..(size - 1)
               PROVE  key[array[PARENT_OF(i)]] <= key[array[i]]
    BY DEF HeapOrder
  <2>1. i \in Filled \ {0} BY IdleSlots
  <2> QED BY <2>1, IdleOrder
<1> QED BY <1>1, SpecIInv, PTL

\* The assertion of thread_cancel holds: a timer is where its index says.
THEOREM SpecIndexInv == Spec => []IndexInv
<1>1. IInv => IndexInv
  BY IdleSlots, IdleContent DEF IndexInv, IInv, SlotsOK, TypeOK
<1> QED BY <1>1, SpecIInv, PTL

\* The heap implements the priority queue: no timer is lost or duplicated and
\* the one that pops has the earliest deadline.
THEOREM SpecImplementsBag == Spec => ImplementsBag
<1>1. Init => Bag!BagInit
  BY DEF Init, Bag!BagInit, Content, Slots
<1>2. IInv /\ [Next]_vars => [Bag!BagNext]_(Bag!bagVars) BY NextStep
<1> QED BY <1>1, <1>2, SpecIInv, PTL DEF Spec, ImplementsBag, Bag!BagSpec
===============================================================================
