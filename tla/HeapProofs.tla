------------------------------ MODULE HeapProofs ------------------------------
(* Theorems about the priority queue and heapsort(), for any values, queues  *)
(* and arrays of any length and any sequence of calls: what is a heap stays  *)
(* one although the root is its own parent, no loop leaves the heap, the     *)
(* queue is a bag of which pop() takes the greatest value, and heapsort()    *)
(* leaves the elements of its input in order.                                *)
(*                                                                           *)
(* First come lemmas about the two functions of Heap, which both parts cite. *)
(* The definitions of HeapSort are taken by INSTANCE, since those of the     *)
(* queue have the same names.                                                *)
EXTENDS PriorityQueue, FiniteSetTheorems, SequenceTheorems, TLAPS

CONSTANT Inputs
VARIABLES input, heap_size, stage

Sort == INSTANCE HeapSort

-------------------------------------------------------------------------------
(* Arithmetic and sequences *)

\* A set of natural numbers that has an element has a smallest one.
LEMMA SmallestElement ==
    ASSUME NEW T, T \subseteq Nat, T # {}
    PROVE  \E x \in T : \A y \in T : x <= y
<1>1. PICK x \in T : \A y \in T : ~ (<<y, x>> \in OpToRel(<, Nat))
  BY NatLessThanWellFounded, WFMin, Zenon
<1>2. \A y \in T : <<y, x>> \in OpToRel(<, Nat) <=> y < x
  BY DEF OpToRel
<1>3. SUFFICES ASSUME NEW y \in T PROVE x <= y
  OBVIOUS
<1>4. ~ (y < x)
  BY <1>1, <1>2, Zenon
<1> QED
  BY <1>4

\* The index of a parent: the root is its own, all others are below theirs.
LEMMA HalfFacts ==
    ASSUME NEW i \in Nat
    PROVE  /\ Half(i) \in Nat
           /\ 2 * Half(i) = i \/ 2 * Half(i) + 1 = i
           /\ i > 0 => Half(i) < i
  BY SMT DEF Half

\* The root has one child.
LEMMA RootsChild ==
    ASSUME NEW i \in Nat, i > 0, Half(i) = 0
    PROVE  i = 1
  BY HalfFacts

\* All but the root have their parents below them, within the heap.
LEMMA ParentIsBelow ==
    ASSUME NEW n \in Nat
    PROVE  \A i \in 1 .. n - 1 : Half(i) \in 0 .. n - 1 /\ Half(i) < i
  BY HalfFacts, SMT

\* The elements of an array are values, hence integers.
LEMMA AtType ==
    ASSUME ValueAssumption, NEW d \in Seq(Value), NEW i \in 0 .. Len(d) - 1
    PROVE  At(d, i) \in Value /\ At(d, i) \in Int
<1>1. Len(d) \in Nat
  BY LenProperties
<1>2. i + 1 \in 1..Len(d)
  BY <1>1
<1>3. At(d, i) \in Value
  BY <1>2, ElementOfSeq DEF At
<1> QED
  BY <1>3 DEF ValueAssumption

\* What an exchange of two elements does.
LEMMA SwappedFacts ==
    ASSUME NEW d \in Seq(Value), NEW i \in 0 .. Len(d) - 1, NEW j \in 0 .. Len(d) - 1
    PROVE  /\ Swapped(d, i, j) \in Seq(Value)
           /\ Len(Swapped(d, i, j)) = Len(d)
           /\ \A k \in 0 .. Len(d) - 1 :
                 At(Swapped(d, i, j), k) =
                     IF k = i THEN At(d, j) ELSE IF k = j THEN At(d, i) ELSE At(d, k)
           /\ \A k \in 1..Len(d) :
                 Swapped(d, i, j)[k] =
                     IF k = i + 1 THEN d[j + 1] ELSE IF k = j + 1 THEN d[i + 1] ELSE d[k]
<1> DEFINE e == [d EXCEPT ![i + 1] = d[j + 1]]
<1>1. Len(d) \in Nat
  BY LenProperties
<1>2. i + 1 \in 1..Len(d) /\ j + 1 \in 1..Len(d)
  BY <1>1
<1>3. d[i + 1] \in Value /\ d[j + 1] \in Value
  BY <1>2, ElementOfSeq
<1>4. /\ e \in Seq(Value) /\ Len(e) = Len(d)
      /\ \A k \in 1..Len(d) : e[k] = IF k = i + 1 THEN d[j + 1] ELSE d[k]
  BY <1>2, <1>3, ExceptSeq
<1>5. /\ [e EXCEPT ![j + 1] = d[i + 1]] \in Seq(Value)
      /\ Len([e EXCEPT ![j + 1] = d[i + 1]]) = Len(e)
      /\ \A k \in 1..Len(e) :
            [e EXCEPT ![j + 1] = d[i + 1]][k] = IF k = j + 1 THEN d[i + 1] ELSE e[k]
  <2> HIDE DEF e
  <2> QED
    BY <1>2, <1>3, <1>4, ExceptSeq
<1>6. Swapped(d, i, j) = [e EXCEPT ![j + 1] = d[i + 1]]
  BY DEF Swapped, At
<1>7. \A k \in 0 .. Len(d) - 1 : k + 1 \in 1..Len(d)
  BY <1>1
<1> HIDE DEF e
<1> QED
  BY <1>1, <1>2, <1>4, <1>5, <1>6, <1>7 DEF At

\* The root of a heap is the greatest element, as no element can be the first
\* one that is greater.
LEMMA RootIsGreatest ==
    ASSUME ValueAssumption, NEW d \in Seq(Value), NEW n \in 1..Len(d), IsHeap(d, n)
    PROVE  \A i \in 0 .. n - 1 : At(d, 0) >= At(d, i)
<1> DEFINE T == {i \in 0 .. n - 1 : ~ (At(d, 0) >= At(d, i))}
<1>1. Len(d) \in Nat /\ n \in Nat
  BY LenProperties
<1>2. \A i \in 0 .. n - 1 : At(d, i) \in Int
  BY <1>1, AtType
<1>3. SUFFICES ASSUME T # {} PROVE FALSE
  OBVIOUS
<1>4. T \subseteq Nat
  BY <1>1
<1>5. PICK i \in T : \A j \in T : i <= j
  <2> HIDE DEF T
  <2> QED
    BY <1>3, <1>4, SmallestElement
<1>6. i \in 1 .. n - 1
  BY <1>1, <1>2
<1>7. Half(i) \in 0 .. n - 1 /\ Half(i) < i
  BY <1>1, <1>6, HalfFacts
<1>8. Half(i) \notin T
  BY <1>1, <1>5, <1>7
<1>9. At(d, Half(i)) >= At(d, i)
  BY <1>6 DEF IsHeap
<1> QED
  BY <1>1, <1>2, <1>5, <1>7, <1>8, <1>9

-------------------------------------------------------------------------------
(* The loops *)

\* The state of a call, with the invariants of the loops.
HeapInv ==
    /\ data \in Seq(Value)
    /\ running \in {"none", "push", "pop", "popped"}
    /\ size \in Nat /\ parent \in Nat /\ child \in Nat
    /\ running # "none" => size \in 1..Len(data)
    /\ PushLoop /\ PopLoop /\ PopDone

\* What is exchanged in a step of a call, and that all is done within the heap.
Exchanged == \E i, j \in 0 .. size - 1 : data' = Swapped(data, i, j)

\* Every iteration of push_into_heap() keeps its loop's invariant.
LEMMA MoveUpKeeps ==
    ASSUME ValueAssumption, HeapInv, MoveUp
    PROVE  HeapInv' /\ size' = size /\ running' = "push" /\ Exchanged
<1> DEFINE c == child
           h == Half(child)
           a(k) == At(data, k)
           b(k) == At(data', k)
<1>1. /\ Len(data) \in Nat /\ size \in 1..Len(data) /\ c \in 0 .. size - 1
      /\ c > 0 /\ a(h) < a(c)
      /\ \A i \in 1 .. size - 1 : i # c => a(Half(i)) >= a(i)
      /\ \A i \in 1 .. size - 1 : Half(i) = c => a(h) >= a(i)
  BY LenProperties DEF HeapInv, PushLoop, MoveUp, BelongsAbove
<1>2. h \in 0 .. size - 1 /\ h < c
  BY <1>1, HalfFacts
<1>3. \A i \in 0 .. size - 1 : i \in 0 .. Len(data) - 1
  BY <1>1
<1>4. \A i \in 0 .. size - 1 : a(i) \in Int
  BY <1>3, AtType DEF HeapInv
<1>5. /\ data' \in Seq(Value) /\ Len(data') = Len(data)
      /\ \A k \in 0 .. size - 1 :
            b(k) = IF k = h THEN a(c) ELSE IF k = c THEN a(h) ELSE a(k)
  <2>1. h \in 0 .. Len(data) - 1 /\ c \in 0 .. Len(data) - 1
    BY <1>1, <1>2, <1>3
  <2>2. data \in Seq(Value) /\ data' = Swapped(data, h, c)
    BY DEF HeapInv, MoveUp
  <2> HIDE DEF h, c
  <2> HIDE DEF a, b
  <2>3. /\ Swapped(data, h, c) \in Seq(Value) /\ Len(Swapped(data, h, c)) = Len(data)
        /\ \A k \in 0 .. Len(data) - 1 :
              At(Swapped(data, h, c), k) =
                  IF k = h THEN At(data, c) ELSE IF k = c THEN At(data, h) ELSE At(data, k)
    BY <2>1, <2>2, SwappedFacts
  <2> QED
    BY <1>3, <2>2, <2>3 DEF a, b
<1>6. child' = h /\ size' = size /\ running' = "push" /\ UNCHANGED parent
  BY DEF MoveUp, HeapInv
<1>7. \A i \in 1 .. size - 1 : Half(i) \in 0 .. size - 1 /\ Half(i) < i
  BY ParentIsBelow DEF HeapInv
<1>8. Exchanged
  BY <1>1, <1>2 DEF MoveUp, Exchanged
<1> HIDE DEF a, b, c, h
<1>9. ASSUME NEW i \in 1 .. size - 1, i # h PROVE b(Half(i)) >= b(i)
  <2>1. /\ i \in 0 .. size - 1 /\ Half(i) \in 0 .. size - 1
        /\ Half(i) # i
    BY <1>1, <1>7
  <2>2. a(i) \in Int /\ a(Half(i)) \in Int /\ a(h) \in Int /\ a(c) \in Int
    BY <1>1, <1>2, <1>4, <2>1
  <2>3. CASE i = c
    BY <1>1, <1>2, <1>5, <2>1, <2>2, <2>3 DEF h, c
  <2>4. CASE i # c
    <3>1. a(Half(i)) >= a(i) /\ b(i) = a(i)
      BY <1>1, <1>5, <1>9, <2>1, <2>4
    <3>2. Half(i) = c => a(h) >= a(i)
      BY <1>1
    <3>3. b(Half(i)) = IF Half(i) = h THEN a(c) ELSE IF Half(i) = c THEN a(h) ELSE a(Half(i))
      BY <1>5, <2>1
    <3> QED
      BY <1>1, <2>2, <3>1, <3>2, <3>3
  <2> QED
    BY <2>3, <2>4
<1>10. ASSUME NEW i \in 1 .. size - 1, Half(i) = h PROVE b(Half(h)) >= b(i)
  <2>1. CASE h = 0
    <3>1. i = c
      <4>1. i \in Nat /\ c \in Nat /\ i > 0 /\ c > 0
        BY <1>1
      <4>2. Half(i) = 0 /\ Half(c) = 0
        BY <1>10, <2>1 DEF h, c
      <4>3. i = 1 /\ c = 1
        BY <4>1, <4>2, RootsChild
      <4> QED
        BY <4>3
    <3>2. Half(h) = h
      BY <2>1, HalfFacts
    <3> QED
      BY <1>1, <1>2, <1>4, <1>5, <3>1, <3>2
  <2>2. CASE h > 0
    <3>1. Half(h) \in 0 .. size - 1 /\ Half(h) < h /\ a(Half(h)) >= a(h)
      BY <1>1, <1>2, <1>7, <2>2
    <3>2. b(Half(h)) = a(Half(h))
      BY <1>2, <1>5, <3>1
    <3>3. /\ i \in 0 .. size - 1 /\ i # h /\ a(i) \in Int /\ a(h) \in Int
          /\ a(Half(h)) \in Int
      BY <1>1, <1>2, <1>4, <1>7, <1>10, <3>1
    <3>4. b(i) = IF i = c THEN a(h) ELSE a(i)
      BY <1>5, <3>3
    <3>5. i # c => a(h) >= a(i)
      BY <1>1, <1>10
    <3> QED
      BY <3>1, <3>2, <3>3, <3>4, <3>5
  <2> QED
    BY <1>2, <2>1, <2>2
<1>11. PushLoop'
  BY <1>2, <1>6, <1>9, <1>10 DEF PushLoop, b
<1> QED
  BY <1>1, <1>2, <1>5, <1>6, <1>8, <1>11 DEF HeapInv, PopLoop, PopDone

\* When push_into_heap() returns, the array is a heap.
LEMMA PushReturnsHeap ==
    ASSUME ValueAssumption, HeapInv, PushReturns
    PROVE  HeapInv' /\ running' = "none" /\ size' = size /\ data' = data /\ IsHeap(data, size)
<1>1. /\ Len(data) \in Nat /\ size \in 1..Len(data) /\ child \in 0 .. size - 1
      /\ \A i \in 1 .. size - 1 : i # child => At(data, Half(i)) >= At(data, i)
      /\ ~(child > 0 /\ At(data, Half(child)) < At(data, child))
  BY LenProperties DEF HeapInv, PushLoop, PushReturns, BelongsAbove
<1>2. \A i \in 0 .. Len(data) - 1 : At(data, i) \in Int
  BY AtType DEF HeapInv
<1>3. SUFFICES ASSUME NEW i \in 1 .. size - 1 PROVE At(data, Half(i)) >= At(data, i)
  BY DEF IsHeap, HeapInv, PushReturns, PushLoop, PopLoop, PopDone
<1>4. Half(i) \in 0 .. Len(data) - 1 /\ i \in 0 .. Len(data) - 1 /\ i > 0
  BY <1>1, ParentIsBelow
<1>5. At(data, Half(i)) \in Int /\ At(data, i) \in Int
  BY <1>2, <1>4
<1> QED
  BY <1>1, <1>4, <1>5

\* push_into_heap() finds all but the new element in order.
LEMMA PushStarts ==
    ASSUME ValueAssumption, HeapInv, NEW d \in Seq(Value), NEW n \in 1..Len(d),
           IsHeap(d, n - 1), PushIntoHeap(d, n)
    PROVE  HeapInv'
<1>1. Len(d) \in Nat
  BY LenProperties
<1>2. ASSUME NEW i \in 1 .. n - 1, i # n - 1 PROVE At(d, Half(i)) >= At(d, i)
  BY <1>1, <1>2 DEF IsHeap
<1>3. ASSUME NEW i \in 1 .. n - 1, Half(i) = n - 1 PROVE FALSE
  BY <1>1, <1>3, HalfFacts
<1>4. PushLoop'
  BY <1>1, <1>2, <1>3 DEF PushLoop, PushIntoHeap
<1> QED
  BY <1>1, <1>4 DEF HeapInv, PushIntoHeap, PopLoop, PopDone

\* pop_from_heap() finds a heap.
LEMMA PopStarts ==
    ASSUME ValueAssumption, HeapInv, NEW n \in 1..Len(data),
           IsHeap(data, n), PopFromHeap(n)
    PROVE  HeapInv' /\ data' = data /\ size' = n
<1>1. Len(data) \in Nat
  BY LenProperties DEF HeapInv
<1>2. \A i \in 0 .. Len(data) - 1 : At(data, i) \in Int
  BY AtType DEF HeapInv
<1>3. PopLoop'
  BY DEF PopLoop, PopFromHeap
<1>4. PopDone'
  <2> SUFFICES ASSUME n = 1 PROVE PopDone'
    BY <1>1 DEF PopDone, PopFromHeap
  <2> QED
    BY <1>1, <1>2 DEF PopDone, PopFromHeap, IsHeap
<1> QED
  BY <1>1, <1>3, <1>4 DEF HeapInv, PopFromHeap, PushLoop

\* What the exchange at the start of an iteration of pop_from_heap() leaves: the
\* greatest element at the end of the array, the rest in order but between child
\* and its children, which are not greater than its parent.
LEMMA MoveDownExchanges ==
    ASSUME ValueAssumption, HeapInv, MoveDown
    PROVE  /\ data' \in Seq(Value) /\ Len(data') = Len(data)
           /\ \A i \in 0 .. size - 2 : At(data', size - 1) >= At(data', i)
           /\ \A i \in 1 .. size - 2 :
                 /\ Half(i) # child => At(data', Half(i)) >= At(data', i)
                 /\ Half(i) = child /\ child > 0 => At(data', Half(child)) >= At(data', i)
           /\ parent \in 0 .. size - 1 /\ child \in 0 .. size - 1
<1> DEFINE n == size
           p == parent
           c == child
           a(k) == At(data, k)
           b(k) == At(data', k)
<1>1. /\ Len(data) \in Nat /\ n \in 1..Len(data) /\ p \in 0 .. n - 1 /\ c \in 0 .. n - 1
  BY LenProperties DEF HeapInv, PopLoop, MoveDown
<1>2. \A i \in 0 .. n - 1 : a(i) \in Int
  BY <1>1, AtType DEF HeapInv
<1>3. /\ data' \in Seq(Value) /\ Len(data') = Len(data)
      /\ \A k \in 0 .. n - 1 :
            b(k) = IF k = p THEN a(c) ELSE IF k = c THEN a(p) ELSE a(k)
  <2>1. p \in 0 .. Len(data) - 1 /\ c \in 0 .. Len(data) - 1
    BY <1>1
  <2>2. \A i \in 0 .. n - 1 : i \in 0 .. Len(data) - 1
    BY <1>1
  <2>3. data \in Seq(Value) /\ data' = Swapped(data, p, c)
    BY DEF HeapInv, MoveDown
  <2> HIDE DEF a, b, c, p
  <2>4. /\ Swapped(data, p, c) \in Seq(Value) /\ Len(Swapped(data, p, c)) = Len(data)
        /\ \A k \in 0 .. Len(data) - 1 :
              At(Swapped(data, p, c), k) =
                  IF k = p THEN At(data, c) ELSE IF k = c THEN At(data, p) ELSE At(data, k)
    BY <2>1, <2>3, SwappedFacts
  <2> QED
    BY <2>2, <2>3, <2>4 DEF a, b
<1>4. \A i \in 1 .. n - 2 : /\ i \in 0 .. n - 1 /\ i > 0
                          /\ Half(i) \in 0 .. n - 1 /\ Half(i) < i
  <2>1. n - 1 \in Nat
    BY <1>1
  <2>2. \A i \in 1 .. (n - 1) - 1 : Half(i) \in 0 .. (n - 1) - 1 /\ Half(i) < i
    <3> HIDE DEF n
    <3> QED
      BY <2>1, ParentIsBelow
  <2> QED
    BY <1>1, <2>2
<1>5. CASE p = n - 1 /\ c = 0 /\ IsHeap(data, n)
  <2>1. \A i \in 0 .. n - 1 : a(0) >= a(i)
    BY <1>1, <1>5, RootIsGreatest DEF HeapInv
  <2>2. \A i \in 1 .. n - 1 : a(Half(i)) >= a(i)
    BY <1>5 DEF IsHeap
  <2> HIDE DEF a, b, c, n, p
  <2>3. b(n - 1) = a(0)
    BY <1>1, <1>3, <1>5
  <2>4. ASSUME NEW i \in 0 .. n - 2 PROVE b(n - 1) >= b(i)
    <3>1. b(i) \in {a(i), a(p)} /\ i \in 0 .. n - 1
      BY <1>1, <1>3, <1>5
    <3> QED
      BY <1>1, <2>1, <2>3, <3>1
  <2>5. ASSUME NEW i \in 1 .. n - 2, Half(i) # c PROVE b(Half(i)) >= b(i)
    <3>1. b(i) = a(i) /\ b(Half(i)) = a(Half(i))
      BY <1>1, <1>3, <1>4, <1>5, <2>5
    <3> QED
      BY <1>1, <2>2, <3>1
  <2> QED
    BY <1>1, <1>3, <1>5, <2>4, <2>5 DEF b, n, p, c
<1>6. CASE /\ p \in 0 .. n - 2 /\ c \in 1 .. n - 2
           /\ Half(c) = p
           /\ a(p) < a(c)
           /\ \A i \in 1 .. n - 2 :
                 /\ Half(i) # p => a(Half(i)) >= a(i)
                 /\ Half(i) = p => a(c) >= a(i)
                 /\ Half(i) = p /\ p > 0 => a(Half(p)) >= a(i)
           /\ \A i \in 0 .. n - 2 : a(n - 1) >= a(i)
  <2>1. p < c /\ p \in 0 .. n - 1 /\ n \in Nat /\ p \in Nat /\ c \in Nat
    BY <1>1, <1>4, <1>6
  <2> HIDE DEF a, b, c, n, p
  <2>2. b(n - 1) = a(n - 1)
    BY <1>1, <1>3, <1>6, <2>1
  <2>3. ASSUME NEW i \in 0 .. n - 2 PROVE b(n - 1) >= b(i)
    <3>1. b(i) \in {a(i), a(p), a(c)}
      BY <1>1, <1>3, <1>6
    <3> QED
      BY <1>1, <1>6, <2>2, <3>1
  <2>4. ASSUME NEW i \in 1 .. n - 2, Half(i) # c PROVE b(Half(i)) >= b(i)
    <3>1. /\ i \in 0 .. n - 1 /\ Half(i) \in 0 .. n - 1 /\ Half(i) # i
          /\ a(i) \in Int /\ a(Half(i)) \in Int /\ a(c) \in Int /\ a(p) \in Int
      BY <1>1, <1>2, <1>4
    <3>2. /\ b(i) = IF i = p THEN a(c) ELSE IF i = c THEN a(p) ELSE a(i)
          /\ b(Half(i)) = IF Half(i) = p THEN a(c) ELSE a(Half(i))
      BY <1>3, <2>4, <3>1
    <3>3. CASE i = c
      BY <1>6, <2>1, <3>1, <3>2, <3>3
    <3>4. CASE i = p
      <4>1. a(Half(p)) >= a(c)
        BY <1>6, <2>1, <3>4
      <4> QED
        BY <3>1, <3>2, <3>4, <4>1
    <3>5. CASE i # c /\ i # p
      BY <1>6, <3>1, <3>2, <3>5
    <3> QED
      BY <3>3, <3>4, <3>5
  <2>5. ASSUME NEW i \in 1 .. n - 2, Half(i) = c PROVE b(Half(c)) >= b(i)
    <3>1. i > c /\ i \in 0 .. n - 1
      BY <1>4, <2>5
    <3>2. b(i) = a(i) /\ b(Half(c)) = a(c)
      BY <1>3, <1>6, <2>1, <3>1
    <3>3. a(c) >= a(i)
      BY <1>6, <2>1, <2>5
    <3> QED
      BY <3>2, <3>3
  <2> QED
    BY <1>1, <1>3, <2>3, <2>4, <2>5 DEF b, n, p, c
<1>7. running = "pop"
  BY DEF MoveDown
<1> QED
  BY <1>5, <1>6, <1>7 DEF HeapInv, PopLoop

\* Every iteration of pop_from_heap() keeps its loop's invariant.
LEMMA MoveDownKeeps ==
    ASSUME ValueAssumption, HeapInv, MoveDown
    PROVE  HeapInv' /\ size' = size /\ running' \in {"pop", "popped"} /\ Exchanged
<1> DEFINE n == size
           c == child
           m == MaxChild(data', child, size)
           b(k) == At(data', k)
<1>1. /\ data' \in Seq(Value) /\ Len(data') = Len(data)
      /\ \A i \in 0 .. n - 2 : b(n - 1) >= b(i)
      /\ \A i \in 1 .. n - 2 :
            /\ Half(i) # c => b(Half(i)) >= b(i)
            /\ Half(i) = c /\ c > 0 => b(Half(c)) >= b(i)
      /\ parent \in 0 .. n - 1 /\ c \in 0 .. n - 1
  BY MoveDownExchanges
<1>2. Len(data) \in Nat /\ n \in 1..Len(data)
  BY LenProperties DEF HeapInv, MoveDown
<1>3. \A i \in 0 .. n - 1 : b(i) \in Int
  <2>1. \A i \in 0 .. n - 1 : i \in 0 .. Len(data') - 1
    BY <1>1, <1>2
  <2> QED
    BY <1>1, <2>1, AtType
<1>4. size' = size /\ parent' = child /\ Exchanged
  BY <1>1 DEF MoveDown, Exchanged
<1>5. \A i \in 1 .. n - 2 : i \in Nat /\ Half(i) \in Nat
                         /\ (2 * Half(i) = i \/ 2 * Half(i) + 1 = i)
  BY <1>2, HalfFacts
<1>6. CASE 2 * c > n - 2
  <2>1. running' = "popped" /\ child' = 2 * c
    BY <1>1, <1>2, <1>6 DEF MoveDown
  <2>2. ASSUME NEW i \in 1 .. n - 2 PROVE b(Half(i)) >= b(i)
    <3>1. Half(i) # c
      BY <1>1, <1>2, <1>5, <1>6
    <3> QED
      BY <1>1, <3>1
  <2>3. \A i \in 0 .. n - 1 : b(n - 1) >= b(i)
    BY <1>1, <1>2, <1>3
  <2>4. PopDone'
    BY <1>2, <1>4, <2>1, <2>2, <2>3 DEF PopDone, IsHeap
  <2> QED
    BY <1>1, <1>2, <1>4, <2>1, <2>4 DEF HeapInv, PushLoop, PopLoop
<1>7. CASE 2 * c <= n - 2
  <2>1. child' = m /\ running' = IF b(c) < b(m) THEN "pop" ELSE "popped"
    BY <1>1, <1>2, <1>4, <1>7 DEF MoveDown
  <2>2. m \in 2 * c .. n - 2 /\ Half(m) = c /\ m \in Nat
    BY <1>1, <1>2, <1>7 DEF MaxChild, Half
  <2>3. ASSUME NEW i \in 1 .. n - 2, Half(i) = c PROVE b(m) >= b(i)
    <3>1. i = 2 * c \/ i = 2 * c + 1
      BY <1>5, <2>3
    <3>2. b(i) \in Int /\ b(m) \in Int
      BY <1>2, <1>3, <2>2
    <3>3. m = IF 2 * c < n - 2 /\ b(2 * c) < b(2 * c + 1) THEN 2 * c + 1 ELSE 2 * c
      BY DEF MaxChild
    <3> HIDE DEF m, b, c, n
    <3>4. b(2 * c) \in Int
      BY <1>1, <1>2, <1>3, <1>7
    <3>5. CASE i = 2 * c
      BY <3>2, <3>3, <3>4, <3>5
    <3>6. CASE i = 2 * c + 1
      <4>1. 2 * c < n - 2
        BY <1>1, <1>2, <3>6
      <4> QED
        BY <3>2, <3>3, <3>4, <3>6, <4>1
    <3> QED
      BY <3>1, <3>5, <3>6
  <2>4. CASE b(c) < b(m)
    <3>1. m \in 1 .. n - 2 /\ c \in 0 .. n - 2
      <4>1. m # c
        BY <1>1, <1>3, <2>4
      <4> HIDE DEF m
      <4> QED
        BY <1>1, <1>2, <2>2, <4>1
    <3>2. running' = "pop" /\ child' = m
      BY <2>1, <2>4
    <3> HIDE DEF m
    <3>3. PopLoop'
      BY <1>1, <1>4, <2>2, <2>3, <2>4, <3>1, <3>2 DEF PopLoop
    <3> QED
      BY <1>1, <1>2, <1>4, <2>2, <3>2, <3>3 DEF HeapInv, PushLoop, PopDone
  <2>5. CASE ~(b(c) < b(m))
    <3>1. running' = "popped" /\ child' = m
      BY <2>1, <2>5
    <3>2. b(c) \in Int /\ b(m) \in Int /\ b(c) >= b(m)
      BY <1>1, <1>2, <1>3, <2>2, <2>5
    <3>3. ASSUME NEW i \in 1 .. n - 2 PROVE b(Half(i)) >= b(i)
      <4>1. CASE Half(i) = c
        <5>1. b(i) \in Int
          BY <1>2, <1>3
        <5> HIDE DEF m, b, c, n
        <5> QED
          BY <2>3, <3>2, <4>1, <5>1
      <4> QED
        BY <1>1, <4>1
    <3>4. \A i \in 0 .. n - 1 : b(n - 1) >= b(i)
      BY <1>1, <1>2, <1>3
    <3> HIDE DEF m
    <3>5. PopDone'
      BY <1>2, <1>4, <3>1, <3>3, <3>4 DEF PopDone, IsHeap
    <3> QED
      BY <1>1, <1>2, <1>4, <2>2, <3>1, <3>5 DEF HeapInv, PushLoop, PopLoop
  <2> QED
    BY <2>4, <2>5
<1> QED
  BY <1>1, <1>2, <1>6, <1>7

-------------------------------------------------------------------------------
(* How often a value is in an array *)

Positions(d, v) == {i \in DOMAIN d : d[i] = v}

LEMMA PositionsAreFinite ==
    ASSUME NEW d \in Seq(Value), NEW v
    PROVE  IsFiniteSet(Positions(d, v)) /\ Cardinality(Positions(d, v)) \in Nat
<1>1. IsFiniteSet(1..Len(d)) /\ DOMAIN d = 1..Len(d)
  BY LenProperties, FS_Interval
<1>2. Positions(d, v) \in SUBSET (1..Len(d))
  BY <1>1 DEF Positions
<1> QED
  BY <1>1, <1>2, FS_Subset, FS_CardinalityType

\* An exchange keeps all elements.
LEMMA SwappedKeepsCopies ==
    ASSUME NEW d \in Seq(Value), NEW i \in 0 .. Len(d) - 1, NEW j \in 0 .. Len(d) - 1, NEW v
    PROVE  Cardinality(Positions(Swapped(d, i, j), v)) = Cardinality(Positions(d, v))
<1> DEFINE e == Swapped(d, i, j)
           I == i + 1
           J == j + 1
           S == Positions(d, v)
           T == Positions(e, v)
<1>1. e \in Seq(Value) /\ Len(e) = Len(d)
  BY SwappedFacts
<1>2. /\ Len(d) \in Nat /\ I \in 1..Len(d) /\ J \in 1..Len(d)
      /\ DOMAIN d = 1..Len(d) /\ DOMAIN e = 1..Len(d)
  BY <1>1, LenProperties
<1>3. \A k \in 1..Len(d) :
            e[k] = IF k = I THEN d[J] ELSE IF k = J THEN d[I] ELSE d[k]
  BY SwappedFacts
<1>4. IsFiniteSet(S) /\ Cardinality(S) \in Nat
  BY PositionsAreFinite
<1>5. CASE d[I] = d[J] \/ (d[I] # v /\ d[J] # v)
  <2> HIDE DEF e, I, J
  <2>1. T = S
    BY <1>2, <1>3, <1>5 DEF Positions
  <2> QED
    BY <2>1 DEF e
<1>6. CASE d[I] = v /\ d[J] # v
  <2>1. I \in S /\ J \notin S \ {I}
    BY <1>2, <1>6 DEF Positions
  <2>2. T = (S \ {I}) \cup {J}
    <3> HIDE DEF e, I, J
    <3> QED
      BY <1>2, <1>3, <1>6 DEF Positions
  <2> HIDE DEF S, T, I, J
  <2>3. IsFiniteSet(S \ {I}) /\ Cardinality(S \ {I}) = Cardinality(S) - 1
    BY <1>4, <2>1, FS_RemoveElement
  <2>4. Cardinality(T) = Cardinality(S \ {I}) + 1
    BY <2>1, <2>2, <2>3, FS_AddElement
  <2> QED
    BY <1>4, <2>3, <2>4 DEF S, T
<1>7. CASE d[J] = v /\ d[I] # v
  <2>1. J \in S /\ I \notin S \ {J}
    BY <1>2, <1>7 DEF Positions
  <2>2. T = (S \ {J}) \cup {I}
    <3> HIDE DEF e, I, J
    <3> QED
      BY <1>2, <1>3, <1>7 DEF Positions
  <2> HIDE DEF S, T, I, J
  <2>3. IsFiniteSet(S \ {J}) /\ Cardinality(S \ {J}) = Cardinality(S) - 1
    BY <1>4, <2>1, FS_RemoveElement
  <2>4. Cardinality(T) = Cardinality(S \ {J}) + 1
    BY <2>1, <2>2, <2>3, FS_AddElement
  <2> QED
    BY <1>4, <2>3, <2>4 DEF S, T
<1> QED
  BY <1>5, <1>6, <1>7

\* Exchanges within the heap keep the elements, and keep them below a bound;
\* what is behind the heap stays.
LEMMA ExchangedKeeps ==
    ASSUME HeapInv, running # "none", Exchanged
    PROVE  /\ data' \in Seq(Value) /\ Len(data') = Len(data)
           /\ \A v : Cardinality(Positions(data', v)) = Cardinality(Positions(data, v))
           /\ \A k \in 1..Len(data) : k > size => data'[k] = data[k]
           /\ \A k \in 1..size : \E l \in 1..size : data'[k] = data[l]
<1>1. PICK i, j \in 0 .. size - 1 : data' = Swapped(data, i, j)
  BY DEF Exchanged
<1>2. /\ Len(data) \in Nat /\ size \in 1..Len(data) /\ data \in Seq(Value)
      /\ i \in 0 .. Len(data) - 1 /\ j \in 0 .. Len(data) - 1
  BY LenProperties DEF HeapInv
<1>3. data' \in Seq(Value) /\ Len(data') = Len(data)
  BY <1>1, <1>2, SwappedFacts
<1>4. \A v : Cardinality(Positions(data', v)) = Cardinality(Positions(data, v))
  BY <1>1, <1>2, SwappedKeepsCopies
<1>5. \A k \in 1..Len(data) :
          data'[k] = IF k = i + 1 THEN data[j + 1]
                     ELSE IF k = j + 1 THEN data[i + 1] ELSE data[k]
  BY <1>1, <1>2, SwappedFacts
<1>6. ASSUME NEW k \in 1..Len(data), k > size PROVE data'[k] = data[k]
  BY <1>2, <1>5, <1>6
<1>7. ASSUME NEW k \in 1..size PROVE \E l \in 1..size : data'[k] = data[l]
  <2>1. k \in 1..Len(data) /\ i + 1 \in 1..size /\ j + 1 \in 1..size
    BY <1>2
  <2>2. data'[k] \in {data[j + 1], data[i + 1], data[k]}
    BY <1>5, <2>1
  <2> QED
    BY <2>1, <2>2
<1> QED
  BY <1>3, <1>4, <1>6, <1>7

-------------------------------------------------------------------------------
(* The priority queue *)

\* What the constants have to be.
QueueConstants == ValueAssumption /\ BoundAssumption /\ NoneAssumption

\* The invariants of the loops, and what holds between the calls.
IInv ==
    /\ HeapInv
    /\ Len(data) <= MaxLength /\ size <= MaxLength
    /\ returned \in Value \cup {None}
    /\ running = "none" => IsHeap(data, Len(data))
    /\ running # "none" => size = Len(data)

LEMMA InitKeeps == ASSUME QueueConstants PROVE Init => IInv
<1> SUFFICES ASSUME Init PROVE IInv
  OBVIOUS
<1>1. data \in Seq(Value) /\ Len(data) = 0
  BY EmptySeq DEF Init
<1>2. IsHeap(data, Len(data))
  BY <1>1 DEF IsHeap
<1> QED
  BY <1>1, <1>2
     DEF Init, IInv, HeapInv, PushLoop, PopLoop, PopDone, QueueConstants, BoundAssumption

LEMMA PushKeeps == ASSUME QueueConstants, IInv, NEW v \in Value, Push(v) PROVE IInv'
<1> DEFINE d == Append(data, v)
           n == Len(data)
<1>1. data \in Seq(Value) /\ n \in Nat /\ n + 1 <= MaxLength /\ MaxLength \in Nat
  BY LenProperties DEF IInv, HeapInv, Push, QueueConstants, BoundAssumption
<1>2. /\ d \in Seq(Value) /\ Len(d) = n + 1
      /\ \A i \in 1..n : d[i] = data[i]
  BY <1>1, AppendProperties
<1>3. PushIntoHeap(d, n + 1) /\ UNCHANGED returned
  BY DEF Push
<1>4. IsHeap(data, n)
  BY <1>3 DEF IInv, PushIntoHeap
<1>5. IsHeap(d, (n + 1) - 1)
  <2> SUFFICES ASSUME NEW i \in 1 .. n - 1 PROVE At(d, Half(i)) >= At(d, i)
    BY <1>1 DEF IsHeap
  <2>1. Half(i) + 1 \in 1..n /\ i + 1 \in 1..n
    <3> HIDE DEF n
    <3>1. Half(i) \in 0 .. n - 1
      BY <1>1, ParentIsBelow
    <3> QED
      BY <1>1, <3>1
  <2>2. At(d, Half(i)) = At(data, Half(i)) /\ At(d, i) = At(data, i)
    BY <1>2, <2>1 DEF At
  <2> QED
    BY <1>4, <2>2 DEF IsHeap
<1>6. HeapInv'
  <2>1. n + 1 \in 1..Len(d)
    BY <1>1, <1>2
  <2> HIDE DEF d
  <2> QED
    BY <1>2, <1>3, <1>5, <2>1, PushStarts DEF IInv, QueueConstants
<1> QED
  BY <1>1, <1>2, <1>3, <1>6 DEF IInv, PushIntoHeap

LEMMA PopKeeps == ASSUME QueueConstants, IInv, Pop PROVE IInv' /\ UNCHANGED <<data, returned>>
<1>1. Len(data) \in Nat /\ PopFromHeap(Len(data)) /\ UNCHANGED returned
  BY LenProperties DEF IInv, HeapInv, Pop
<1>2. Len(data) \in 1..Len(data) /\ IsHeap(data, Len(data))
  BY <1>1 DEF IInv, PopFromHeap
<1>3. HeapInv' /\ data' = data /\ size' = Len(data)
  BY <1>1, <1>2, PopStarts DEF IInv, QueueConstants
<1> QED
  BY <1>1, <1>3 DEF IInv, PopFromHeap

\* What a step within a call does.
LEMMA InHeapKeeps ==
    ASSUME QueueConstants, IInv, InHeap
    PROVE  /\ IInv' /\ UNCHANGED returned
           /\ \A v : Cardinality(Positions(data', v)) = Cardinality(Positions(data, v))
<1>1. HeapInv /\ ValueAssumption /\ UNCHANGED returned
  BY DEF IInv, QueueConstants, InHeap
<1>2. CASE MoveUp \/ MoveDown
  <2>1. HeapInv' /\ size' = size /\ running' # "none" /\ Exchanged
    BY <1>1, <1>2, MoveUpKeeps, MoveDownKeeps
  <2>2. running # "none"
    BY <1>2 DEF MoveUp, MoveDown
  <2>3. /\ Len(data') = Len(data)
        /\ \A v : Cardinality(Positions(data', v)) = Cardinality(Positions(data, v))
    BY <1>1, <2>1, <2>2, ExchangedKeeps
  <2> QED
    BY <1>1, <2>1, <2>2, <2>3 DEF IInv
<1>3. CASE PushReturns
  <2>1. /\ HeapInv' /\ running' = "none" /\ size' = size /\ data' = data
        /\ IsHeap(data, size) /\ running # "none"
    BY <1>1, <1>3, PushReturnsHeap DEF PushReturns
  <2> QED
    BY <1>1, <2>1 DEF IInv
<1> QED
  BY <1>2, <1>3 DEF InHeap

\* What is left when pop() returns.
LEMMA PopReturnsLast ==
    ASSUME QueueConstants, IInv, PopReturns
    PROVE  /\ Len(data) \in Nat /\ Len(data) > 0 /\ data \in Seq(Value)
           /\ data' \in Seq(Value) /\ Len(data') = Len(data) - 1
           /\ \A i \in 1 .. Len(data) - 1 : data'[i] = data[i]
           /\ returned' = data[Len(data)]
           /\ \A i \in 1..Len(data) : data[Len(data)] >= data[i]
           /\ IsHeap(data, Len(data) - 1)
<1>1. data \in Seq(Value) /\ Len(data) \in Nat /\ size = Len(data) /\ Len(data) > 0
  BY LenProperties DEF IInv, HeapInv, PopReturns
<1>2. \A i \in 1 .. Len(data) - 1 : data[i] \in Value
  BY <1>1, ElementOfSeq
<1>3. /\ data' \in Seq(Value) /\ Len(data') = Len(data) - 1
      /\ \A i \in 1 .. Len(data) - 1 : data'[i] = data[i]
  <2>1. data' = SubSeq(data, 1, Len(data) - 1)
    BY <1>1 DEF PopReturns
  <2>2. 1 \in Int /\ Len(data) - 1 \in Int
    BY <1>1
  <2>3. /\ SubSeq(data, 1, Len(data) - 1) \in Seq(Value)
        /\ Len(SubSeq(data, 1, Len(data) - 1)) =
              IF 1 <= Len(data) - 1 THEN (Len(data) - 1) - 1 + 1 ELSE 0
        /\ \A i \in 1 .. (Len(data) - 1) - 1 + 1 :
              SubSeq(data, 1, Len(data) - 1)[i] = data[1 + i - 1]
    BY <1>2, <2>2, SubSeqProperties
  <2> QED
    BY <1>1, <2>1, <2>3
<1>4. /\ IsHeap(data, Len(data) - 1)
      /\ \A i \in 0 .. Len(data) - 1 : At(data, Len(data) - 1) >= At(data, i)
  BY <1>1 DEF IInv, HeapInv, PopDone, PopReturns
<1>5. At(data, Len(data) - 1) = data[Len(data)]
  BY <1>1 DEF At
<1>6. ASSUME NEW i \in 1..Len(data) PROVE data[Len(data)] >= data[i]
  <2>1. i - 1 \in 0 .. Len(data) - 1 /\ At(data, i - 1) = data[i]
    BY <1>1 DEF At
  <2> QED
    BY <1>4, <1>5, <2>1
<1>7. returned' = data[Len(data)]
  BY <1>1, <1>5 DEF PopReturns
<1> QED
  BY <1>1, <1>3, <1>4, <1>6, <1>7

LEMMA PopReturnsKeeps == ASSUME QueueConstants, IInv, PopReturns PROVE IInv'
<1> DEFINE n == Len(data)
<1>1. /\ n \in Nat /\ n > 0 /\ data' \in Seq(Value) /\ Len(data') = n - 1
      /\ \A i \in 1 .. n - 1 : data'[i] = data[i]
      /\ returned' = data[n] /\ IsHeap(data, n - 1) /\ data \in Seq(Value)
  BY PopReturnsLast
<1>2. returned' \in Value
  BY <1>1, ElementOfSeq
<1>3. IsHeap(data', n - 1)
  <2> SUFFICES ASSUME NEW i \in 1 .. (n - 1) - 1 PROVE At(data', Half(i)) >= At(data', i)
    BY <1>1 DEF IsHeap
  <2>1. n - 1 \in Nat
    BY <1>1
  <2>2. Half(i) + 1 \in 1 .. n - 1 /\ i + 1 \in 1 .. n - 1
    <3> HIDE DEF n
    <3>1. Half(i) \in 0 .. (n - 1) - 1
      BY <2>1, ParentIsBelow
    <3> QED
      BY <1>1, <3>1
  <2>3. At(data', Half(i)) = At(data, Half(i)) /\ At(data', i) = At(data, i)
    BY <1>1, <2>2 DEF At
  <2> QED
    BY <1>1, <2>3 DEF IsHeap
<1>4. HeapInv' /\ size' = size /\ running' = "none"
  BY <1>1 DEF IInv, HeapInv, PopReturns, PushLoop, PopLoop, PopDone
<1>5. MaxLength \in Nat
  BY DEF QueueConstants, BoundAssumption
<1> QED
  BY <1>1, <1>2, <1>3, <1>4, <1>5 DEF IInv

LEMMA StepKeeps == ASSUME QueueConstants, IInv, [Next]_queueVars PROVE IInv'
<1>1. CASE Pop
  BY <1>1, PopKeeps
<1>2. CASE PopReturns
  BY <1>2, PopReturnsKeeps
<1>3. CASE InHeap
  BY <1>3, InHeapKeeps
<1>4. ASSUME NEW v \in Value, Push(v) PROVE IInv'
  BY <1>4, PushKeeps
<1>5. CASE UNCHANGED queueVars
  BY <1>5 DEF queueVars, heapVars, IInv, HeapInv, PushLoop, PopLoop, PopDone
<1> QED
  BY <1>1, <1>2, <1>3, <1>4, <1>5 DEF Next

LEMMA Invariance == ASSUME QueueConstants PROVE Init /\ [][Next]_queueVars => []IInv
<1>1. Init => IInv
  BY InitKeeps
<1>2. IInv /\ [Next]_queueVars => IInv'
  BY StepKeeps
<1> QED
  BY <1>1, <1>2, PTL

-------------------------------------------------------------------------------
(* The queue implements PriorityBag *)

LEMMA CopiesArePositions ==
    /\ Copies = [v \in Value |-> Cardinality(Positions(data, v))]
    /\ Copies' = [v \in Value |-> Cardinality(Positions(data', v))]
  BY DEF Copies, Positions

\* A new element is one more copy of its value.
LEMMA PushAddsCopy ==
    ASSUME QueueConstants, IInv, NEW v \in Value, Push(v)
    PROVE  Promise!Push(v)
<1> DEFINE d == Append(data, v)
           n == Len(data)
<1>1. data \in Seq(Value) /\ n \in Nat /\ data' = d /\ UNCHANGED returned
  BY LenProperties DEF IInv, HeapInv, Push, PushIntoHeap
<1>2. /\ DOMAIN data = 1..n /\ DOMAIN d = 1 .. n + 1
      /\ \A i \in 1..n : d[i] = data[i]
      /\ d[n + 1] = v
  <2>1. d \in Seq(Value) /\ Len(d) = n + 1
    BY <1>1, AppendProperties
  <2> QED
    BY <1>1, <2>1, AppendProperties, LenProperties
<1>3. ASSUME NEW w \in Value
      PROVE  Cardinality(Positions(d, w)) =
                 IF w = v THEN Cardinality(Positions(data, v)) + 1
                 ELSE Cardinality(Positions(data, w))
  <2> HIDE DEF d, n
  <2>1. IsFiniteSet(Positions(data, w))
    BY <1>1, PositionsAreFinite
  <2>2. CASE w = v
    <3>1. Positions(d, v) = Positions(data, v) \cup {n + 1} /\ n + 1 \notin Positions(data, v)
      BY <1>1, <1>2 DEF Positions
    <3> QED
      BY <2>1, <2>2, <3>1, FS_AddElement
  <2>3. CASE w # v
    <3>1. Positions(d, w) = Positions(data, w)
      BY <1>1, <1>2, <2>3 DEF Positions
    <3> QED
      BY <2>3, <3>1
  <2> QED
    BY <2>2, <2>3
<1>4. Copies' = [Copies EXCEPT ![v] = @ + 1]
  <2> HIDE DEF d
  <2> QED
    BY <1>1, <1>3, CopiesArePositions
<1> QED
  BY <1>1, <1>4 DEF Promise!Push

\* pop() takes a copy of the greatest value.
LEMMA PopReturnsTakesCopy ==
    ASSUME QueueConstants, IInv, PopReturns
    PROVE  Promise!Pop
<1> DEFINE n == Len(data)
           v == data[n]
<1>1. /\ n \in Nat /\ n > 0 /\ data \in Seq(Value)
      /\ data' \in Seq(Value) /\ Len(data') = n - 1
      /\ \A i \in 1 .. n - 1 : data'[i] = data[i]
      /\ returned' = v
      /\ \A i \in 1..n : v >= data[i]
  BY PopReturnsLast
<1>2. DOMAIN data = 1..n /\ DOMAIN data' = 1 .. n - 1 /\ v \in Value
  BY <1>1, LenProperties, ElementOfSeq
<1> HIDE DEF n, v
<1>3. ASSUME NEW w \in Value
      PROVE  Cardinality(Positions(data', w)) =
                 IF w = v THEN Cardinality(Positions(data, v)) - 1
                 ELSE Cardinality(Positions(data, w))
  <2>1. IsFiniteSet(Positions(data, w))
    BY <1>1, PositionsAreFinite
  <2>2. data[n] = v
    BY DEF v
  <2>3. CASE w = v
    <3>1. Positions(data', v) = Positions(data, v) \ {n} /\ n \in Positions(data, v)
      BY <1>1, <1>2, <2>2 DEF Positions
    <3> QED
      BY <2>1, <2>3, <3>1, FS_RemoveElement
  <2>4. CASE w # v
    <3>1. Positions(data', w) = Positions(data, w)
      BY <1>1, <1>2, <2>2, <2>4 DEF Positions
    <3> QED
      BY <2>4, <3>1
  <2> QED
    BY <2>3, <2>4
<1>4. Copies' = [Copies EXCEPT ![v] = @ - 1]
  BY <1>2, <1>3, CopiesArePositions
<1>5. ASSUME NEW w \in Value PROVE Promise!IsIn(w) <=> Positions(data, w) # {}
  <2>1. IsFiniteSet(Positions(data, w)) /\ Cardinality(Positions(data, w)) \in Nat
    BY <1>1, PositionsAreFinite
  <2>2. Copies[w] = Cardinality(Positions(data, w))
    BY CopiesArePositions
  <2> QED
    BY <2>1, <2>2, FS_EmptySet DEF Promise!IsIn
<1>6. Promise!IsIn(v)
  <2>1. n \in Positions(data, v)
    BY <1>1, <1>2 DEF Positions, v
  <2> QED
    BY <1>2, <1>5, <2>1
<1>7. ASSUME NEW w \in Value, Promise!IsIn(w) PROVE w <= v
  <2>1. PICK i \in 1..n : data[i] = w
    BY <1>2, <1>5, <1>7 DEF Positions
  <2> QED
    BY <1>1, <1>2, <2>1 DEF QueueConstants, ValueAssumption
<1> QED
  BY <1>1, <1>2, <1>4, <1>6, <1>7 DEF Promise!Pop

\* Every step of the queue is one of the bag, or changes nothing of it.
LEMMA StepImplements ==
    ASSUME QueueConstants, IInv, [Next]_queueVars
    PROVE  [Promise!Next]_<<Copies, returned>>
<1>1. CASE Pop
  BY <1>1, PopKeeps, CopiesArePositions
<1>2. CASE PopReturns
  BY <1>2, PopReturnsTakesCopy DEF Promise!Next
<1>3. CASE InHeap
  <2>1. \A v : Cardinality(Positions(data', v)) = Cardinality(Positions(data, v))
    BY <1>3, InHeapKeeps
  <2>2. Copies' = Copies
    BY <2>1, CopiesArePositions
  <2> QED
    BY <1>3, <2>2 DEF InHeap
<1>4. ASSUME NEW v \in Value, Push(v) PROVE Promise!Next
  BY <1>4, PushAddsCopy DEF Promise!Next
<1>5. CASE UNCHANGED queueVars
  BY <1>5, CopiesArePositions DEF queueVars, heapVars
<1> QED
  BY <1>1, <1>2, <1>3, <1>4, <1>5 DEF Next

LEMMA InitImplements == ASSUME QueueConstants PROVE Init => Promise!Init
<1> SUFFICES ASSUME Init PROVE Promise!Init
  OBVIOUS
<1>1. \A v : Positions(data, v) = {}
  BY DEF Init, Positions
<1>2. Copies = [v \in Value |-> 0]
  BY <1>1, CopiesArePositions, FS_EmptySet
<1> QED
  BY <1>2 DEF Promise!Init, Init, QueueConstants, NoneAssumption

-------------------------------------------------------------------------------
(* Theorems.  They are about safety, and need no fairness of Spec. *)

\* The variables keep the types of their declarations, and no index is negative.
THEOREM TypeCorrect == ASSUME QueueConstants PROVE Init /\ [][Next]_queueVars => []TypeOK
<1>1. IInv => TypeOK
  BY LenProperties DEF IInv, HeapInv, TypeOK, QueueConstants, BoundAssumption
<1> QED
  BY <1>1, Invariance, PTL

\* Between the calls the array of the queue is a heap.
THEOREM HeapIsKept == ASSUME QueueConstants PROVE Init /\ [][Next]_queueVars => []QueueIsHeap
<1>1. IInv => QueueIsHeap
  BY DEF IInv, HeapInv, QueueIsHeap
<1> QED
  BY <1>1, Invariance, PTL

\* The queue keeps every value that has been pushed and not popped, in as many
\* copies, through all exchanges, and pop() returns the greatest of them.
THEOREM QueueIsPriorityBag == ASSUME QueueConstants PROVE Init /\ [][Next]_queueVars => IsPriorityBag
<1>1. Init => Promise!Init
  BY InitImplements
<1>2. IInv /\ [Next]_queueVars => [Promise!Next]_<<Copies, returned>>
  BY StepImplements
<1> QED
  BY <1>1, <1>2, Invariance, PTL DEF IsPriorityBag, Promise!Spec

-------------------------------------------------------------------------------
(* heapsort() *)

\* HeapSort uses the functions of Heap.
LEMMA SameHeap ==
    /\ Sort!MoveUp <=> MoveUp
    /\ Sort!MoveDown <=> MoveDown
    /\ Sort!PushReturns <=> PushReturns
    /\ \A d, n : Sort!PushIntoHeap(d, n) <=> PushIntoHeap(d, n)
    /\ \A n : Sort!PopFromHeap(n) <=> PopFromHeap(n)
    /\ \A d, n : Sort!IsHeap(d, n) <=> IsHeap(d, n)
  BY DEF Sort!MoveUp, MoveUp, Sort!MoveDown, MoveDown, Sort!PushReturns, PushReturns,
         Sort!PushIntoHeap, PushIntoHeap, Sort!PopFromHeap, PopFromHeap, Sort!IsHeap, IsHeap,
         Sort!BelongsAbove, BelongsAbove, Sort!Swapped, Swapped, Sort!MaxChild, MaxChild,
         Sort!At, At, Sort!Half, Half

\* What its constants have to be.
SortConstants == ValueAssumption /\ Sort!InputsAssumption

\* The elements from position n + 1 on are in order, and none before them is
\* greater.
InOrderBehind(n) ==
    \A i, j \in 1..Len(data) : i < j /\ j > n => data[i] <= data[j]

\* What holds in the loop that makes a heap.
Building ==
    stage = "build" =>
        /\ heap_size \in 1..Len(data)
        /\ running \in {"none", "push"}
        /\ running = "none" => IsHeap(data, heap_size)
        /\ running = "push" => size = heap_size

\* What holds in the loop that takes it apart.
TakingApart ==
    stage = "take_apart" =>
        /\ heap_size \in 1..Len(data)
        /\ running \in {"none", "pop", "popped"}
        /\ running = "none" => IsHeap(data, heap_size) /\ InOrderBehind(heap_size)
        /\ running # "none" => size = heap_size + 1 /\ InOrderBehind(size)

Done == stage = "sorted" => running = "none" /\ InOrderBehind(0)

SortInv ==
    /\ HeapInv
    /\ input \in Seq(Value)
    /\ \A v : Cardinality(Positions(data, v)) = Cardinality(Positions(input, v))
    /\ stage \in {"build", "take_apart", "sorted"}
    /\ Building /\ TakingApart /\ Done

LEMMA SortInitKeeps == ASSUME SortConstants PROVE Sort!Init => SortInv
<1> SUFFICES ASSUME Sort!Init PROVE SortInv
  OBVIOUS
<1>1. /\ input \in Seq(Value) /\ data = input /\ Len(data) \in Nat
      /\ stage \in {"build", "sorted"} /\ (stage = "build" <=> Len(data) > 1)
      /\ running = "none" /\ size = 0 /\ parent = 0 /\ child = 0 /\ heap_size = 1
  BY LenProperties DEF Sort!Init, SortConstants, Sort!InputsAssumption
<1>2. IsHeap(data, 1)
  BY DEF IsHeap
<1>3. Len(data) <= 1 => InOrderBehind(0)
  BY <1>1 DEF InOrderBehind
<1>4. Building /\ TakingApart /\ Done
  BY <1>1, <1>2, <1>3 DEF Building, TakingApart, Done
<1> QED
  BY <1>1, <1>4 DEF SortInv, HeapInv, PushLoop, PopLoop, PopDone

LEMMA BuildKeeps == ASSUME SortConstants, SortInv, Sort!Build PROVE SortInv'
<1>1. /\ data \in Seq(Value) /\ Len(data) \in Nat
      /\ heap_size \in 1..Len(data) /\ heap_size + 1 \in 1..Len(data)
      /\ IsHeap(data, (heap_size + 1) - 1) /\ PushIntoHeap(data, heap_size + 1)
  BY SameHeap, LenProperties DEF SortInv, HeapInv, Building, Sort!Build, PushIntoHeap
<1>2. HeapInv'
  BY <1>1, PushStarts DEF SortInv, SortConstants
<1>3. (Building /\ TakingApart /\ Done)'
  BY <1>1 DEF Sort!Build, PushIntoHeap, Building, TakingApart, Done
<1> QED
  BY <1>1, <1>2, <1>3 DEF SortInv, Sort!Build, PushIntoHeap

LEMMA BuiltKeeps == ASSUME SortConstants, SortInv, Sort!Built PROVE SortInv'
<1>1. Len(data) \in Nat
  BY LenProperties DEF SortInv, HeapInv
<1>2. UNCHANGED <<data, running, size, parent, child, input, heap_size>>
  BY DEF Sort!Built, Sort!heapVars
<1>3. InOrderBehind(heap_size)
  BY <1>1 DEF InOrderBehind, Sort!Built
<1>4. (Building /\ TakingApart /\ Done)'
  BY <1>1, <1>2, <1>3 DEF SortInv, Sort!Built, Building, TakingApart, Done, InOrderBehind
<1> QED
  BY <1>2, <1>4 DEF SortInv, Sort!Built, HeapInv, PushLoop, PopLoop, PopDone

LEMMA TakeApartKeeps == ASSUME SortConstants, SortInv, Sort!TakeApart PROVE SortInv'
<1>1. /\ data \in Seq(Value) /\ Len(data) \in Nat
      /\ heap_size \in 1..Len(data) /\ heap_size > 1
      /\ IsHeap(data, heap_size) /\ InOrderBehind(heap_size) /\ PopFromHeap(heap_size)
  BY SameHeap, LenProperties DEF SortInv, HeapInv, TakingApart, Sort!TakeApart, PopFromHeap
<1>2. HeapInv' /\ data' = data /\ size' = heap_size
  BY <1>1, PopStarts DEF SortInv, SortConstants
<1>3. running' = "pop" /\ heap_size' = heap_size - 1 /\ UNCHANGED <<input, stage>>
  BY <1>1 DEF Sort!TakeApart, PopFromHeap
<1>4. InOrderBehind(size)'
  BY <1>1, <1>2 DEF InOrderBehind
<1>5. (Building /\ TakingApart /\ Done)'
  BY <1>1, <1>2, <1>3, <1>4 DEF Sort!TakeApart, Building, TakingApart, Done
<1> QED
  BY <1>2, <1>3, <1>5 DEF SortInv

LEMMA PoppedKeeps == ASSUME SortConstants, SortInv, Sort!Popped PROVE SortInv'
<1>1. /\ data \in Seq(Value) /\ Len(data) \in Nat /\ stage = "take_apart"
      /\ size \in 1..Len(data) /\ size = heap_size + 1 /\ heap_size \in 1..Len(data)
      /\ InOrderBehind(size)
      /\ IsHeap(data, heap_size)
      /\ \A i \in 0 .. size - 1 : At(data, size - 1) >= At(data, i)
  <2>1. stage = "take_apart" /\ running = "popped"
    BY DEF SortInv, Building, Done, Sort!Popped
  <2>2. /\ size = heap_size + 1 /\ heap_size \in 1..Len(data)
        /\ InOrderBehind(size) /\ data \in Seq(Value)
    BY <2>1 DEF SortInv, HeapInv, TakingApart
  <2>3. Len(data) \in Nat /\ size \in 1..Len(data)
    BY <2>1, <2>2, LenProperties DEF SortInv, HeapInv
  <2>4. /\ IsHeap(data, size - 1)
        /\ \A i \in 0 .. size - 1 : At(data, size - 1) >= At(data, i)
    BY <2>1 DEF SortInv, HeapInv, PopDone
  <2>5. size - 1 = heap_size
    BY <2>2, <2>3
  <2> QED
    BY <2>1, <2>2, <2>3, <2>4, <2>5
<1>2. \A i \in 1..Len(data) : data[i] \in Int
  BY <1>1, ElementOfSeq DEF SortConstants, ValueAssumption
<1>3. ASSUME NEW i \in 1..size PROVE data[i] <= data[size]
  <2>0. /\ i \in Int /\ size \in Int /\ i - 1 \in 0 .. size - 1
        /\ (i - 1) + 1 = i /\ (size - 1) + 1 = size
        /\ i \in 1..Len(data)
    BY <1>1
  <2>1. At(data, i - 1) = data[i] /\ At(data, size - 1) = data[size]
    BY <2>0 DEF At
  <2>2. data[i] \in Int /\ data[size] \in Int
    BY <1>1, <1>2, <2>0
  <2> QED
    BY <1>1, <2>0, <2>1, <2>2
<1>4. InOrderBehind(heap_size)
  <2> SUFFICES ASSUME NEW i \in 1..Len(data), NEW j \in 1..Len(data), i < j, j > heap_size
               PROVE  data[i] <= data[j]
    BY DEF InOrderBehind
  <2>1. CASE j = size
    <3>1. i \in 1..size
      BY <1>1, <2>1
    <3> QED
      BY <1>3, <2>1, <3>1
  <2>2. CASE j > size
    BY <1>1, <2>2 DEF InOrderBehind
  <2>3. size \in Int /\ heap_size \in Int /\ size = heap_size + 1 /\ j \in Int
    BY <1>1
  <2>4. j = size \/ j > size
    BY <2>3
  <2> QED
    BY <2>1, <2>2, <2>4
<1>5. running' = "none" /\ UNCHANGED <<data, size, parent, child, input, heap_size, stage>>
  BY DEF Sort!Popped
<1>6. (Building /\ TakingApart /\ Done)'
  BY <1>1, <1>4, <1>5 DEF Building, TakingApart, Done, InOrderBehind
<1> QED
  BY <1>5, <1>6 DEF SortInv, HeapInv, PushLoop, PopLoop, PopDone

LEMMA SortedKeeps == ASSUME SortConstants, SortInv, Sort!Sorted PROVE SortInv'
<1>1. Len(data) \in Nat
  BY LenProperties DEF SortInv, HeapInv
<1>2. /\ UNCHANGED <<data, running, size, parent, child, input, heap_size>>
      /\ running = "none" /\ stage' = "sorted"
  BY DEF Sort!Sorted, Sort!heapVars
<1>3. InOrderBehind(0)
  <2>1. heap_size = 1 /\ InOrderBehind(heap_size)
    BY <1>1 DEF SortInv, TakingApart, Sort!Sorted
  <2>2. \A i, j \in 1..Len(data) : i < j => j > 1
    BY <1>1
  <2> QED
    BY <2>1, <2>2 DEF InOrderBehind
<1>4. (Building /\ TakingApart /\ Done)'
  BY <1>2, <1>3 DEF Building, TakingApart, Done, InOrderBehind
<1> QED
  BY <1>2, <1>4 DEF SortInv, HeapInv, PushLoop, PopLoop, PopDone

LEMMA SortInHeapKeeps == ASSUME SortConstants, SortInv, Sort!InHeap PROVE SortInv'
<1>1. HeapInv /\ ValueAssumption /\ UNCHANGED <<input, heap_size, stage>>
  BY DEF SortInv, SortConstants, Sort!InHeap
<1>2. CASE MoveUp \/ MoveDown
  <2>1. /\ HeapInv' /\ size' = size /\ Exchanged
        /\ MoveUp => running = "push" /\ running' = "push"
        /\ MoveDown => running = "pop" /\ running' \in {"pop", "popped"}
    BY <1>1, <1>2, MoveUpKeeps, MoveDownKeeps DEF MoveUp, MoveDown
  <2>2. /\ data' \in Seq(Value) /\ Len(data') = Len(data)
        /\ \A v : Cardinality(Positions(data', v)) = Cardinality(Positions(data, v))
        /\ \A k \in 1..Len(data) : k > size => data'[k] = data[k]
        /\ \A k \in 1..size : \E l \in 1..size : data'[k] = data[l]
    BY <1>1, <1>2, <2>1, ExchangedKeeps
  <2>3. Len(data) \in Nat /\ size \in 1..Len(data)
    BY <1>2, <2>1, LenProperties DEF HeapInv, SortInv
  <2>4. InOrderBehind(size) => InOrderBehind(size)'
    <3> SUFFICES ASSUME InOrderBehind(size),
                        NEW i \in 1..Len(data), NEW j \in 1..Len(data), i < j, j > size
                 PROVE  data'[i] <= data'[j]
      BY <2>1, <2>2 DEF InOrderBehind
    <3>1. data'[j] = data[j]
      BY <2>2
    <3>2. CASE i > size
      BY <2>2, <3>1, <3>2 DEF InOrderBehind
    <3>3. CASE i <= size
      <4>1. PICK l \in 1..size : data'[i] = data[l]
        BY <2>2, <2>3, <3>3
      <4>2. l \in 1..Len(data) /\ l < j
        BY <2>3
      <4> QED
        BY <3>1, <4>1, <4>2 DEF InOrderBehind
    <3> QED
      BY <2>3, <3>2, <3>3
  <2>5. (Building /\ TakingApart /\ Done)'
    BY <1>1, <1>2, <2>1, <2>2, <2>4 DEF SortInv, Building, TakingApart, Done
  <2> QED
    BY <1>1, <2>1, <2>2, <2>5 DEF SortInv
<1>3. CASE PushReturns
  <2>1. /\ HeapInv' /\ running' = "none" /\ size' = size /\ data' = data
        /\ IsHeap(data, size) /\ running = "push"
    BY <1>1, <1>3, PushReturnsHeap DEF PushReturns
  <2>2. (Building /\ TakingApart /\ Done)'
    BY <1>1, <2>1 DEF SortInv, Building, TakingApart, Done
  <2> QED
    BY <1>1, <2>1, <2>2 DEF SortInv
<1> QED
  BY <1>2, <1>3, SameHeap DEF Sort!InHeap

LEMMA SortStepKeeps == ASSUME SortConstants, SortInv, [Sort!Next]_(Sort!sortVars) PROVE SortInv'
<1>1. CASE UNCHANGED Sort!sortVars
  BY <1>1 DEF Sort!sortVars, Sort!heapVars, SortInv, HeapInv, PushLoop, PopLoop, PopDone,
              Building, TakingApart, Done, InOrderBehind
<1> QED
  BY <1>1, BuildKeeps, BuiltKeeps, TakeApartKeeps, PoppedKeeps, SortedKeeps, SortInHeapKeeps
     DEF Sort!Next

LEMMA SortInvariance == ASSUME SortConstants PROVE Sort!Spec => []SortInv
<1>1. Sort!Init => SortInv
  BY SortInitKeeps
<1>2. SortInv /\ [Sort!Next]_(Sort!sortVars) => SortInv'
  BY SortStepKeeps
<1> QED
  BY <1>1, <1>2, PTL DEF Sort!Spec

\* heapsort() first makes a heap, then puts the greatest elements in order at
\* the end; the array always has the elements of the input, and is in order
\* when heapsort() is done.
THEOREM SortsAnyInput == ASSUME SortConstants PROVE Sort!Spec => []Sort!SortsItsInput
<1>1. SortInv => Sort!SortsItsInput
  <2> SUFFICES ASSUME SortInv PROVE Sort!SortsItsInput
    OBVIOUS
  <2>1. data \in Seq(Value) /\ DOMAIN data = 1..Len(data) /\ Len(data) \in Nat
    BY LenProperties DEF SortInv, HeapInv
  <2>2. running = "none" /\ stage # "sorted" => IsHeap(data, heap_size)
    BY DEF SortInv, Building, TakingApart
  <2>3. ASSUME running = "none", stage # "build",
               NEW i \in DOMAIN data, NEW j \in DOMAIN data,
               i < j, j > heap_size \/ stage = "sorted"
        PROVE  data[i] <= data[j]
    <3>1. i \in 1..Len(data) /\ j \in 1..Len(data) /\ j > 0
      BY <2>1
    <3>2. CASE stage = "sorted"
      <4>1. InOrderBehind(0)
        BY <3>2 DEF SortInv, Done
      <4> QED
        BY <2>3, <3>1, <4>1 DEF InOrderBehind
    <3>3. CASE stage = "take_apart"
      <4>1. InOrderBehind(heap_size) /\ j > heap_size
        BY <2>3, <3>3 DEF SortInv, TakingApart
      <4> QED
        BY <2>3, <3>1, <4>1 DEF InOrderBehind
    <3> QED
      BY <2>3, <3>2, <3>3 DEF SortInv
  <2>4. \A v \in Value : Sort!Copies(data, v) = Sort!Copies(input, v)
    <3>1. \A v : /\ Sort!Copies(data, v) = Cardinality(Positions(data, v))
                 /\ Sort!Copies(input, v) = Cardinality(Positions(input, v))
      BY DEF Sort!Copies, Positions, Sort!Cardinality, Cardinality
    <3> QED
      BY <3>1 DEF SortInv
  <2> QED
    BY <2>2, <2>3, <2>4, SameHeap DEF Sort!SortsItsInput
<1> QED
  BY <1>1, SortInvariance, PTL
=============================================================================
