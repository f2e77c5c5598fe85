--------------------------------- MODULE Heap ---------------------------------
(* push_into_heap() and pop_from_heap() of include/b/heap.h, one iteration   *)
(* of their loops per step.  Each is called on the first "size" elements of  *)
(* an array; indices are those of the code, which start at 0 and yet make    *)
(* data[i >> 1] the parent of data[i]: the root has one child, data[1].      *)
EXTENDS Integers, Sequences

CONSTANT Value          \* the elements, numbers

\* What the constants have to be; the module that gives them values assumes it.
ValueAssumption == Value \subseteq Int

VARIABLES data,
          running,      \* the function that has been called: "none" of them,
                        \* "push" or "pop", or "popped": it is about to return
          size,         \* the argument of the call
          parent,       \* the local variables; in push_into_heap() the
          child         \* child is "size", which is counted down there
heapVars == <<data, running, size, parent, child>>

At(d, i) == d[i + 1]

Swapped(d, i, j) == [d EXCEPT ![i + 1] = At(d, j), ![j + 1] = At(d, i)]

Half(i) == i \div 2

(***************************************************************************)
(* push_into_heap(d, n)                                                    *)
(***************************************************************************)
PushIntoHeap(d, n) ==
    /\ running = "none" /\ n > 0
    /\ running' = "push"
    /\ data' = d
    /\ size' = n
    /\ child' = n - 1
    /\ UNCHANGED parent

\* Mutants of BelongsAbove: stops one level below the root; goes on at the root
\* and among equals.
BelongsAboveButRoot(d, i) == Half(i) > 0 /\ At(d, Half(i)) < At(d, i)
BelongsAboveOrBeside(d, i) == At(d, Half(i)) <= At(d, i)

BelongsAbove(d, i) == i > 0 /\ At(d, Half(i)) < At(d, i)

MoveUp ==
    /\ running = "push" /\ BelongsAbove(data, child)
    /\ data' = Swapped(data, Half(child), child)
    /\ child' = Half(child)
    /\ UNCHANGED <<running, size, parent>>

PushReturns ==
    /\ running = "push" /\ ~BelongsAbove(data, child)
    /\ running' = "none"
    /\ UNCHANGED <<data, size, parent, child>>

(***************************************************************************)
(* pop_from_heap(data, n)                                                  *)
(***************************************************************************)
PopFromHeap(n) ==
    /\ running = "none" /\ n > 0
    /\ running' = IF n > 1 THEN "pop" ELSE "popped"
    /\ size' = n
    /\ parent' = n - 1
    /\ child' = 0
    /\ UNCHANGED data

\* Mutant of MaxChild: always the left child.
LeftChild(d, i, n) == 2 * i

\* The index of the greater of the two children of i in d, or of the one
\* child; the last element of the heap has the index n - 2 by now.
MaxChild(d, i, n) ==
    LET left == 2 * i
    IN  IF left < n - 2 /\ At(d, left) < At(d, left + 1) THEN left + 1 ELSE left

MoveDown ==
    /\ running = "pop"
    /\ data' = Swapped(data, parent, child)
    /\ parent' = child
    /\ \/ /\ 2 * child > size - 2
          /\ child' = 2 * child
          /\ running' = "popped"
       \/ /\ 2 * child <= size - 2
          /\ child' = MaxChild(data', child, size)
          /\ running' = IF At(data', parent') < At(data', child') THEN "pop" ELSE "popped"
    /\ UNCHANGED size

(***************************************************************************)
(* Properties of the loops                                                 *)
(***************************************************************************)
\* The first n elements of d form a heap.
IsHeap(d, n) == \A i \in 1 .. n - 1 : At(d, Half(i)) >= At(d, i)

\* The heap property holds but above the element that is on its way up, and
\* the children of that one are not greater than its parent is.
PushLoop ==
    running = "push" =>
        /\ child \in 0 .. size - 1
        /\ \A i \in 1 .. size - 1 : i # child => At(data, Half(i)) >= At(data, i)
        /\ \A i \in 1 .. size - 1 :
              Half(i) = child => At(data, Half(child)) >= At(data, i)

\* At first, the root is to be exchanged with the last element.  From then on
\* the heap is shorter by one, and in order but between the element that is on
\* its way down and its children.  No index leaves the heap.
PopLoop ==
    running = "pop" =>
        \/ parent = size - 1 /\ child = 0 /\ IsHeap(data, size)
        \/ /\ parent \in 0 .. size - 2 /\ child \in 1 .. size - 2
           /\ Half(child) = parent /\ At(data, parent) < At(data, child)
           /\ \A i \in 1 .. size - 2 :
                 /\ Half(i) # parent => At(data, Half(i)) >= At(data, i)
                 /\ Half(i) = parent => At(data, child) >= At(data, i)
                 /\ Half(i) = parent /\ parent > 0
                       => At(data, Half(parent)) >= At(data, i)
           /\ \A i \in 0 .. size - 2 : At(data, size - 1) >= At(data, i)

\* When pop_from_heap() is done, the greatest element is at the end of the
\* array, and the others form a heap.
PopDone ==
    running = "popped" =>
        /\ IsHeap(data, size - 1)
        /\ \A i \in 0 .. size - 1 : At(data, size - 1) >= At(data, i)
=============================================================================
