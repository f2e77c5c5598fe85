------------------------------- MODULE HeapSort -------------------------------
(* heapsort() of include/b/heap.h: it makes a heap of the array, one element *)
(* more at a time, and takes it apart again, by calls of the two functions   *)
(* of Heap.                                                                  *)
EXTENDS Heap, FiniteSets

CONSTANT Inputs         \* the arrays to sort

\* What the constants have to be; the module that gives them values assumes it.
InputsAssumption == Inputs \subseteq Seq(Value)

VARIABLES input,        \* the array as it was given
          heap_size,
          stage         \* the loop: "build" or "take_apart", or "sorted"
sortVars == <<heapVars, input, heap_size, stage>>

Init ==
    /\ input \in Inputs /\ data = input
    /\ running = "none" /\ size = 0 /\ parent = 0 /\ child = 0
    /\ heap_size = 1
    /\ stage = IF Len(input) > 1 THEN "build" ELSE "sorted"

Build ==
    /\ stage = "build" /\ heap_size < Len(data)
    /\ PushIntoHeap(data, heap_size + 1)
    /\ heap_size' = heap_size + 1
    /\ UNCHANGED <<input, stage>>

Built ==
    /\ stage = "build" /\ running = "none" /\ heap_size = Len(data)
    /\ stage' = "take_apart"
    /\ UNCHANGED <<heapVars, input, heap_size>>

TakeApart ==
    /\ stage = "take_apart" /\ heap_size > 1
    /\ PopFromHeap(heap_size)
    /\ heap_size' = heap_size - 1
    /\ UNCHANGED <<input, stage>>

\* pop_from_heap() returns.
Popped ==
    /\ running = "popped"
    /\ running' = "none"
    /\ UNCHANGED <<data, size, parent, child, input, heap_size, stage>>

\* Mutant of Sorted: the last two elements are left as they are.
SortedEarly ==
    /\ stage = "take_apart" /\ running = "none" /\ heap_size <= 2
    /\ stage' = "sorted"
    /\ UNCHANGED <<heapVars, input, heap_size>>

Sorted ==
    /\ stage = "take_apart" /\ running = "none" /\ heap_size <= 1
    /\ stage' = "sorted"
    /\ UNCHANGED <<heapVars, input, heap_size>>

InHeap == (MoveUp \/ PushReturns \/ MoveDown) /\ UNCHANGED <<input, heap_size, stage>>

Next == Build \/ Built \/ TakeApart \/ Popped \/ Sorted \/ InHeap

Spec == Init /\ [][Next]_sortVars

(***************************************************************************)
(* Properties                                                              *)
(***************************************************************************)
Copies(d, v) == Cardinality({i \in DOMAIN d : d[i] = v})

\* Where heapsort() has got to: a heap, then the greatest elements in order;
\* and in the end the elements of the input, each as often as there, in order.
SortsItsInput ==
    /\ running = "none" /\ stage # "sorted" => IsHeap(data, heap_size)
    /\ running = "none" /\ stage # "build" =>
          \A i, j \in DOMAIN data :
              i < j /\ (j > heap_size \/ stage = "sorted") => data[i] <= data[j]
    /\ \A v \in Value : Copies(data, v) = Copies(input, v)
===============================================================================
