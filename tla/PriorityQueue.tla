---------------------------- MODULE PriorityQueue ----------------------------
(* The class b::priority_queue of include/b/priority_queue.h: an array that  *)
(* is kept in the order of a heap.  A call of push() or pop() starts when    *)
(* none is under way.                                                        *)
EXTENDS Heap, FiniteSets

CONSTANTS MaxLength,    \* bound: length of the queue
          None          \* pop() has not been called yet

\* What the constants have to be; the module that gives them values assumes it.
BoundAssumption == MaxLength \in Nat
NoneAssumption  == None \notin Value

VARIABLE returned       \* the result of the latest pop()
queueVars == <<heapVars, returned>>

Push(v) ==
    /\ Len(data) < MaxLength
    /\ PushIntoHeap(Append(data, v), Len(data) + 1)
    /\ UNCHANGED returned

Pop == PopFromHeap(Len(data)) /\ UNCHANGED returned

PopReturns ==
    /\ running = "popped"
    /\ returned' = At(data, size - 1)
    /\ data' = SubSeq(data, 1, size - 1)
    /\ running' = "none"
    /\ UNCHANGED <<size, parent, child>>

InHeap == (MoveUp \/ PushReturns \/ MoveDown) /\ UNCHANGED returned

Init ==
    /\ data = << >>
    /\ running = "none"
    /\ size = 0 /\ parent = 0 /\ child = 0
    /\ returned = None

Next == Pop \/ PopReturns \/ InHeap \/ \E v \in Value : Push(v)

\* A function that has been called runs until it returns.
Spec == /\ Init
        /\ [][Next]_queueVars
        /\ WF_queueVars(PopReturns \/ InHeap)

(***************************************************************************)
(* Properties                                                              *)
(***************************************************************************)
\* The variables have the types their declarations give them.
TypeOK ==
    /\ data \in Seq(Value) /\ Len(data) <= MaxLength
    /\ running \in {"none", "push", "pop", "popped"}
    /\ size \in 0..MaxLength
    /\ parent \in Nat /\ child \in Nat
    /\ returned \in Value \cup {None}

\* Between the calls the array is a heap; during them, the loops' invariants
\* hold, and the call works on the whole array.
QueueIsHeap ==
    /\ running = "none" => IsHeap(data, Len(data))
    /\ running # "none" => size = Len(data)
    /\ PushLoop /\ PopLoop /\ PopDone

\* The queue keeps every value that has been pushed and not popped, in as many
\* copies, through all exchanges, and pop() returns the greatest of them.
Copies == [v \in Value |-> Cardinality({i \in DOMAIN data : data[i] = v})]
Promise == INSTANCE PriorityBag WITH copies <- Copies
IsPriorityBag == Promise!Spec

\* Every call of push() and pop() returns.
CallsReturn == running # "none" ~> running = "none"
=============================================================================
