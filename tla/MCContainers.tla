---------------------------- MODULE MCContainers ----------------------------
(***************************************************************************)
(* The lists, the reference-counted objects, the priority queue and         *)
(* heapsort(), each on its own: a behaviour is one of the component that    *)
(* the first state chooses, and its variables are the first of v1, v2...    *)
(***************************************************************************)
EXTENDS Integers, Sequences, FiniteSets, TLC

CONSTANTS Element, Objects, Singletons, Refs, MaxDepth, NULL,
          Number, QueueLength, SortLength

VARIABLES component, v1, v2, v3, v4, v5, v6, v7, v8

vars == <<component, v1, v2, v3, v4, v5, v6, v7, v8>>

List == INSTANCE LinkedList WITH
    first_element <- v1, last_element <- v2, next <- v3, list <- v4

Container == INSTANCE DoublyLinkedListContainer WITH
    first_element <- v1, last_element <- v2, next <- v3, prev <- v4, list <- v5,
    live <- v6

Ref == INSTANCE RefObject WITH
    refs <- v1, state <- v2, obj <- v3, loose <- v4, stack <- v5

\* A queue, and all arrays up to a length to sort.
Queue == INSTANCE PriorityQueue WITH
    Value <- Number, MaxLength <- QueueLength, None <- NULL,
    data <- v1, running <- v2, size <- v3, parent <- v4, child <- v5, returned <- v6

Arrays == UNION {[1..n -> Number] : n \in 0..SortLength}

Sort == INSTANCE HeapSort WITH
    Value <- Number, Inputs <- Arrays,
    data <- v1, running <- v2, size <- v3, parent <- v4, child <- v5,
    input <- v6, heap_size <- v7, stage <- v8

ASSUME ListAssumption  == List!ElementAssumption /\ Container!ElementAssumption
ASSUME RefAssumption   == Ref!RefObjectAssumption
ASSUME QueueAssumption == Queue!ValueAssumption /\ Queue!BoundAssumption /\ Queue!NoneAssumption
ASSUME SortAssumption  == Sort!ValueAssumption /\ SortLength \in Nat

\* Objects are alike. CallsReturn is about the queue, whose states have none.
ObjectSymmetry == Permutations(Objects \ Singletons)

After4 == <<v5, v6, v7, v8>>
After5 == <<v6, v7, v8>>
After6 == <<v7, v8>>

Unused6 == v7 = NULL /\ v8 = NULL
Unused5 == v6 = NULL /\ Unused6
Unused4 == v5 = NULL /\ Unused5

MCInit ==
    \/ component = "list" /\ List!Init /\ Unused4
    \/ component = "container" /\ Container!ContainerInit /\ Unused6
    \/ component = "ref" /\ Ref!Init /\ Unused5
    \/ component = "queue" /\ Queue!Init /\ Unused6
    \/ component = "sort" /\ Sort!Init

MCNext ==
    \/ component = "list" /\ List!Next /\ UNCHANGED <<component, After4>>
    \/ component = "container" /\ Container!ContainerNext /\ UNCHANGED <<component, After6>>
    \/ component = "ref" /\ Ref!Next /\ UNCHANGED <<component, After5>>
    \/ component = "queue" /\ Queue!Next /\ UNCHANGED <<component, After6>>
    \/ component = "sort" /\ Sort!Next /\ UNCHANGED component
    \/ component = "sort" /\ v8 = "sorted" /\ UNCHANGED vars    \* it has returned

\* A call of push() or pop() of the queue that is under way goes on.
QueueGoesOn ==
    /\ component = "queue" /\ (Queue!PopReturns \/ Queue!InHeap)
    /\ UNCHANGED <<component, After6>>

MCSpec == MCInit /\ [][MCNext]_vars /\ WF_vars(QueueGoesOn)

-----------------------------------------------------------------------------
(* The properties of the components, under their names there               *)

\* The links of both lists follow the list that the operations are meant to
\* produce, and the container's wrappers are the members of its list.
LinksFollowList ==
    /\ component = "list" => List!TypeOK /\ List!LinksFollowList
    /\ component = "container" =>
          Container!TypeOK /\ Container!LinksFollowList /\ Container!WrappersAreMembers

\* Objects that are not in the list, and may have been deleted, are not written
\* to; and only remove_first() and remove_last() leave an end open.
WritesMembersOnly ==
    [][/\ component = "list" => List!OutsidersUntouched
       /\ component = "container" => Container!OutsidersUntouched /\ Container!EndsStayClosed]_vars

\* The count of an object is the number of those that hold a reference to it.
RefsCountHolders == component = "ref" => Ref!RefsCountHolders

\* No ref that code can use leads to an object that has been deleted.
NoDanglingRef == component = "ref" => Ref!NoDanglingRef

\* The queue is a heap between the calls; the loops' invariants hold in them.
QueueIsHeap == component = "queue" => Queue!TypeOK /\ Queue!QueueIsHeap

\* The queue is a bag whose pop() returns the greatest value.
IsPriorityBag ==
    /\ component = "queue" => Queue!Promise!Init
    /\ [][component = "queue" => [Queue!Promise!Next]_<<Queue!Copies, v6>>]_vars

\* Every call of push() and pop() of the queue returns.
CallsReturn == (component = "queue" /\ v2 # "none") ~> (component = "queue" /\ v2 = "none")

\* heapsort() leaves the elements of its input in order.
SortsItsInput == component = "sort" => Sort!SortsItsInput
=============================================================================
