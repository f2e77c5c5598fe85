----------------------------- MODULE PriorityBag -----------------------------
(* What b::priority_queue promises: a bag of values, of which pop() takes    *)
(* and returns the greatest.                                                 *)
EXTENDS Integers

CONSTANT Value

VARIABLES copies,       \* how many copies of each value are in the queue
          returned      \* the result of the latest pop()

IsIn(v) == copies[v] > 0

Push(v) == copies' = [copies EXCEPT ![v] = @ + 1] /\ UNCHANGED returned

Pop == \E v \in Value :
          /\ IsIn(v)
          /\ \A w \in Value : IsIn(w) => w <= v
          /\ copies' = [copies EXCEPT ![v] = @ - 1]
          /\ returned' = v

Init == /\ copies = [v \in Value |-> 0]
        /\ returned \notin Value

Next == Pop \/ \E v \in Value : Push(v)

Spec == Init /\ [][Next]_<<copies, returned>>
=============================================================================
