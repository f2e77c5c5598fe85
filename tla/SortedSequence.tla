---------------------------- MODULE SortedSequence ----------------------------
(* What the binary search tree promises: the nodes in the order of their     *)
(* keys.  A node is inserted at a place that keeps the order (where exactly, *)
(* among nodes with the same key, is not promised), and removing one leaves  *)
(* the others in the order they were in.                                     *)
EXTENDS Integers, Sequences

CONSTANTS Node, KeyOf

VARIABLE nodes          \* the nodes in the tree, in order

Has(n) == \E i \in DOMAIN nodes : nodes[i] = n

IsSorted(s) == \A i, j \in DOMAIN s : i < j => KeyOf[s[i]] <= KeyOf[s[j]]

Insert(n) ==
    /\ ~Has(n)
    /\ \E i \in 0..Len(nodes) :
          nodes' = SubSeq(nodes, 1, i) \o <<n>> \o SubSeq(nodes, i + 1, Len(nodes))
    /\ IsSorted(nodes')

Remove(n) ==
    \E i \in DOMAIN nodes :
        /\ nodes[i] = n
        /\ nodes' = SubSeq(nodes, 1, i - 1) \o SubSeq(nodes, i + 1, Len(nodes))

Init == nodes = << >>

Next == \E n \in Node : Insert(n) \/ Remove(n)

Spec == Init /\ [][Next]_nodes
=============================================================================
