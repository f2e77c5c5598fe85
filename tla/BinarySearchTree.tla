--------------------------- MODULE BinarySearchTree ---------------------------
(* The non-balancing binary search tree of include/b/binary_tree.h and       *)
(* src/binary_search_tree.cc, on which b::set and b::map are built.          *)
(*                                                                           *)
(* The nodes belong to the user; each has a key that never changes.  A node  *)
(* is linked by three pointers; the tree points at its root and at the first *)
(* and the last node in order, and counts the nodes.  Nodes with equal keys  *)
(* are allowed.  Loops along a chain of pointers are recursive functions.    *)
EXTENDS Integers, Sequences, FiniteSets

CONSTANTS Node,         \* the binary_tree_node objects of the program
          KeyOf,        \* the key of each of them, a number
          NULL

\* What the constants have to be; the module that gives them values assumes it.
NodeAssumption == IsFiniteSet(Node) /\ NULL \notin Node
KeyAssumption  == KeyOf \in [Node -> Int]

VARIABLES tree,             \* parent, left and right of the nodes in the tree
          root,
          leftmost,
          rightmost,
          number_of_nodes
treeVars == <<tree, root, leftmost, rightmost, number_of_nodes>>

Linked  == DOMAIN tree
Pointer == Linked \cup {NULL}
Links   == [parent : Pointer, left : Pointer, right : Pointer]

(***************************************************************************)
(* Searching and walking                                                   *)
(***************************************************************************)
Find(key) ==
    LET found[n \in Pointer] ==
            IF n = NULL THEN NULL
            ELSE IF key < KeyOf[n] THEN found[tree[n].left]
            ELSE IF KeyOf[n] < key THEN found[tree[n].right]
            ELSE n
    IN  found[root]

\* The node at which the search ends, and how the key compares to the node's
Search(key) ==
    LET end[n \in Linked] ==
            IF key < KeyOf[n]
            THEN IF tree[n].left # NULL THEN end[tree[n].left] ELSE [node |-> n, cmp |-> -1]
            ELSE IF KeyOf[n] < key
            THEN IF tree[n].right # NULL THEN end[tree[n].right] ELSE [node |-> n, cmp |-> 1]
            ELSE [node |-> n, cmp |-> 0]
    IN  IF root = NULL THEN [node |-> NULL, cmp |-> 0] ELSE end[root]

LeftEnd(n) ==
    LET end[m \in Linked] == IF tree[m].left = NULL THEN m ELSE end[tree[m].left]
    IN  end[n]

RightEnd(n) ==
    LET end[m \in Linked] == IF tree[m].right = NULL THEN m ELSE end[tree[m].right]
    IN  end[n]

\* binary_tree_node::next(): the first node of the right branch, or the first
\* ancestor that has this one in its left branch
NextNode(n) ==
    LET above[m \in Linked] ==
            LET p == tree[m].parent
            IN  IF p # NULL /\ tree[p].right = m THEN above[p] ELSE p
    IN  IF tree[n].right # NULL THEN LeftEnd(tree[n].right) ELSE above[n]

PrevNode(n) ==
    LET above[m \in Linked] ==
            LET p == tree[m].parent
            IN  IF p # NULL /\ tree[p].left = m THEN above[p] ELSE p
    IN  IF tree[n].left # NULL THEN RightEnd(tree[n].left) ELSE above[n]

(***************************************************************************)
(* Insertion                                                               *)
(***************************************************************************)
\* The tree with node n, without children, under parent p
Leaf(t, n, p) ==
    [m \in DOMAIN t \cup {n} |->
        IF m = n THEN [parent |-> p, left |-> NULL, right |-> NULL] ELSE t[m]]

InsertRoot(n) ==
    /\ tree' = Leaf(tree, n, NULL)
    /\ root' = n /\ leftmost' = n /\ rightmost' = n

InsertLeft(n, p) ==
    /\ tree' = Leaf([tree EXCEPT ![p].left = n], n, p)
    /\ leftmost' = IF leftmost = p THEN n ELSE leftmost
    /\ UNCHANGED <<root, rightmost>>

InsertRight(n, p) ==
    /\ tree' = Leaf([tree EXCEPT ![p].right = n], n, p)
    /\ rightmost' = IF rightmost = p THEN n ELSE rightmost
    /\ UNCHANGED <<root, leftmost>>

\* Mutant of InsertNext: n comes after the whole of the right branch of p.
InsertPastBranch(n, p) ==
    /\ LET q == RightEnd(tree[p].right)
       IN  /\ tree' = Leaf([tree EXCEPT ![q].right = n], n, q)
           /\ rightmost' = IF rightmost = q THEN n ELSE rightmost
    /\ UNCHANGED <<root, leftmost>>

\* n has the key of p, which has a right branch: n becomes the first node there.
InsertNext(n, p) ==
    /\ LET q == LeftEnd(tree[p].right)
       IN  tree' = Leaf([tree EXCEPT ![q].left = n], n, q)
    /\ UNCHANGED <<root, leftmost, rightmost>>

\* found is what Search returned.
InsertAfterSearch(n, found) ==
    /\ LET p == found.node
       IN  \/ p = NULL /\ InsertRoot(n)
           \/ p # NULL /\ found.cmp < 0 /\ InsertLeft(n, p)
           \/ p # NULL /\ found.cmp > 0 /\ InsertRight(n, p)
           \/ p # NULL /\ found.cmp = 0 /\ tree[p].right = NULL /\ InsertRight(n, p)
           \/ p # NULL /\ found.cmp = 0 /\ tree[p].right # NULL /\ InsertNext(n, p)
    /\ number_of_nodes' = number_of_nodes + 1

Insert(n) == n \in Node \ Linked /\ InsertAfterSearch(n, Search(KeyOf[n]))

(***************************************************************************)
(* Removal.  Each case of remove() ends by putting another node, or NULL,  *)
(* in the place of n; t is the tree with all other links already changed.  *)
(***************************************************************************)
\* update_parent() and the removal of n itself
PutInPlace(t, n, child) ==
    /\ LET p == tree[n].parent
           linked == IF p = NULL THEN t
                     ELSE IF t[p].left = n THEN [t EXCEPT ![p].left = child]
                     ELSE [t EXCEPT ![p].right = child]
       IN  /\ tree' = [m \in DOMAIN linked \ {n} |-> linked[m]]
           /\ root' = IF p = NULL THEN child ELSE root

RemoveLeaf(n) ==
    LET p == tree[n].parent
    IN  /\ tree[n].right = NULL /\ tree[n].left = NULL
        /\ PutInPlace(tree, n, NULL)
        /\ leftmost' = IF p = NULL \/ (tree[p].left = n /\ leftmost = n) THEN p ELSE leftmost
        /\ rightmost' = IF p = NULL \/ (tree[p].left # n /\ rightmost = n) THEN p ELSE rightmost

RemoveWithoutRight(n) ==
    LET l == tree[n].left
    IN  /\ tree[n].right = NULL /\ l # NULL
        /\ PutInPlace([tree EXCEPT ![l].parent = tree[n].parent], n, l)
        /\ rightmost' = IF rightmost = n THEN RightEnd(l) ELSE rightmost
        /\ UNCHANGED leftmost

RemoveWithoutLeft(n) ==
    LET r == tree[n].right
    IN  /\ tree[n].left = NULL /\ r # NULL
        /\ PutInPlace([tree EXCEPT ![r].parent = tree[n].parent], n, r)
        /\ leftmost' = IF leftmost = n THEN LeftEnd(r) ELSE leftmost
        /\ UNCHANGED rightmost

\* The left child, which has no right child, takes over the right branch.
RaiseLeftChild(n) ==
    LET l == tree[n].left
        r == tree[n].right
    IN  /\ l # NULL /\ r # NULL /\ tree[l].right = NULL
        /\ PutInPlace([tree EXCEPT ![l].right = r, ![r].parent = l,
                                   ![l].parent = tree[n].parent], n, l)
        /\ rightmost' = IF rightmost = n THEN l ELSE rightmost
        /\ UNCHANGED leftmost

\* The right child, which has no left child, takes over the left branch.
RaiseRightChild(n) ==
    LET l == tree[n].left
        r == tree[n].right
    IN  /\ l # NULL /\ r # NULL /\ tree[l].right # NULL /\ tree[r].left = NULL
        /\ PutInPlace([tree EXCEPT ![r].left = l, ![l].parent = r,
                                   ![r].parent = tree[n].parent], n, r)
        /\ leftmost' = IF leftmost = n THEN r ELSE leftmost
        /\ UNCHANGED rightmost

\* Mutant of RaiseSuccessor: the successor's right branch keeps its old parent.
RaiseSuccessorOnly(n) ==
    LET l == tree[n].left
        r == tree[n].right
    IN  /\ l # NULL /\ r # NULL /\ tree[l].right # NULL /\ tree[r].left # NULL
        /\ LET s == LeftEnd(tree[r].left)
               q == tree[s].parent
               c == tree[s].right
           IN  PutInPlace([tree EXCEPT ![q].left = c,
                                       ![s].left = l, ![l].parent = s,
                                       ![s].right = r, ![r].parent = s,
                                       ![s].parent = tree[n].parent], n, s)
        /\ UNCHANGED <<leftmost, rightmost>>

\* The successor is taken out of the right branch and substituted for n.
RaiseSuccessor(n) ==
    LET l == tree[n].left
        r == tree[n].right
    IN  /\ l # NULL /\ r # NULL /\ tree[l].right # NULL /\ tree[r].left # NULL
        /\ LET s == LeftEnd(tree[r].left)
               q == tree[s].parent
               c == tree[s].right
               t == [tree EXCEPT ![q].left = c]
               u == IF c = NULL THEN t ELSE [t EXCEPT ![c].parent = q]
           IN  PutInPlace([u EXCEPT ![s].left = l, ![l].parent = s,
                                    ![s].right = r, ![r].parent = s,
                                    ![s].parent = tree[n].parent], n, s)
        /\ UNCHANGED <<leftmost, rightmost>>

RemoveNode(n) ==
    /\ \/ RemoveLeaf(n)
       \/ RemoveWithoutRight(n)
       \/ RemoveWithoutLeft(n)
       \/ RaiseLeftChild(n)
       \/ RaiseRightChild(n)
       \/ RaiseSuccessor(n)
    /\ number_of_nodes' = number_of_nodes - 1

Remove(n) == n \in Linked /\ RemoveNode(n)

(***************************************************************************)
(* The specification                                                       *)
(***************************************************************************)
TreeInit ==
    /\ tree = [n \in {} |-> NULL]
    /\ root = NULL /\ leftmost = NULL /\ rightmost = NULL
    /\ number_of_nodes = 0

TreeNext == \E n \in Node : Insert(n) \/ Remove(n)

TreeSpec == TreeInit /\ [][TreeNext]_treeVars

(***************************************************************************)
(* Properties                                                              *)
(***************************************************************************)
\* What an inorder walk by recursion over the children sees
InOrder ==
    LET walk[n \in Pointer] ==
            IF n = NULL THEN << >> ELSE walk[tree[n].left] \o <<n>> \o walk[tree[n].right]
    IN  walk[root]

\* No pointer, in a node or in the tree, leads to a node that was removed.
TypeOK ==
    /\ Linked \subseteq Node
    /\ \A n \in Linked : tree[n] \in Links
    /\ {root, leftmost, rightmost} \subseteq Pointer
    /\ number_of_nodes \in Nat

\* Up and down agree: the children of a node, and no other nodes, have it as
\* their parent.  This is what next() and prev() climb along, and what every
\* case of remove() has to mend in up to six places.
LinksAgree ==
    /\ root = NULL <=> Linked = {}
    /\ \A n \in Linked :
          LET p == tree[n].parent
          IN  /\ p = NULL <=> n = root
              /\ p # NULL => (tree[p].left = n \/ tree[p].right = n)
              /\ \A c \in {tree[n].left, tree[n].right} \ {NULL} : tree[c].parent = n
              /\ tree[n].left = tree[n].right => tree[n].left = NULL

\* Every node is reached from the root, once; their number is number_of_nodes.
AllReached ==
    /\ Len(InOrder) = number_of_nodes
    /\ {InOrder[i] : i \in DOMAIN InOrder} = Linked
    /\ Cardinality(Linked) = number_of_nodes

\* Iteration from leftmost by next(), and from rightmost by prev(), visits the
\* nodes in order, wherever the tree has been restructured.
IterationInOrder ==
    LET s == InOrder
    IN  /\ leftmost = IF s = << >> THEN NULL ELSE s[1]
        /\ rightmost = IF s = << >> THEN NULL ELSE s[Len(s)]
        /\ \A i \in DOMAIN s :
              /\ NextNode(s[i]) = IF i = Len(s) THEN NULL ELSE s[i + 1]
              /\ PrevNode(s[i]) = IF i = 1 THEN NULL ELSE s[i - 1]

\* find() finds a key if it is there, also among nodes with equal keys, which
\* after removals can be on either side of each other.
FindsKeys ==
    \A key \in {KeyOf[n] : n \in Node} :
        LET n == Find(key)
        IN  IF \E m \in Linked : KeyOf[m] = key THEN n # NULL /\ KeyOf[n] = key ELSE n = NULL

\* The tree is sound: the five facts above.
TreeIsSound == TypeOK /\ LinksAgree /\ AllReached /\ IterationInOrder /\ FindsKeys

\* The tree is a sequence sorted by key.
Order == INSTANCE SortedSequence WITH nodes <- InOrder
SortedByKey == Order!Spec
=============================================================================
