------------------------------- MODULE SortedMap -------------------------------
(* The containers of include/b/set.h and include/b/map.h, on top of the      *)
(* binary search tree.  An element is a tree node that the container         *)
(* allocates; its key and its place in memory stay the same for as long as   *)
(* it is in the container, its value (a set's elements have none) may be     *)
(* overwritten.  The user keeps at most one search result, for insert_new(), *)
(* which is good until the next element is inserted or removed, and one      *)
(* iterator, which is good until the element it stands on is removed.        *)
EXTENDS BinarySearchTree

CONSTANT Value

VARIABLES value,                \* the values of the elements
          sr,                   \* the search_result kept by the user, or NULL
          iterator,             \* the element an iterator stands on, or NULL
          alive,                \* the container exists
          element_to_delete     \* where the destructor has got to
mapVars == <<treeVars, value, sr, iterator, alive, element_to_delete>>

Key == {KeyOf[n] : n \in Node}

\* What NULL has to be besides: not a key.
NullAssumption == NULL \notin Key

\* set_base::search(), whose result the user keeps
SearchFor(key) ==
    /\ alive
    /\ sr' = [key |-> key, found |-> Search(key)]
    /\ UNCHANGED <<treeVars, value, iterator, alive, element_to_delete>>

\* search_result::match()
IsMatch(found) == found.node # NULL /\ found.cmp = 0

\* set_base::insert_new() with a new element that "new" places anywhere
InsertElement(key, v, found) ==
    /\ ~IsMatch(found)
    /\ \E n \in Node \ Linked :
          /\ KeyOf[n] = key
          /\ InsertAfterSearch(n, found)
          /\ value' = [m \in Linked \cup {n} |-> IF m = n THEN v ELSE value[m]]
    /\ sr' = NULL
    /\ UNCHANGED <<iterator, alive, element_to_delete>>

InsertNew(v) == alive /\ sr # NULL /\ InsertElement(sr.key, v, sr.found)

\* Mutant of Overwrite: a new element is added next to the one that matches.
OverwriteBeside(key, v, found) ==
    \E n \in Node \ Linked :
        /\ KeyOf[n] = key
        /\ InsertAfterSearch(n, found)
        /\ value' = [m \in Linked \cup {n} |-> IF m = n THEN v ELSE value[m]]
        /\ sr' = NULL
        /\ UNCHANGED <<iterator, alive, element_to_delete>>

Overwrite(key, v, found) ==
    /\ IsMatch(found)
    /\ value' = [value EXCEPT ![found.node] = v]
    /\ UNCHANGED <<treeVars, sr, iterator, alive, element_to_delete>>

InsertKey(key, v) ==
    /\ alive
    /\ Overwrite(key, v, Search(key)) \/ InsertElement(key, v, Search(key))

RemoveKey(key) ==
    /\ alive
    /\ LET n == Find(key)
       IN  /\ n # NULL
           /\ RemoveNode(n)
           /\ value' = [m \in Linked \ {n} |-> value[m]]
           /\ iterator' = IF iterator = n THEN NULL ELSE iterator
    /\ sr' = NULL
    /\ UNCHANGED <<alive, element_to_delete>>

Begin ==
    /\ alive
    /\ iterator' = leftmost
    /\ UNCHANGED <<treeVars, value, sr, alive, element_to_delete>>

\* Mutant of Advance: an element without a right branch is followed by its parent.
AdvanceToParent ==
    /\ alive /\ iterator # NULL
    /\ iterator' = IF tree[iterator].right # NULL THEN LeftEnd(tree[iterator].right)
                   ELSE tree[iterator].parent
    /\ UNCHANGED <<treeVars, value, sr, alive, element_to_delete>>

Advance ==
    /\ alive /\ iterator # NULL
    /\ iterator' = NextNode(iterator)
    /\ UNCHANGED <<treeVars, value, sr, alive, element_to_delete>>

Retreat ==
    /\ alive /\ iterator # NULL
    /\ iterator' = PrevNode(iterator)
    /\ UNCHANGED <<treeVars, value, sr, alive, element_to_delete>>

Destroy ==
    /\ alive
    /\ alive' = FALSE /\ element_to_delete' = leftmost
    /\ iterator' = NULL /\ sr' = NULL
    /\ UNCHANGED <<treeVars, value>>

\* One turn of the destructor's loop, which fetches the next element before it
\* removes this one and so restructures the tree
DeleteNext ==
    /\ ~alive /\ element_to_delete # NULL
    /\ element_to_delete' = NextNode(element_to_delete)
    /\ RemoveNode(element_to_delete)
    /\ value' = [m \in Linked \ {element_to_delete} |-> value[m]]
    /\ UNCHANGED <<sr, iterator, alive>>

Construct ==
    /\ ~alive /\ element_to_delete = NULL
    /\ alive' = TRUE
    /\ tree' = [n \in {} |-> NULL]
    /\ root' = NULL /\ leftmost' = NULL /\ rightmost' = NULL /\ number_of_nodes' = 0
    /\ value' = [n \in {} |-> NULL]
    /\ UNCHANGED <<sr, iterator, element_to_delete>>

Init ==
    /\ TreeInit
    /\ value = [n \in {} |-> NULL]
    /\ sr = NULL /\ iterator = NULL /\ element_to_delete = NULL
    /\ alive = FALSE

Next ==
    \/ Construct
    \/ \E key \in Key : \/ SearchFor(key)
                        \/ RemoveKey(key)
                        \/ \E v \in Value : InsertKey(key, v)
    \/ \E v \in Value : InsertNew(v)
    \/ Begin
    \/ Advance
    \/ Retreat
    \/ Destroy
    \/ DeleteNext

Spec == Init /\ [][Next]_mapVars

(***************************************************************************)
(* Properties                                                              *)
(***************************************************************************)
\* Every element in the tree is one the container has allocated and not deleted,
\* and so are those that the iterator and the search result point at.
MapTypeOK ==
    /\ TypeOK
    /\ value \in [Linked -> Value]
    /\ sr # NULL => sr.found.node \in Pointer
    /\ {iterator, element_to_delete} \subseteq Pointer

\* "An associative array container with unique keys": insert() and insert_new()
\* never add a second element for a key.
UniqueKeys == \A m, n \in Linked : KeyOf[m] = KeyOf[n] => m = n

\* When the destructor has come to the end of its loop, no element is left.
NothingLeaks == (~alive /\ element_to_delete = NULL) => Linked = {} /\ number_of_nodes = 0

\* A map is sound: the three facts above.
MapIsSound == MapTypeOK /\ UniqueKeys /\ NothingLeaks

\* The container is a function from keys to values with an iterator over its keys.
Entries  == [k \in {KeyOf[n] : n \in Linked} |-> value[CHOOSE n \in Linked : KeyOf[n] = k]]
Position == IF iterator = NULL THEN NULL ELSE KeyOf[iterator]
Contents == INSTANCE OrderedMap WITH entries <- Entries, position <- Position
IsOrderedMap == Contents!Spec
=============================================================================
