----------------------- MODULE DoublyLinkedListContainer -----------------------
(* doubly_linked_list_container of include/b/doubly_linked_list_container.h: *)
(* a DoublyLinkedList of wrappers that the container allocates and deletes.  *)
(* An Element is here the address of a wrapper; a deleted one can be handed  *)
(* out again.                                                                *)
(*                                                                           *)
(* The users of this module are careful: after remove_first(), they take out *)
(* the first element by remove_first() only and do not move it, until they   *)
(* have inserted another before it; and likewise at the other end.           *)
EXTENDS DoublyLinkedList

VARIABLE live               \* the addresses of the wrappers not yet deleted
containerVars == <<dllVars, live>>

Allocate(n) == n \notin live /\ live' = live \cup {n}
Delete(e)   == live' = live \ {e}

ContainerInsertFirst == \E n \in Element : Allocate(n) /\ InsertFirst(n)

ContainerAppend == \E n \in Element : Allocate(n) /\ AppendElement(n)

ContainerInsertAfter(e) == \E n \in Element : Allocate(n) /\ InsertAfter(e, n)

ContainerInsertBefore(e) == \E n \in Element : Allocate(n) /\ InsertBefore(e, n)

ContainerRemoveFirst ==
    /\ first_element = last_element => LastIsClosed
    /\ RemoveFirst
    /\ Delete(first_element)

ContainerRemoveLast ==
    /\ first_element = last_element => FirstIsClosed
    /\ RemoveLast
    /\ Delete(last_element)

ContainerRemove(e) == Settled(e) /\ Remove(e) /\ Delete(e)

\* The wrappers from the first one to the one whose link is NULL: the least set
\* that has the first one and is closed under the links
Chain ==
    LET IsClosed(S) == \A p \in {first_element} \cup {next[e] : e \in S} : p \in S \cup {NULL}
    IN  {e \in Element : \A S \in SUBSET Element : IsClosed(S) => e \in S}

ContainerEmpty == LastIsClosed /\ Empty /\ live' = live \ Chain

ContainerMoveToFront(e) == Settled(e) /\ MoveToFront(e) /\ UNCHANGED live

ContainerMoveToBack(e) == Settled(e) /\ MoveToBack(e) /\ UNCHANGED live

ContainerInit == Init /\ live = {}

ContainerNext ==
    \/ ContainerInsertFirst
    \/ ContainerAppend
    \/ ContainerRemoveFirst
    \/ ContainerRemoveLast
    \/ ContainerEmpty
    \/ \E e \in Element :
          \/ ContainerInsertAfter(e)
          \/ ContainerInsertBefore(e)
          \/ ContainerRemove(e)
          \/ ContainerMoveToFront(e)
          \/ ContainerMoveToBack(e)

ContainerSpec == ContainerInit /\ [][ContainerNext]_containerVars

(***************************************************************************)
(* Properties                                                              *)
(***************************************************************************)
\* The wrappers that exist are those in the list: none is deleted while the
\* list leads to it, and none is left behind when its element is removed.
WrappersAreMembers == live = Members
================================================================================
