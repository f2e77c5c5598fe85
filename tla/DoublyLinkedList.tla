--------------------------- MODULE DoublyLinkedList ---------------------------
(* The intrusive doubly linked list of include/b/doubly_linked_list.h.  The  *)
(* class is derived from linked_list and inherits its members: the pointers  *)
(* to the ends, remove_first() and empty().  See LinkedList for the meaning  *)
(* of "list".                                                                *)
(*                                                                           *)
(* remove_first() leaves the link of the new first element to the removed    *)
(* one as it was, and remove_last() likewise at the other end.  Spec lets    *)
(* the user call any operation on any element; DoublyLinkedListContainer has *)
(* the users who call none that reads such a link.                           *)
EXTENDS Integers, Sequences, FiniteSets

CONSTANTS Element, NULL

\* What the constants have to be; the module that gives them values assumes it.
ElementAssumption == NULL \notin Element

VARIABLES first_element,
          last_element,
          next,             \* next_element of every object
          prev,             \* prev_element of every object
          list
dllVars == <<first_element, last_element, next, prev, list>>

Seqs == INSTANCE SequencesExt
Base == INSTANCE LinkedList

Pointer  == Element \cup {NULL}
Members  == Base!Members
Position(e) == Base!Position(e)
Without(e)  == Base!Without(e)

\* f with the pointer p, unless it is NULL, leading to q
Relinked(f, p, q) == IF p = NULL THEN f ELSE [f EXCEPT ![p] = q]

(***************************************************************************)
(* Insertion                                                               *)
(***************************************************************************)
InsertFirst(n) ==
    /\ n \notin Members
    /\ next' = [next EXCEPT ![n] = first_element]
    /\ prev' = Relinked([prev EXCEPT ![n] = NULL], first_element, n)
    /\ last_element' = IF first_element = NULL THEN n ELSE last_element
    /\ first_element' = n
    /\ list' = <<n>> \o list

AppendElement(n) ==
    /\ n \notin Members
    /\ next' = Relinked([next EXCEPT ![n] = NULL], last_element, n)
    /\ prev' = [prev EXCEPT ![n] = last_element]
    /\ first_element' = IF last_element = NULL THEN n ELSE first_element
    /\ last_element' = n
    /\ list' = Append(list, n)

InsertAfter(e, n) ==
    /\ e \in Members /\ n \notin Members
    /\ next' = [next EXCEPT ![e] = n, ![n] = next[e]]
    /\ \/ /\ e = last_element
          /\ last_element' = n
          /\ prev' = [prev EXCEPT ![n] = e]
       \/ /\ e # last_element
          /\ prev' = [prev EXCEPT ![next[e]] = n, ![n] = e]
          /\ UNCHANGED last_element
    /\ list' = Seqs!InsertAt(list, Position(e) + 1, n)
    /\ UNCHANGED first_element

InsertBefore(e, n) ==
    /\ e \in Members /\ n \notin Members
    /\ prev' = [prev EXCEPT ![e] = n, ![n] = prev[e]]
    /\ \/ /\ e = first_element
          /\ first_element' = n
          /\ next' = [next EXCEPT ![n] = e]
       \/ /\ e # first_element
          /\ next' = [next EXCEPT ![prev[e]] = n, ![n] = e]
          /\ UNCHANGED first_element
    /\ list' = Seqs!InsertAt(list, Position(e), n)
    /\ UNCHANGED last_element

(***************************************************************************)
(* Removal.  remove_first() and empty() are the inherited ones.            *)
(***************************************************************************)
RemoveFirst == Base!RemoveFirst /\ UNCHANGED prev

Empty == Base!Empty /\ UNCHANGED prev

RemoveLast ==
    /\ last_element # NULL
    /\ last_element' = prev[last_element]
    /\ first_element' = IF prev[last_element] = NULL THEN NULL ELSE first_element
    /\ list' = SubSeq(list, 1, Len(list) - 1)
    /\ UNCHANGED <<next, prev>>

\* The links of the neighbours of e made to pass e by
UnlinkedNext(e) == Relinked(next, prev[e], next[e])
UnlinkedPrev(e) == Relinked(prev, next[e], prev[e])

\* Mutant of Remove: the way back still leads through the removed element.
RemoveForward(e) ==
    /\ e \in Members
    /\ next' = UnlinkedNext(e)
    /\ first_element' = IF prev[e] = NULL THEN next[e] ELSE first_element
    /\ last_element' = IF next[e] = NULL THEN prev[e] ELSE last_element
    /\ list' = Without(e)
    /\ UNCHANGED prev

Remove(e) ==
    /\ e \in Members
    /\ next' = UnlinkedNext(e)
    /\ prev' = UnlinkedPrev(e)
    /\ first_element' = IF prev[e] = NULL THEN next[e] ELSE first_element
    /\ last_element' = IF next[e] = NULL THEN prev[e] ELSE last_element
    /\ list' = Without(e)

(***************************************************************************)
(* Moving                                                                  *)
(***************************************************************************)
MoveToFront(e) ==
    /\ e \in Members
    /\ prev[e] # NULL
    /\ next' = [UnlinkedNext(e) EXCEPT ![e] = first_element]
    /\ prev' = [UnlinkedPrev(e) EXCEPT ![e] = NULL, ![first_element] = e]
    /\ last_element' = IF next[e] = NULL THEN prev[e] ELSE last_element
    /\ first_element' = e
    /\ list' = <<e>> \o Without(e)

MoveToBack(e) ==
    /\ e \in Members
    /\ next[e] # NULL
    /\ prev' = [UnlinkedPrev(e) EXCEPT ![e] = last_element]
    /\ next' = [UnlinkedNext(e) EXCEPT ![e] = NULL, ![last_element] = e]
    /\ first_element' = IF prev[e] = NULL THEN next[e] ELSE first_element
    /\ last_element' = e
    /\ list' = Append(Without(e), e)

(***************************************************************************)
(* The specification                                                       *)
(***************************************************************************)
Init == Base!Init /\ prev \in [Element -> Pointer]

Insertion ==
    \E n \in Element :
        \/ InsertFirst(n)
        \/ AppendElement(n)
        \/ \E e \in Element : InsertAfter(e, n) \/ InsertBefore(e, n)

Next ==
    \/ Insertion
    \/ RemoveFirst
    \/ RemoveLast
    \/ Empty
    \/ \E e \in Element : Remove(e) \/ MoveToFront(e) \/ MoveToBack(e)

Spec == Init /\ [][Next]_dllVars

\* The outer links of the ends: NULL, until remove_first() or remove_last()
FirstIsClosed == first_element # NULL => prev[first_element] = NULL
LastIsClosed  == last_element # NULL => next[last_element] = NULL

\* The element e can be unlinked by what its links say.
Settled(e) == /\ e = first_element => FirstIsClosed
              /\ e = last_element => LastIsClosed

(***************************************************************************)
(* Properties                                                              *)
(***************************************************************************)
\* The variables have the types their declarations give them.
TypeOK == Base!TypeOK /\ prev \in [Element -> Pointer]

\* From the first element to the last, the links in the two directions agree
\* with each other and with the order the operations are meant to produce.
LinksFollowList ==
    LET n == Len(list)
    IN  /\ first_element = IF n = 0 THEN NULL ELSE list[1]
        /\ last_element = IF n = 0 THEN NULL ELSE list[n]
        /\ \A i \in 1 .. n - 1 : /\ next[list[i]] = list[i + 1]
                                 /\ prev[list[i + 1]] = list[i]
        /\ \A i, j \in 1..n : list[i] = list[j] => i = j

\* Objects that have left the list are not written to any more: their owner,
\* the container for one, may have deleted them.
OutsidersUntouched ==
    \A e \in Element : e \notin Members /\ e \notin Members'
        => next'[e] = next[e] /\ prev'[e] = prev[e]
WritesMembersOnly == [][OutsidersUntouched]_dllVars

\* No other operation opens an end of the list: where only remove(element) is
\* used to remove, both ends are NULL in every state.
EndsStayClosed ==
    /\ FirstIsClosed /\ ~RemoveFirst => FirstIsClosed'
    /\ LastIsClosed /\ ~RemoveLast => LastIsClosed'
OnlyEndRemovalsOpenEnds == [][EndsStayClosed]_dllVars

\* A walk in either direction of the "Bidirectional linked list" ends with NULL.
EndsAreClosed == FirstIsClosed /\ LastIsClosed
=============================================================================
