------------------------------ MODULE LinkedList ------------------------------
(* The intrusive singly linked list of include/b/linked_list.h.              *)
(*                                                                           *)
(* The elements belong to the user and carry their links in themselves, so   *)
(* an element outside of the list still has a link: the one it had when it   *)
(* was taken out, or an uninitialized one.  The list follows the links       *)
(* without ever comparing them with what the user believes is in it; that    *)
(* belief is the variable "list".                                            *)
EXTENDS Integers, Sequences, FiniteSets

CONSTANTS Element,      \* the objects that can be strung together
          NULL

\* What the constants have to be; the module that gives them values assumes it.
ElementAssumption == NULL \notin Element

VARIABLES first_element,
          last_element,
          next,             \* next_element of every object
          list              \* the sequence that the operations called so far
                            \* are meant to have produced
listVars == <<first_element, last_element, next, list>>

Seqs == INSTANCE SequencesExt

Pointer == Element \cup {NULL}
Members == {list[i] : i \in DOMAIN list}

Position(e) == CHOOSE i \in DOMAIN list : list[i] = e
Without(e)  == Seqs!RemoveAt(list, Position(e))

(***************************************************************************)
(* The operations.  The user inserts objects that are not in the list and  *)
(* passes elements that are.                                               *)
(***************************************************************************)
InsertFirst(n) ==
    /\ n \notin Members
    /\ next' = [next EXCEPT ![n] = first_element]
    /\ first_element' = n
    /\ last_element' = IF last_element = NULL THEN n ELSE last_element
    /\ list' = <<n>> \o list

\* Mutant of AppendElement: the link of the new element is left as it was.
AppendUnterminated(n) ==
    /\ n \notin Members
    /\ \/ /\ last_element # NULL
          /\ next' = [next EXCEPT ![last_element] = n]
          /\ UNCHANGED first_element
       \/ /\ last_element = NULL
          /\ first_element' = n
          /\ UNCHANGED next
    /\ last_element' = n
    /\ list' = Append(list, n)

AppendElement(n) ==
    /\ n \notin Members
    /\ \/ /\ last_element # NULL
          /\ next' = [next EXCEPT ![n] = NULL, ![last_element] = n]
          /\ UNCHANGED first_element
       \/ /\ last_element = NULL
          /\ next' = [next EXCEPT ![n] = NULL]
          /\ first_element' = n
    /\ last_element' = n
    /\ list' = Append(list, n)

InsertAfter(e, n) ==
    /\ e \in Members /\ n \notin Members
    /\ last_element' = IF e = last_element THEN n ELSE last_element
    /\ next' = [next EXCEPT ![n] = next[e], ![e] = n]
    /\ list' = Seqs!InsertAt(list, Position(e) + 1, n)
    /\ UNCHANGED first_element

RemoveFirst ==
    /\ first_element # NULL
    /\ first_element' = next[first_element]
    /\ last_element' = IF next[first_element] = NULL THEN NULL ELSE last_element
    /\ list' = Tail(list)
    /\ UNCHANGED next

\* The assertion of the operations that are given an element's predecessor,
\* which the user takes from the list.
IsPrevious(p, e) ==
    /\ first_element # NULL
    /\ p \in Members \cup {NULL}
    /\ e \in Members
    /\ e = IF p = NULL THEN first_element ELSE next[p]

\* Unlinks e, which is not the first element, from its predecessor p
Bypass(p, e) == [next EXCEPT ![p] = next[e]]

Remove(e, p) ==
    /\ IsPrevious(p, e)
    /\ \/ p # NULL /\ next' = Bypass(p, e) /\ UNCHANGED first_element
       \/ p = NULL /\ first_element' = next[e] /\ UNCHANGED next
    /\ last_element' = IF next[e] = NULL THEN p ELSE last_element
    /\ list' = Without(e)

Empty ==
    /\ first_element' = NULL
    /\ last_element' = NULL
    /\ list' = << >>
    /\ UNCHANGED next

MoveToFront(e, p) ==
    /\ IsPrevious(p, e)
    /\ p # NULL
    /\ last_element' = IF next[e] = NULL THEN p ELSE last_element
    /\ next' = [Bypass(p, e) EXCEPT ![e] = first_element]
    /\ first_element' = e
    /\ list' = <<e>> \o Without(e)

MoveToBack(e, p) ==
    /\ IsPrevious(p, e)
    /\ next[e] # NULL
    /\ \/ /\ p # NULL
          /\ next' = [Bypass(p, e) EXCEPT ![e] = NULL, ![last_element] = e]
          /\ UNCHANGED first_element
       \/ /\ p = NULL
          /\ next' = [next EXCEPT ![e] = NULL, ![last_element] = e]
          /\ first_element' = next[e]
    /\ last_element' = e
    /\ list' = Append(Without(e), e)

(***************************************************************************)
(* The specification                                                       *)
(***************************************************************************)
Init ==
    /\ first_element = NULL
    /\ last_element = NULL
    /\ next \in [Element -> Pointer]
    /\ list = << >>

Next ==
    \/ RemoveFirst
    \/ Empty
    \/ \E n \in Element : InsertFirst(n) \/ AppendElement(n)
    \/ \E e, n \in Element : InsertAfter(e, n)
    \/ \E e \in Element, p \in Pointer :
          Remove(e, p) \/ MoveToFront(e, p) \/ MoveToBack(e, p)

Spec == Init /\ [][Next]_listVars

(***************************************************************************)
(* Properties                                                              *)
(***************************************************************************)
\* The variables have the types their declarations give them.
TypeOK ==
    /\ first_element \in Pointer
    /\ last_element \in Pointer
    /\ next \in [Element -> Pointer]
    /\ list \in Seq(Element)

\* Following the links from the first element visits what the operations have
\* put in the list, in their order, and ends with NULL at the last element;
\* no element is in the list twice.
LinksFollowList ==
    LET n == Len(list)
    IN  /\ first_element = IF n = 0 THEN NULL ELSE list[1]
        /\ last_element = IF n = 0 THEN NULL ELSE list[n]
        /\ \A i \in 1..n : next[list[i]] = IF i = n THEN NULL ELSE list[i + 1]
        /\ \A i, j \in 1..n : list[i] = list[j] => i = j

\* Objects that have left the list are not written to any more: their owner
\* may have deleted them.
OutsidersUntouched ==
    \A e \in Element : e \notin Members /\ e \notin Members' => next'[e] = next[e]
WritesMembersOnly == [][OutsidersUntouched]_listVars
=============================================================================
