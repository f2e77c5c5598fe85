--------------------------- MODULE LinkedListProofs ---------------------------
(* Theorems about the lists, for any number of elements and any sequence of   *)
(* calls that their users may make.  Of LinkedList: the links follow the list *)
(* that the operations are meant to produce and no operation writes to an     *)
(* object outside of it.  Of DoublyLinkedListContainer: so do the links in    *)
(* both directions, the wrappers that exist are the members of the list, and  *)
(* no operation but two leaves an end of the list open.                       *)
EXTENDS DoublyLinkedListContainer, SequenceTheorems, WellFoundedInduction, TLAPS

\* The singly linked list, with the variables of the same names
Single == INSTANCE LinkedList

-------------------------------------------------------------------------------
(* Sequences *)

LEMMA PrependFacts ==
    ASSUME NEW S, NEW s \in Seq(S), NEW e \in S
    PROVE  /\ <<e>> \o s \in Seq(S)
           /\ Len(<<e>> \o s) = Len(s) + 1
           /\ \A k \in 1 .. Len(s) + 1 : (<<e>> \o s)[k] = IF k = 1 THEN e ELSE s[k - 1]
<1>1. <<e>> \in Seq(S) /\ Len(<<e>>) = 1 /\ <<e>>[1] = e /\ Len(s) \in Nat
  BY LenProperties
<1>2. /\ <<e>> \o s \in Seq(S)
      /\ Len(<<e>> \o s) = 1 + Len(s)
      /\ \A k \in 1 .. 1 + Len(s) :
            (<<e>> \o s)[k] = IF k <= 1 THEN <<e>>[k] ELSE s[k - 1]
  BY <1>1, ConcatProperties
<1> QED
  BY <1>1, <1>2

LEMMA AppendFacts ==
    ASSUME NEW S, NEW s \in Seq(S), NEW e \in S
    PROVE  /\ Append(s, e) \in Seq(S)
           /\ Len(Append(s, e)) = Len(s) + 1
           /\ \A k \in 1 .. Len(s) + 1 :
                 Append(s, e)[k] = IF k = Len(s) + 1 THEN e ELSE s[k]
  BY AppendProperties, LenProperties

LEMMA TailFacts ==
    ASSUME NEW S, NEW s \in Seq(S), Len(s) > 0
    PROVE  /\ Tail(s) \in Seq(S)
           /\ Len(Tail(s)) = Len(s) - 1
           /\ \A k \in 1 .. Len(s) - 1 : Tail(s)[k] = s[k + 1]
<1>1. s # << >>
  BY EmptySeq
<1> QED
  BY <1>1, HeadTailProperties

\* The first and the last part of a sequence.
LEMMA PartFacts ==
    ASSUME NEW S, NEW s \in Seq(S), NEW i \in 1 .. Len(s) + 1
    PROVE  /\ SubSeq(s, 1, i - 1) \in Seq(S) /\ Len(SubSeq(s, 1, i - 1)) = i - 1
           /\ \A k \in 1 .. i - 1 : SubSeq(s, 1, i - 1)[k] = s[k]
           /\ SubSeq(s, i, Len(s)) \in Seq(S) /\ Len(SubSeq(s, i, Len(s))) = Len(s) - i + 1
           /\ \A k \in 1 .. Len(s) - i + 1 : SubSeq(s, i, Len(s))[k] = s[i + k - 1]
<1>1. Len(s) \in Nat
  BY LenProperties
<1>2. /\ 1 \in Int /\ i - 1 \in Int /\ i \in Int /\ Len(s) \in Int
      /\ 1 .. i - 1 \subseteq 1..Len(s) /\ i..Len(s) \subseteq 1..Len(s)
  BY <1>1
<1>3. /\ \A k \in 1 .. i - 1 : s[k] \in S
      /\ \A k \in i..Len(s) : s[k] \in S
  BY <1>2, ElementOfSeq
<1>4. /\ SubSeq(s, 1, i - 1) \in Seq(S)
      /\ Len(SubSeq(s, 1, i - 1)) = IF 1 <= i - 1 THEN (i - 1) - 1 + 1 ELSE 0
      /\ \A k \in 1 .. (i - 1) - 1 + 1 : SubSeq(s, 1, i - 1)[k] = s[1 + k - 1]
  BY <1>2, <1>3, SubSeqProperties
<1>5. /\ SubSeq(s, i, Len(s)) \in Seq(S)
      /\ Len(SubSeq(s, i, Len(s))) = IF i <= Len(s) THEN Len(s) - i + 1 ELSE 0
      /\ \A k \in 1 .. Len(s) - i + 1 : SubSeq(s, i, Len(s))[k] = s[i + k - 1]
  BY <1>2, <1>3, SubSeqProperties
<1> QED
  BY <1>1, <1>4, <1>5

LEMMA SingleInsertAtFacts ==
    ASSUME NEW S, NEW s \in Seq(S), NEW i \in 1 .. Len(s) + 1, NEW e \in S
    PROVE  /\ Single!Seqs!InsertAt(s, i, e) \in Seq(S)
           /\ Len(Single!Seqs!InsertAt(s, i, e)) = Len(s) + 1
           /\ \A k \in 1 .. Len(s) + 1 :
                 Single!Seqs!InsertAt(s, i, e)[k] =
                     IF k < i THEN s[k] ELSE IF k = i THEN e ELSE s[k - 1]
<1> DEFINE a == SubSeq(s, 1, i - 1)
           b == SubSeq(s, i, Len(s))
<1>1. Len(s) \in Nat
  BY LenProperties
<1>2. /\ a \in Seq(S) /\ Len(a) = i - 1
      /\ \A k \in 1 .. i - 1 : a[k] = s[k]
      /\ b \in Seq(S) /\ Len(b) = Len(s) - i + 1
      /\ \A k \in 1 .. Len(s) - i + 1 : b[k] = s[i + k - 1]
  BY PartFacts
<1>3. <<e>> \in Seq(S) /\ Len(<<e>>) = 1 /\ <<e>>[1] = e
  OBVIOUS
<1>4. Single!Seqs!InsertAt(s, i, e) = (a \o <<e>>) \o b
  BY DEF Single!Seqs!InsertAt
<1> HIDE DEF a, b
<1>5. /\ a \o <<e>> \in Seq(S) /\ Len(a \o <<e>>) = i
      /\ \A k \in 1..i : (a \o <<e>>)[k] = IF k <= i - 1 THEN a[k] ELSE <<e>>[k - (i - 1)]
  <2>1. /\ a \o <<e>> \in Seq(S) /\ Len(a \o <<e>>) = Len(a) + Len(<<e>>)
        /\ \A k \in 1 .. Len(a) + Len(<<e>>) :
              (a \o <<e>>)[k] = IF k <= Len(a) THEN a[k] ELSE <<e>>[k - Len(a)]
    BY <1>2, <1>3, ConcatProperties
  <2>2. Len(a) + Len(<<e>>) = i
    BY <1>1, <1>2, <1>3
  <2> QED
    BY <1>2, <2>1, <2>2
<1>6. /\ (a \o <<e>>) \o b \in Seq(S) /\ Len((a \o <<e>>) \o b) = Len(s) + 1
      /\ \A k \in 1 .. Len(s) + 1 :
            ((a \o <<e>>) \o b)[k] = IF k <= i THEN (a \o <<e>>)[k] ELSE b[k - i]
  <2> DEFINE c == a \o <<e>>
  <2>1. c \in Seq(S) /\ Len(c) = i
    BY <1>5
  <2> HIDE DEF c
  <2>2. /\ c \o b \in Seq(S) /\ Len(c \o b) = Len(c) + Len(b)
        /\ \A k \in 1 .. Len(c) + Len(b) :
              (c \o b)[k] = IF k <= Len(c) THEN c[k] ELSE b[k - Len(c)]
    BY <1>2, <2>1, ConcatProperties
  <2>3. Len(c) + Len(b) = Len(s) + 1
    BY <1>1, <1>2, <2>1
  <2> QED
    BY <2>1, <2>2, <2>3 DEF c
<1>7. ASSUME NEW k \in 1 .. Len(s) + 1
      PROVE  ((a \o <<e>>) \o b)[k] = IF k < i THEN s[k] ELSE IF k = i THEN e ELSE s[k - 1]
  <2>1. CASE k < i
    BY <1>1, <1>2, <1>5, <1>6, <2>1
  <2>2. CASE k = i
    <3>1. k - (i - 1) = 1 /\ ~(k <= i - 1) /\ k \in 1..i /\ k <= i
      BY <1>1, <2>2
    <3> QED
      BY <1>3, <1>5, <1>6, <2>2, <3>1
  <2>3. CASE k > i
    <3>1. k - i \in 1 .. Len(s) - i + 1 /\ i + (k - i) - 1 = k - 1 /\ ~(k <= i)
      BY <1>1, <2>3
    <3> QED
      BY <1>2, <1>6, <2>3, <3>1
  <2>4. k < i \/ k = i \/ k > i
    BY <1>1
  <2> QED
    BY <2>1, <2>2, <2>3, <2>4
<1> QED
  BY <1>4, <1>6, <1>7

LEMMA SingleRemoveAtFacts ==
    ASSUME NEW S, NEW s \in Seq(S), NEW i \in 1..Len(s)
    PROVE  /\ Single!Seqs!RemoveAt(s, i) \in Seq(S)
           /\ Len(Single!Seqs!RemoveAt(s, i)) = Len(s) - 1
           /\ \A k \in 1 .. Len(s) - 1 :
                 Single!Seqs!RemoveAt(s, i)[k] = IF k < i THEN s[k] ELSE s[k + 1]
<1> DEFINE a == SubSeq(s, 1, i - 1)
           b == SubSeq(s, i + 1, Len(s))
<1>1. Len(s) \in Nat /\ i \in 1 .. Len(s) + 1 /\ i + 1 \in 1 .. Len(s) + 1
  BY LenProperties
<1>2. /\ a \in Seq(S) /\ Len(a) = i - 1
      /\ \A k \in 1 .. i - 1 : a[k] = s[k]
  BY <1>1, PartFacts
<1>3. /\ b \in Seq(S) /\ Len(b) = Len(s) - (i + 1) + 1
      /\ \A k \in 1 .. Len(s) - (i + 1) + 1 : b[k] = s[(i + 1) + k - 1]
  BY <1>1, PartFacts
<1>4. Single!Seqs!RemoveAt(s, i) = a \o b
  BY DEF Single!Seqs!RemoveAt
<1> HIDE DEF a, b
<1>5. /\ a \o b \in Seq(S) /\ Len(a \o b) = Len(a) + Len(b)
      /\ \A k \in 1 .. Len(a) + Len(b) :
            (a \o b)[k] = IF k <= Len(a) THEN a[k] ELSE b[k - Len(a)]
  BY <1>2, <1>3, ConcatProperties
<1>6. Len(a) + Len(b) = Len(s) - 1
  BY <1>1, <1>2, <1>3
<1>7. ASSUME NEW k \in 1 .. Len(s) - 1
      PROVE  (a \o b)[k] = IF k < i THEN s[k] ELSE s[k + 1]
  <2>1. CASE k < i
    <3>1. k <= i - 1 /\ k \in 1 .. i - 1
      BY <1>1, <2>1
    <3> QED
      BY <1>2, <1>5, <1>6, <2>1, <3>1
  <2>2. CASE k >= i
    <3>1. /\ ~(k <= i - 1) /\ k - (i - 1) \in 1 .. Len(s) - (i + 1) + 1
          /\ (i + 1) + (k - (i - 1)) - 1 = k + 1 /\ ~(k < i)
      BY <1>1, <2>2
    <3> QED
      BY <1>2, <1>3, <1>5, <1>6, <3>1
  <2>3. k < i \/ k >= i
    BY <1>1
  <2> QED
    BY <2>1, <2>2, <2>3
<1> QED
  BY <1>4, <1>5, <1>6, <1>7

-------------------------------------------------------------------------------
(* The inductive invariant *)

SingleInv == Single!TypeOK /\ Single!LinksFollowList

\* What the invariant says of the members, in terms of their positions.
LEMMA SingleListFacts ==
    ASSUME Single!ElementAssumption, SingleInv
    PROVE  /\ Len(list) \in Nat /\ DOMAIN list = 1..Len(list)
           /\ \A i \in 1..Len(list) : list[i] \in Element /\ list[i] # NULL
           /\ Single!Members = {list[i] : i \in 1..Len(list)}
           /\ list = << >> <=> Len(list) = 0
<1>1. list \in Seq(Element) /\ Len(list) \in Nat /\ DOMAIN list = 1..Len(list)
  BY LenProperties DEF SingleInv, Single!TypeOK
<1>2. \A i \in 1..Len(list) : list[i] \in Element
  BY <1>1, ElementOfSeq
<1>3. list = << >> <=> Len(list) = 0
  BY <1>1, EmptySeq
<1> QED
  BY <1>1, <1>2, <1>3 DEF Single!ElementAssumption, Single!Members

LEMMA SinglePositionFacts ==
    ASSUME Single!ElementAssumption, SingleInv, NEW e \in Single!Members
    PROVE  /\ Single!Position(e) \in 1..Len(list) /\ list[Single!Position(e)] = e
           /\ \A i \in 1..Len(list) : list[i] = e => i = Single!Position(e)
<1>1. \E i \in DOMAIN list : list[i] = e
  BY DEF Single!Members
<1>2. Single!Position(e) \in DOMAIN list /\ list[Single!Position(e)] = e
  BY <1>1 DEF Single!Position
<1> QED
  BY <1>2, SingleListFacts DEF SingleInv, Single!LinksFollowList

\* The sequence without one of its elements.
LEMMA SingleWithoutFacts ==
    ASSUME Single!ElementAssumption, SingleInv, NEW e \in Single!Members
    PROVE  /\ Single!Without(e) \in Seq(Element)
           /\ Len(Single!Without(e)) = Len(list) - 1
           /\ \A k \in 1 .. Len(list) - 1 :
                 Single!Without(e)[k] = IF k < Single!Position(e) THEN list[k] ELSE list[k + 1]
  BY SinglePositionFacts, SingleRemoveAtFacts DEF Single!Without, SingleInv, Single!TypeOK

\* The links of the members, with the previous element of one of them.
LEMMA SingleLinkFacts ==
    ASSUME Single!ElementAssumption, SingleInv
    PROVE  /\ first_element = IF Len(list) = 0 THEN NULL ELSE list[1]
           /\ last_element = IF Len(list) = 0 THEN NULL ELSE list[Len(list)]
           /\ \A k \in 1..Len(list) :
                 next[list[k]] = IF k = Len(list) THEN NULL ELSE list[k + 1]
           /\ \A k, l \in 1..Len(list) : list[k] = list[l] => k = l
           /\ first_element \in Single!Pointer /\ last_element \in Single!Pointer
           /\ \A e \in Element : next[e] \in Single!Pointer
  BY DEF SingleInv, Single!TypeOK, Single!LinksFollowList

LEMMA SinglePreviousFacts ==
    ASSUME Single!ElementAssumption, SingleInv, NEW e, NEW p, Single!IsPrevious(p, e)
    PROVE  /\ e \in Single!Members
           /\ p = NULL => Single!Position(e) = 1
           /\ p # NULL => Single!Position(e) > 1 /\ p = list[Single!Position(e) - 1]
<1>1. e \in Single!Members /\ Len(list) \in Nat
  BY SingleListFacts DEF Single!IsPrevious
<1>2. /\ Single!Position(e) \in 1..Len(list) /\ list[Single!Position(e)] = e
      /\ \A i \in 1..Len(list) : list[i] = e => i = Single!Position(e)
  BY <1>1, SinglePositionFacts
<1>3. CASE p = NULL
  BY <1>1, <1>2, <1>3, SingleLinkFacts DEF Single!IsPrevious
<1>4. CASE p # NULL
  <2>1. PICK i \in 1..Len(list) : p = list[i] /\ next[p] = e
    BY <1>4, SingleListFacts DEF Single!IsPrevious
  <2>2. i # Len(list) /\ list[i + 1] = e
    BY <1>1, <1>2, <2>1, SingleLinkFacts, SingleListFacts
  <2>3. Single!Position(e) = i + 1
    BY <1>1, <1>2, <2>2
  <2> QED
    BY <1>1, <1>3, <1>4, <2>1, <2>3
<1> QED
  BY <1>1, <1>3, <1>4

LEMMA SingleInitKeeps == Single!Init => SingleInv
<1> SUFFICES ASSUME Single!Init PROVE SingleInv
  OBVIOUS
<1>1. list \in Seq(Element) /\ Len(list) = 0
  BY EmptySeq DEF Single!Init
<1> QED
  BY <1>1 DEF Single!Init, SingleInv, Single!TypeOK, Single!LinksFollowList, Single!Pointer

LEMMA SingleInsertFirstKeeps ==
    ASSUME Single!ElementAssumption, SingleInv, NEW n \in Element, Single!InsertFirst(n)
    PROVE  SingleInv' /\ Single!OutsidersUntouched
<1> DEFINE m == Len(list)
<1>1. /\ m \in Nat
      /\ \A k \in 1..m : list[k] \in Element /\ list[k] # NULL
      /\ Single!Members = {list[k] : k \in 1..m}
      /\ first_element = IF m = 0 THEN NULL ELSE list[1]
      /\ last_element = IF m = 0 THEN NULL ELSE list[m]
      /\ \A k \in 1..m : next[list[k]] = IF k = m THEN NULL ELSE list[k + 1]
      /\ \A k, l \in 1..m : list[k] = list[l] => k = l
      /\ first_element \in Single!Pointer /\ last_element \in Single!Pointer
      /\ \A x \in Element : next[x] \in Single!Pointer
  BY SingleListFacts, SingleLinkFacts
<1>5. \A k \in 1..m : list[k] # n
  BY SingleListFacts DEF Single!InsertFirst
<1>2. /\ list' \in Seq(Element) /\ Len(list') = m + 1
      /\ \A k \in 1 .. m + 1 : list'[k] = IF k = 1 THEN n ELSE list[k - 1]
  BY PrependFacts DEF Single!InsertFirst, SingleInv, Single!TypeOK
<1>3. /\ next' \in [Element -> Single!Pointer]
      /\ \A e \in Element : next'[e] = IF e = n THEN first_element ELSE next[e]
  BY DEF Single!InsertFirst, SingleInv, Single!TypeOK, Single!Pointer
<1>4. /\ first_element' = n
      /\ last_element' = IF last_element = NULL THEN n ELSE last_element
  BY DEF Single!InsertFirst
<1> HIDE DEF m
<1>6. first_element' = list'[1] /\ last_element' = list'[m + 1]
  BY <1>1, <1>5, <1>2, <1>4
<1>7. ASSUME NEW k \in 1 .. m + 1
      PROVE  next'[list'[k]] = IF k = m + 1 THEN NULL ELSE list'[k + 1]
  <2>1. CASE k = 1
    BY <1>1, <1>5, <1>2, <1>3, <2>1
  <2>2. CASE k > 1
    <3>1. k - 1 \in 1..m /\ list'[k] = list[k - 1]
      BY <1>1, <1>5, <1>2, <2>2
    <3>2. next'[list'[k]] = IF k - 1 = m THEN NULL ELSE list[(k - 1) + 1]
      BY <1>1, <1>5, <1>3, <3>1
    <3> QED
      BY <1>1, <1>5, <1>2, <2>2, <3>2
  <2> QED
    BY <1>1, <2>1, <2>2
<1>8. \A k, l \in 1 .. m + 1 : list'[k] = list'[l] => k = l
  BY <1>1, <1>5, <1>2
<1>9. SingleInv'
  <2>1. Single!TypeOK'
    BY <1>1, <1>5, <1>2, <1>3, <1>6 DEF Single!TypeOK, Single!Pointer
  <2> QED
    BY <1>1, <1>5, <1>2, <1>6, <1>7, <1>8, <2>1 DEF SingleInv, Single!LinksFollowList
<1>10. Single!Members' = {list'[k] : k \in 1 .. m + 1}
  BY <1>2, LenProperties DEF Single!Members
<1>11. Single!OutsidersUntouched
  <2>1. n \in Single!Members'
    BY <1>1, <1>2, <1>10
  <2> QED
    BY <1>3, <2>1 DEF Single!OutsidersUntouched
<1> QED
  BY <1>9, <1>11

LEMMA SingleAppendElementKeeps ==
    ASSUME Single!ElementAssumption, SingleInv, NEW n \in Element, Single!AppendElement(n)
    PROVE  SingleInv' /\ Single!OutsidersUntouched
<1> DEFINE m == Len(list)
<1>1. /\ m \in Nat
      /\ \A k \in 1..m : list[k] \in Element /\ list[k] # NULL
      /\ Single!Members = {list[k] : k \in 1..m}
      /\ first_element = IF m = 0 THEN NULL ELSE list[1]
      /\ last_element = IF m = 0 THEN NULL ELSE list[m]
      /\ \A k \in 1..m : next[list[k]] = IF k = m THEN NULL ELSE list[k + 1]
      /\ \A k, l \in 1..m : list[k] = list[l] => k = l
      /\ first_element \in Single!Pointer /\ last_element \in Single!Pointer
      /\ \A x \in Element : next[x] \in Single!Pointer
  BY SingleListFacts, SingleLinkFacts
<1>5. \A k \in 1..m : list[k] # n
  BY SingleListFacts DEF Single!AppendElement
<1>2. /\ list' \in Seq(Element) /\ Len(list') = m + 1
      /\ \A k \in 1 .. m + 1 : list'[k] = IF k = m + 1 THEN n ELSE list[k]
  BY AppendFacts DEF Single!AppendElement, SingleInv, Single!TypeOK
<1>3. /\ next' \in [Element -> Single!Pointer]
      /\ \A e \in Element : next'[e] = IF e = last_element THEN n
                                      ELSE IF e = n THEN NULL ELSE next[e]
  <2>1. n # last_element
    BY <1>1, <1>5 DEF Single!ElementAssumption
  <2> QED
    BY <1>1, <1>5, <2>1 DEF Single!AppendElement, SingleInv, Single!TypeOK, Single!Pointer, Single!ElementAssumption
<1>4. /\ first_element' = IF last_element = NULL THEN n ELSE first_element
      /\ last_element' = n
  BY DEF Single!AppendElement
<1> HIDE DEF m
<1>6. first_element' = list'[1] /\ last_element' = list'[m + 1]
  BY <1>1, <1>5, <1>2, <1>4
<1>7. ASSUME NEW k \in 1 .. m + 1
      PROVE  next'[list'[k]] = IF k = m + 1 THEN NULL ELSE list'[k + 1]
  <2>1. CASE k = m + 1
    <3>1. n # last_element
      BY <1>1, <1>5 DEF Single!ElementAssumption
    <3> QED
      BY <1>1, <1>5, <1>2, <1>3, <2>1, <3>1
  <2>2. CASE k < m + 1
    <3>1. k \in 1..m /\ list'[k] = list[k] /\ k + 1 \in 1 .. m + 1
      BY <1>1, <1>5, <1>2, <2>2
    <3>2. CASE k = m
      BY <1>1, <1>5, <1>2, <1>3, <3>1, <3>2
    <3>3. CASE k < m
      <4>1. list[k] # last_element /\ next[list[k]] = list[k + 1]
        BY <1>1, <1>5, <3>1, <3>3
      <4> QED
        BY <1>1, <1>5, <1>2, <1>3, <3>1, <3>3, <4>1
    <3> QED
      BY <1>1, <1>5, <3>1, <3>2, <3>3
  <2> QED
    BY <1>1, <2>1, <2>2
<1>8. \A k, l \in 1 .. m + 1 : list'[k] = list'[l] => k = l
  BY <1>1, <1>5, <1>2
<1>9. SingleInv'
  <2>1. Single!TypeOK'
    BY <1>1, <1>5, <1>2, <1>3, <1>6 DEF Single!TypeOK, Single!Pointer
  <2> QED
    BY <1>1, <1>5, <1>2, <1>6, <1>7, <1>8, <2>1 DEF SingleInv, Single!LinksFollowList
<1>10. Single!Members' = {list'[k] : k \in 1 .. m + 1}
  BY <1>2, LenProperties DEF Single!Members
<1>11. Single!OutsidersUntouched
  <2>1. n \in Single!Members'
    BY <1>1, <1>2, <1>10
  <2>2. last_element = NULL \/ last_element \in Single!Members
    BY <1>1
  <2> QED
    BY <1>3, <2>1, <2>2 DEF Single!OutsidersUntouched, Single!ElementAssumption
<1> QED
  BY <1>9, <1>11

LEMMA SingleInsertAfterKeeps ==
    ASSUME Single!ElementAssumption, SingleInv, NEW e \in Element, NEW n \in Element, Single!InsertAfter(e, n)
    PROVE  SingleInv' /\ Single!OutsidersUntouched
<1> DEFINE m == Len(list)
           q == Single!Position(e)
<1>1. /\ m \in Nat
      /\ \A k \in 1..m : list[k] \in Element /\ list[k] # NULL
      /\ Single!Members = {list[k] : k \in 1..m}
      /\ first_element = IF m = 0 THEN NULL ELSE list[1]
      /\ last_element = IF m = 0 THEN NULL ELSE list[m]
      /\ \A k \in 1..m : next[list[k]] = IF k = m THEN NULL ELSE list[k + 1]
      /\ \A k, l \in 1..m : list[k] = list[l] => k = l
      /\ first_element \in Single!Pointer /\ last_element \in Single!Pointer
      /\ \A x \in Element : next[x] \in Single!Pointer
  BY SingleListFacts, SingleLinkFacts
<1>5. \A k \in 1..m : list[k] # n
  BY SingleListFacts DEF Single!InsertAfter
<1>2. /\ list' \in Seq(Element) /\ Len(list') = m + 1
      /\ q \in 1..m /\ list[q] = e
      /\ \A k \in 1 .. m + 1 :
            list'[k] = IF k < q + 1 THEN list[k] ELSE IF k = q + 1 THEN n ELSE list[k - 1]
  <2>1. q \in 1..m /\ list[q] = e
    BY SinglePositionFacts DEF Single!InsertAfter
  <2>2. q + 1 \in 1 .. m + 1 /\ list' = Single!Seqs!InsertAt(list, q + 1, n) /\ list \in Seq(Element)
    BY <1>1, <1>5, <2>1 DEF Single!InsertAfter, SingleInv, Single!TypeOK
  <2> HIDE DEF q
  <2> DEFINE i == q + 1
             t == Single!Seqs!InsertAt(list, i, n)
  <2>3. list' = t
    BY <2>2
  <2>5. list \in Seq(Element) /\ n \in Element /\ i \in 1 .. Len(list) + 1
    BY <1>1, <2>2
  <2> HIDE DEF i
  <2>4. /\ t \in Seq(Element) /\ Len(t) = Len(list) + 1
        /\ \A k \in 1 .. Len(list) + 1 :
              t[k] = IF k < i THEN list[k] ELSE IF k = i THEN n ELSE list[k - 1]
    BY ONLY <2>5, SingleInsertAtFacts
  <2> QED
    BY <2>1, <2>3, <2>4 DEF i
<1>3. /\ next' \in [Element -> Single!Pointer]
      /\ \A x \in Element : next'[x] = IF x = e THEN n ELSE IF x = n THEN next[e] ELSE next[x]
  BY <1>1, <1>5 DEF Single!InsertAfter, SingleInv, Single!TypeOK, Single!Pointer
<1>4. /\ first_element' = first_element
      /\ last_element' = IF e = last_element THEN n ELSE last_element
  BY DEF Single!InsertAfter
<1> HIDE DEF m, q
<1>6. first_element' = list'[1] /\ last_element' = list'[m + 1]
  BY <1>1, <1>5, <1>2, <1>4
<1>7. ASSUME NEW k \in 1 .. m + 1
      PROVE  next'[list'[k]] = IF k = m + 1 THEN NULL ELSE list'[k + 1]
  <2>1. CASE k < q
    <3>1. /\ k \in 1..m /\ k + 1 \in 1 .. m + 1 /\ k + 1 < q + 1
          /\ list'[k] = list[k] /\ list[k] # e
      BY <1>1, <1>5, <1>2, <2>1
    <3> QED
      BY <1>1, <1>5, <1>2, <1>3, <2>1, <3>1
  <2>2. CASE k = q
    BY <1>1, <1>5, <1>2, <1>3, <2>2
  <2>3. CASE k = q + 1
    <3>1. list'[k] = n /\ n # e
      BY <1>1, <1>5, <1>2, <2>3
    <3>2. next'[list'[k]] = IF q = m THEN NULL ELSE list[q + 1]
      BY <1>1, <1>5, <1>2, <1>3, <3>1
    <3> QED
      BY <1>1, <1>5, <1>2, <2>3, <3>2
  <2>4. CASE k > q + 1
    <3>1. k - 1 \in 1..m /\ list'[k] = list[k - 1] /\ list[k - 1] # e
      BY <1>1, <1>5, <1>2, <2>4
    <3>2. next'[list'[k]] = IF k - 1 = m THEN NULL ELSE list[(k - 1) + 1]
      BY <1>1, <1>5, <1>3, <3>1
    <3> QED
      BY <1>1, <1>5, <1>2, <2>4, <3>2
  <2> QED
    BY <1>1, <1>5, <1>2, <2>1, <2>2, <2>3, <2>4
<1>8. \A k, l \in 1 .. m + 1 : list'[k] = list'[l] => k = l
  BY <1>1, <1>5, <1>2, SMTT(30)
<1>9. SingleInv'
  <2>1. Single!TypeOK'
    BY <1>1, <1>5, <1>2, <1>3, <1>6 DEF Single!TypeOK, Single!Pointer
  <2> QED
    BY <1>1, <1>5, <1>2, <1>6, <1>7, <1>8, <2>1 DEF SingleInv, Single!LinksFollowList
<1>10. Single!Members' = {list'[k] : k \in 1 .. m + 1}
  BY <1>2, LenProperties DEF Single!Members
<1>11. Single!OutsidersUntouched
  <2>1. n \in Single!Members'
    <3>1. q + 1 \in 1 .. m + 1 /\ list'[q + 1] = n
      BY <1>1, <1>2
    <3> QED
      BY <1>10, <3>1
  <2>2. e \in Single!Members
    BY DEF Single!InsertAfter
  <2> QED
    BY <1>3, <2>1, <2>2 DEF Single!OutsidersUntouched
<1> QED
  BY <1>9, <1>11

LEMMA SingleRemoveFirstKeeps ==
    ASSUME Single!ElementAssumption, SingleInv, Single!RemoveFirst
    PROVE  SingleInv' /\ Single!OutsidersUntouched
<1> DEFINE m == Len(list)
<1>1. /\ m \in Nat
      /\ \A k \in 1..m : list[k] \in Element /\ list[k] # NULL
      /\ Single!Members = {list[k] : k \in 1..m}
      /\ first_element = IF m = 0 THEN NULL ELSE list[1]
      /\ last_element = IF m = 0 THEN NULL ELSE list[m]
      /\ \A k \in 1..m : next[list[k]] = IF k = m THEN NULL ELSE list[k + 1]
      /\ \A k, l \in 1..m : list[k] = list[l] => k = l
      /\ first_element \in Single!Pointer /\ last_element \in Single!Pointer
      /\ \A x \in Element : next[x] \in Single!Pointer
  BY SingleListFacts, SingleLinkFacts
<1>2. /\ m > 0
      /\ list' \in Seq(Element) /\ Len(list') = m - 1
      /\ \A k \in 1 .. m - 1 : list'[k] = list[k + 1]
  <2>1. m > 0
    BY <1>1 DEF Single!RemoveFirst
  <2> QED
    BY <2>1, TailFacts DEF Single!RemoveFirst, SingleInv, Single!TypeOK
<1>3. next' = next /\ next \in [Element -> Single!Pointer]
  BY DEF Single!RemoveFirst, SingleInv, Single!TypeOK
<1>4. /\ first_element' = next[list[1]]
      /\ last_element' = IF next[list[1]] = NULL THEN NULL ELSE last_element
      /\ first_element' \in Single!Pointer /\ last_element' \in Single!Pointer
  BY <1>1, <1>2 DEF Single!RemoveFirst, Single!Pointer
<1> HIDE DEF m
<1>5. next[list[1]] = IF m = 1 THEN NULL ELSE list[2]
  BY <1>1, <1>2
<1>6. /\ first_element' = IF m - 1 = 0 THEN NULL ELSE list'[1]
      /\ last_element' = IF m - 1 = 0 THEN NULL ELSE list'[m - 1]
  BY <1>1, <1>2, <1>4, <1>5
<1>7. ASSUME NEW k \in 1 .. m - 1
      PROVE  next'[list'[k]] = IF k = m - 1 THEN NULL ELSE list'[k + 1]
  <2>1. k + 1 \in 1..m /\ list'[k] = list[k + 1]
    BY <1>1, <1>2
  <2>2. next[list[k + 1]] = IF k + 1 = m THEN NULL ELSE list[(k + 1) + 1]
    BY <1>1, <2>1
  <2> QED
    BY <1>1, <1>2, <1>3, <2>1, <2>2
<1>8. \A k, l \in 1 .. m - 1 : list'[k] = list'[l] => k = l
  BY <1>1, <1>2
<1>9. SingleInv'
  <2>1. Single!TypeOK'
    BY <1>1, <1>2, <1>3, <1>4 DEF Single!TypeOK, Single!Pointer
  <2> QED
    BY <1>1, <1>2, <1>6, <1>7, <1>8, <2>1 DEF SingleInv, Single!LinksFollowList
<1>11. Single!OutsidersUntouched
  BY <1>3 DEF Single!OutsidersUntouched
<1> QED
  BY <1>9, <1>11

LEMMA SingleEmptyKeeps == ASSUME SingleInv, Single!Empty PROVE SingleInv' /\ Single!OutsidersUntouched
<1>1. list' \in Seq(Element) /\ Len(list') = 0
  BY EmptySeq DEF Single!Empty
<1> QED
  BY <1>1 DEF Single!Empty, SingleInv, Single!TypeOK, Single!LinksFollowList, Single!Pointer, Single!OutsidersUntouched

LEMMA SingleRemoveKeeps ==
    ASSUME Single!ElementAssumption, SingleInv, NEW e \in Element, NEW p \in Single!Pointer, Single!Remove(e, p)
    PROVE  SingleInv' /\ Single!OutsidersUntouched
<1> DEFINE m == Len(list)
           q == Single!Position(e)
<1>1. /\ m \in Nat
      /\ \A k \in 1..m : list[k] \in Element /\ list[k] # NULL
      /\ Single!Members = {list[k] : k \in 1..m}
      /\ first_element = IF m = 0 THEN NULL ELSE list[1]
      /\ last_element = IF m = 0 THEN NULL ELSE list[m]
      /\ \A k \in 1..m : next[list[k]] = IF k = m THEN NULL ELSE list[k + 1]
      /\ \A k, l \in 1..m : list[k] = list[l] => k = l
      /\ first_element \in Single!Pointer /\ last_element \in Single!Pointer
      /\ \A x \in Element : next[x] \in Single!Pointer
  BY SingleListFacts, SingleLinkFacts
<1>5. /\ e \in Single!Members /\ q \in 1..m /\ list[q] = e
      /\ next[e] = IF q = m THEN NULL ELSE list[q + 1]
      /\ p = NULL => q = 1
      /\ p # NULL => q > 1 /\ p = list[q - 1] /\ p \in Element
  <2>1. e \in Single!Members
    BY DEF Single!IsPrevious, Single!Remove
  <2>2. q \in 1..m /\ list[q] = e
    BY <2>1, SinglePositionFacts
  <2>3. (p = NULL => q = 1) /\ (p # NULL => q > 1 /\ p = list[q - 1])
    BY SinglePreviousFacts DEF Single!Remove
  <2> QED
    BY <1>1, <2>1, <2>2, <2>3
<1>2. /\ list' \in Seq(Element) /\ Len(list') = m - 1
      /\ \A k \in 1 .. m - 1 : list'[k] = IF k < q THEN list[k] ELSE list[k + 1]
  BY <1>5, SingleWithoutFacts DEF Single!Remove
<1>3. /\ next' \in [Element -> Single!Pointer]
      /\ \A x \in Element : next'[x] = IF p # NULL /\ x = p THEN next[e] ELSE next[x]
  BY <1>1, <1>5 DEF Single!Remove, Single!Bypass, SingleInv, Single!TypeOK
<1>4. /\ first_element' = IF p = NULL THEN next[e] ELSE first_element
      /\ last_element' = IF next[e] = NULL THEN p ELSE last_element
      /\ first_element' \in Single!Pointer /\ last_element' \in Single!Pointer
  BY <1>1 DEF Single!Remove
<1> HIDE DEF m, q
<1>6. /\ first_element' = IF m - 1 = 0 THEN NULL ELSE list'[1]
      /\ last_element' = IF m - 1 = 0 THEN NULL ELSE list'[m - 1]
  <2>1. CASE p = NULL
    BY <1>1, <1>2, <1>4, <1>5, <2>1
  <2>2. CASE p # NULL
    <3>1. q - 1 \in 1 .. m - 1 /\ list'[q - 1] = p
      BY <1>1, <1>2, <1>5, <2>2
    <3>2. next[e] # NULL => q < m /\ m - 1 \in 1 .. m - 1 /\ list'[m - 1] = list[m]
      BY <1>1, <1>2, <1>5
    <3>3. list'[1] = list[1]
      BY <1>1, <1>2, <1>5, <2>2
    <3> QED
      BY <1>1, <1>4, <1>5, <2>2, <3>1, <3>2, <3>3
  <2> QED
    BY <2>1, <2>2
<1>7. ASSUME NEW k \in 1 .. m - 1
      PROVE  next'[list'[k]] = IF k = m - 1 THEN NULL ELSE list'[k + 1]
  <2>1. CASE k < q - 1
    <3>1. /\ k \in 1..m /\ k + 1 \in 1 .. m - 1 /\ k + 1 < q
          /\ list'[k] = list[k] /\ list'[k + 1] = list[k + 1] /\ k < q
      BY <1>1, <1>2, <1>5, <2>1
    <3>2. p # NULL => list[k] # p
      <4>1. q > 1 => q - 1 \in 1..m /\ k # q - 1
        BY <1>1, <1>5, <2>1
      <4> QED
        BY <1>1, <1>5, <3>1, <4>1
    <3> QED
      BY <1>1, <1>3, <3>1, <3>2
  <2>2. CASE k = q - 1
    <3>1. p # NULL /\ list'[k] = p /\ q - 1 \in 1..m
      BY <1>1, <1>2, <1>5, <2>2
    <3>2. next'[p] = next[e]
      BY <1>3, <1>5, <3>1
    <3> QED
      BY <1>1, <1>2, <1>5, <2>2, <3>1, <3>2
  <2>3. CASE k > q - 1
    <3>1. k + 1 \in 1..m /\ list'[k] = list[k + 1]
      BY <1>1, <1>2, <1>5, <2>3
    <3>2. p # NULL => list[k + 1] # p
      <4>1. q > 1 => q - 1 \in 1..m /\ k + 1 # q - 1
        BY <1>1, <1>5, <2>3
      <4> QED
        BY <1>1, <1>5, <3>1, <4>1
    <3>3. next'[list'[k]] = IF k + 1 = m THEN NULL ELSE list[(k + 1) + 1]
      BY <1>1, <1>3, <3>1, <3>2
    <3>4. k # m - 1 => list'[k + 1] = list[(k + 1) + 1]
      BY <1>1, <1>2, <1>5, <2>3
    <3> QED
      BY <1>1, <3>3, <3>4
  <2> QED
    BY <1>1, <1>5, <2>1, <2>2, <2>3
<1>8. \A k, l \in 1 .. m - 1 : list'[k] = list'[l] => k = l
  BY <1>1, <1>2, <1>5
<1>9. SingleInv'
  <2>1. Single!TypeOK'
    BY <1>1, <1>2, <1>3, <1>4, <1>5 DEF Single!TypeOK, Single!Pointer
  <2> QED
    BY <1>1, <1>2, <1>6, <1>7, <1>8, <2>1 DEF SingleInv, Single!LinksFollowList
<1>11. Single!OutsidersUntouched
  <2>1. p # NULL => p \in Single!Members
    BY <1>1, <1>5
  <2> QED
    BY <1>3, <1>5, <2>1 DEF Single!OutsidersUntouched
<1> QED
  BY <1>9, <1>11

LEMMA SingleMoveToFrontKeeps ==
    ASSUME Single!ElementAssumption, SingleInv, NEW e \in Element, NEW p \in Single!Pointer, Single!MoveToFront(e, p)
    PROVE  SingleInv' /\ Single!OutsidersUntouched
<1> DEFINE m == Len(list)
           q == Single!Position(e)
<1>1. /\ m \in Nat
      /\ \A k \in 1..m : list[k] \in Element /\ list[k] # NULL
      /\ Single!Members = {list[k] : k \in 1..m}
      /\ first_element = IF m = 0 THEN NULL ELSE list[1]
      /\ last_element = IF m = 0 THEN NULL ELSE list[m]
      /\ \A k \in 1..m : next[list[k]] = IF k = m THEN NULL ELSE list[k + 1]
      /\ \A k, l \in 1..m : list[k] = list[l] => k = l
      /\ first_element \in Single!Pointer /\ last_element \in Single!Pointer
      /\ \A x \in Element : next[x] \in Single!Pointer
  BY SingleListFacts, SingleLinkFacts
<1>5. /\ e \in Single!Members /\ q \in 1..m /\ list[q] = e
      /\ next[e] = IF q = m THEN NULL ELSE list[q + 1]
      /\ p = NULL => q = 1
      /\ p # NULL => q > 1 /\ p = list[q - 1] /\ p \in Element
  <2>1. e \in Single!Members
    BY DEF Single!IsPrevious, Single!MoveToFront
  <2>2. q \in 1..m /\ list[q] = e
    BY <2>1, SinglePositionFacts
  <2>3. (p = NULL => q = 1) /\ (p # NULL => q > 1 /\ p = list[q - 1])
    BY SinglePreviousFacts DEF Single!MoveToFront
  <2> QED
    BY <1>1, <2>1, <2>2, <2>3
<1>2. /\ p # NULL
      /\ list' \in Seq(Element) /\ Len(list') = m
      /\ \A k \in 1..m :
            list'[k] = IF k = 1 THEN e ELSE IF k <= q THEN list[k - 1] ELSE list[k]
  <2>1. /\ Single!Without(e) \in Seq(Element) /\ Len(Single!Without(e)) = m - 1
        /\ \A k \in 1 .. m - 1 : Single!Without(e)[k] = IF k < q THEN list[k] ELSE list[k + 1]
    BY <1>5, SingleWithoutFacts
  <2>2. list' = <<e>> \o Single!Without(e) /\ p # NULL
    BY DEF Single!MoveToFront
  <2>3. /\ list' \in Seq(Element) /\ Len(list') = Len(Single!Without(e)) + 1
        /\ \A k \in 1 .. Len(Single!Without(e)) + 1 :
              list'[k] = IF k = 1 THEN e ELSE Single!Without(e)[k - 1]
    BY <2>1, <2>2, PrependFacts
  <2>4. Len(Single!Without(e)) + 1 = m
    BY <1>1, <2>1
  <2>5. ASSUME NEW k \in 1..m, k # 1
        PROVE  list'[k] = IF k <= q THEN list[k - 1] ELSE list[k]
    <3>1. k - 1 \in 1 .. m - 1 /\ (k - 1 < q <=> k <= q) /\ (k - 1) + 1 = k
      BY <1>1, <1>5, <2>5
    <3>2. list'[k] = Single!Without(e)[k - 1]
      BY <2>3, <2>4, <2>5
    <3> QED
      BY <2>1, <3>1, <3>2
  <2> QED
    BY <2>2, <2>3, <2>4, <2>5
<1>3. /\ next' \in [Element -> Single!Pointer]
      /\ \A x \in Element : next'[x] = IF x = e THEN first_element
                                      ELSE IF x = p THEN next[e] ELSE next[x]
  BY <1>1, <1>2, <1>5 DEF Single!MoveToFront, Single!Bypass, SingleInv, Single!TypeOK
<1>4. /\ first_element' = e
      /\ last_element' = IF next[e] = NULL THEN p ELSE last_element
      /\ first_element' \in Single!Pointer /\ last_element' \in Single!Pointer
  BY <1>1 DEF Single!MoveToFront, Single!Pointer
<1> HIDE DEF m, q
<1>6. /\ first_element' = list'[1]
      /\ last_element' = list'[m]
  <2>1. m \in 1..m /\ m # 1 /\ q - 1 \in 1..m
    BY <1>1, <1>2, <1>5
  <2> QED
    BY <1>1, <1>2, <1>4, <1>5, <2>1
<1>7. ASSUME NEW k \in 1..m
      PROVE  next'[list'[k]] = IF k = m THEN NULL ELSE list'[k + 1]
  <2>1. CASE k = 1
    <3>1. 2 \in 1..m /\ 2 <= q /\ k # m /\ list'[2] = list[1] /\ m # 0
      BY <1>1, <1>2, <1>5, <2>1
    <3> QED
      BY <1>1, <1>2, <1>3, <2>1, <3>1
  <2>2. CASE k > 1 /\ k < q
    <3>1. /\ k - 1 \in 1..m /\ k - 1 # q /\ k - 1 # q - 1 /\ q - 1 \in 1..m
          /\ k + 1 \in 1..m /\ k # m /\ (k - 1) + 1 = k /\ (k + 1) - 1 = k
          /\ list'[k] = list[k - 1] /\ list'[k + 1] = list[k]
      BY <1>1, <1>2, <1>5, <2>2
    <3>2. list[k - 1] # e /\ list[k - 1] # p
      BY <1>1, <1>2, <1>5, <3>1
    <3>3. next[list[k - 1]] = list[k]
      BY <1>1, <3>1
    <3> QED
      BY <1>1, <1>3, <3>1, <3>2, <3>3
  <2>3. CASE k > 1 /\ k = q
    <3>1. list'[k] = p /\ p # e
      <4>1. q - 1 \in 1..m /\ q - 1 # q /\ k # 1 /\ k <= q
        BY <1>1, <1>5, <2>3
      <4> QED
        BY <1>1, <1>2, <1>5, <2>3, <4>1
    <3>2. next'[list'[k]] = next[e]
      BY <1>2, <1>3, <1>5, <3>1
    <3>3. k # m => list'[k + 1] = list[q + 1]
      BY <1>1, <1>2, <1>5, <2>3
    <3> QED
      BY <1>1, <1>5, <2>3, <3>2, <3>3
  <2>4. CASE k > q
    <3>1. /\ k \in 1..m /\ k # q /\ k # q - 1 /\ q - 1 \in 1..m
          /\ list'[k] = list[k] /\ (k # m => list'[k + 1] = list[k + 1])
      BY <1>1, <1>2, <1>5, <2>4
    <3>2. list[k] # e /\ list[k] # p
      BY <1>1, <1>2, <1>5, <3>1
    <3> QED
      BY <1>1, <1>3, <3>1, <3>2
  <2> QED
    BY <1>1, <1>2, <1>5, <2>1, <2>2, <2>3, <2>4
<1>8. \A k, l \in 1..m : list'[k] = list'[l] => k = l
  BY <1>1, <1>2, <1>5, SMTT(30)
<1>9. SingleInv'
  <2>1. Single!TypeOK'
    BY <1>1, <1>2, <1>3, <1>4, <1>5 DEF Single!TypeOK, Single!Pointer
  <2>2. m # 0
    BY <1>1, <1>5
  <2> QED
    BY <1>1, <1>2, <1>6, <1>7, <1>8, <2>1, <2>2 DEF SingleInv, Single!LinksFollowList
<1>11. Single!OutsidersUntouched
  <2>1. p \in Single!Members
    <3>1. q - 1 \in 1..m
      BY <1>1, <1>2, <1>5
    <3> QED
      BY <1>1, <1>2, <1>5, <3>1
  <2> QED
    BY <1>3, <1>5, <2>1 DEF Single!OutsidersUntouched
<1> QED
  BY <1>9, <1>11

LEMMA SingleMoveToBackKeeps ==
    ASSUME Single!ElementAssumption, SingleInv, NEW e \in Element, NEW p \in Single!Pointer, Single!MoveToBack(e, p)
    PROVE  SingleInv' /\ Single!OutsidersUntouched
<1> DEFINE m == Len(list)
           q == Single!Position(e)
<1>1. /\ m \in Nat
      /\ \A k \in 1..m : list[k] \in Element /\ list[k] # NULL
      /\ Single!Members = {list[k] : k \in 1..m}
      /\ first_element = IF m = 0 THEN NULL ELSE list[1]
      /\ last_element = IF m = 0 THEN NULL ELSE list[m]
      /\ \A k \in 1..m : next[list[k]] = IF k = m THEN NULL ELSE list[k + 1]
      /\ \A k, l \in 1..m : list[k] = list[l] => k = l
      /\ first_element \in Single!Pointer /\ last_element \in Single!Pointer
      /\ \A x \in Element : next[x] \in Single!Pointer
  BY SingleListFacts, SingleLinkFacts
<1>5. /\ e \in Single!Members /\ q \in 1..m /\ list[q] = e
      /\ next[e] = IF q = m THEN NULL ELSE list[q + 1]
      /\ p = NULL => q = 1
      /\ p # NULL => q > 1 /\ p = list[q - 1] /\ p \in Element
  <2>1. e \in Single!Members
    BY DEF Single!IsPrevious, Single!MoveToBack
  <2>2. q \in 1..m /\ list[q] = e
    BY <2>1, SinglePositionFacts
  <2>3. (p = NULL => q = 1) /\ (p # NULL => q > 1 /\ p = list[q - 1])
    BY SinglePreviousFacts DEF Single!MoveToBack
  <2> QED
    BY <1>1, <2>1, <2>2, <2>3
<1>2. /\ q < m
      /\ list' \in Seq(Element) /\ Len(list') = m
      /\ \A k \in 1..m :
            list'[k] = IF k = m THEN e ELSE IF k < q THEN list[k] ELSE list[k + 1]
  <2>1. /\ Single!Without(e) \in Seq(Element) /\ Len(Single!Without(e)) = m - 1
        /\ \A k \in 1 .. m - 1 : Single!Without(e)[k] = IF k < q THEN list[k] ELSE list[k + 1]
    BY <1>5, SingleWithoutFacts
  <2>2. list' = Append(Single!Without(e), e) /\ next[e] # NULL
    BY DEF Single!MoveToBack
  <2>3. /\ list' \in Seq(Element) /\ Len(list') = Len(Single!Without(e)) + 1
        /\ \A k \in 1 .. Len(Single!Without(e)) + 1 :
              list'[k] = IF k = Len(Single!Without(e)) + 1 THEN e ELSE Single!Without(e)[k]
    BY <2>1, <2>2, AppendFacts
  <2>4. Len(Single!Without(e)) + 1 = m /\ q < m
    BY <1>1, <1>5, <2>1, <2>2
  <2>5. ASSUME NEW k \in 1..m, k # m
        PROVE  list'[k] = IF k < q THEN list[k] ELSE list[k + 1]
    <3>1. k \in 1 .. m - 1
      BY <1>1, <2>5
    <3> QED
      BY <2>1, <2>3, <2>4, <2>5, <3>1
  <2> QED
    BY <2>3, <2>4, <2>5
<1>3. /\ next' \in [Element -> Single!Pointer]
      /\ \A x \in Element : next'[x] = IF x = last_element THEN e ELSE IF x = e THEN NULL
                                      ELSE IF p # NULL /\ x = p THEN next[e] ELSE next[x]
  <2>1. last_element \in Element /\ last_element # e /\ (p # NULL => p # e)
    <3>1. m \in 1..m /\ m # q /\ (q > 1 => q - 1 \in 1..m /\ q - 1 # q)
      BY <1>1, <1>2, <1>5
    <3> QED
      BY <1>1, <1>5, <3>1
  <2>2. next \in [Element -> Single!Pointer] /\ e \in Single!Pointer /\ NULL \in Single!Pointer /\ next[e] \in Single!Pointer
    BY <1>1 DEF SingleInv, Single!TypeOK, Single!Pointer
  <2>3. CASE p # NULL
    <3>1. next' = [[next EXCEPT ![p] = next[e]] EXCEPT ![e] = NULL, ![last_element] = e]
      BY <2>3 DEF Single!MoveToBack, Single!Bypass
    <3> QED
      BY <1>5, <2>1, <2>2, <2>3, <3>1
  <2>4. CASE p = NULL
    <3>1. next' = [next EXCEPT ![e] = NULL, ![last_element] = e]
      BY <2>4 DEF Single!MoveToBack
    <3> QED
      BY <2>1, <2>2, <2>4, <3>1
  <2> QED
    BY <2>3, <2>4
<1>4. /\ first_element' = IF p = NULL THEN next[e] ELSE first_element
      /\ last_element' = e
      /\ first_element' \in Single!Pointer /\ last_element' \in Single!Pointer
  BY <1>1 DEF Single!MoveToBack, Single!Pointer
<1> HIDE DEF m, q
<1>6. /\ first_element' = list'[1]
      /\ last_element' = list'[m]
  <2>1. m \in 1..m /\ 1 \in 1..m /\ m # 1
    BY <1>1, <1>2, <1>5
  <2> QED
    BY <1>1, <1>2, <1>4, <1>5, <2>1
<1>7. ASSUME NEW k \in 1..m
      PROVE  next'[list'[k]] = IF k = m THEN NULL ELSE list'[k + 1]
  <2>0. last_element = list[m] /\ m \in 1..m
    BY <1>1, <1>5
  <2>1. CASE k = m
    <3>1. last_element # e
      BY <1>1, <1>2, <1>5, <2>0
    <3> QED
      BY <1>2, <1>3, <2>1, <3>1
  <2>2. CASE k = m - 1
    <3>1. list'[k] = list[m] /\ list'[k + 1] = e /\ k # m
      BY <1>1, <1>2, <1>5, <2>2
    <3> QED
      BY <1>1, <1>3, <2>0, <3>1
  <2>3. CASE k < m - 1 /\ k < q - 1
    <3>1. /\ k \in 1..m /\ k + 1 \in 1..m /\ k # m /\ k # q /\ k # q - 1
          /\ q - 1 \in 1..m
          /\ list'[k] = list[k] /\ list'[k + 1] = list[k + 1]
      BY <1>1, <1>2, <1>5, <2>3
    <3>2. list[k] # e /\ list[k] # last_element /\ (p # NULL => list[k] # p)
      BY <1>1, <1>5, <2>0, <3>1
    <3> QED
      BY <1>1, <1>3, <3>1, <3>2
  <2>4. CASE k < m - 1 /\ k = q - 1
    <3>1. /\ k \in 1..m /\ k # m /\ q # m /\ p # NULL /\ k # q
          /\ list'[k] = p /\ list'[k + 1] = list[q + 1]
      BY <1>1, <1>2, <1>5, <2>4
    <3>2. p # e /\ p # last_element
      BY <1>1, <1>5, <2>0, <2>4, <3>1
    <3>3. next'[p] = next[e]
      BY <1>3, <1>5, <3>1, <3>2
    <3> QED
      BY <1>5, <3>1, <3>3
  <2>5. CASE k < m - 1 /\ k > q - 1
    <3>1. /\ k + 1 \in 1..m /\ k + 1 # m /\ k + 1 # q /\ k + 1 # q - 1 /\ k # m
          /\ q > 1 => q - 1 \in 1..m
          /\ list'[k] = list[k + 1] /\ list'[k + 1] = list[(k + 1) + 1]
      BY <1>1, <1>2, <1>5, <2>5
    <3>2. /\ list[k + 1] # e /\ list[k + 1] # last_element
          /\ p # NULL => list[k + 1] # p
      BY <1>1, <1>5, <2>0, <3>1
    <3> QED
      BY <1>1, <1>3, <3>1, <3>2
  <2> QED
    BY <1>1, <1>5, <2>1, <2>2, <2>3, <2>4, <2>5
<1>8. \A k, l \in 1..m : list'[k] = list'[l] => k = l
  <2> DEFINE old(k) == IF k = m THEN q ELSE IF k < q THEN k ELSE k + 1
  <2>1. \A k \in 1..m : old(k) \in 1..m /\ list'[k] = list[old(k)]
    BY <1>1, <1>2, <1>5
  <2>2. \A k, l \in 1..m : old(k) = old(l) => k = l
    BY <1>1, <1>2, <1>5
  <2> HIDE DEF old
  <2> QED
    BY <1>1, <2>1, <2>2
<1>9. SingleInv'
  <2>1. Single!TypeOK'
    BY <1>1, <1>2, <1>3, <1>4, <1>5 DEF Single!TypeOK, Single!Pointer
  <2>2. m # 0
    BY <1>1, <1>5
  <2> QED
    BY <1>1, <1>2, <1>6, <1>7, <1>8, <2>1, <2>2 DEF SingleInv, Single!LinksFollowList
<1>11. Single!OutsidersUntouched
  <2>1. (p # NULL => p \in Single!Members) /\ last_element \in Single!Members
    BY <1>1, <1>5
  <2> QED
    BY <1>3, <1>5, <2>1 DEF Single!OutsidersUntouched
<1> QED
  BY <1>9, <1>11

LEMMA SingleStepKeeps ==
    ASSUME Single!ElementAssumption, SingleInv, [Single!Next]_(Single!listVars)
    PROVE  SingleInv' /\ (Single!OutsidersUntouched \/ UNCHANGED Single!listVars)
<1>1. CASE UNCHANGED Single!listVars
  BY <1>1 DEF Single!listVars, SingleInv, Single!TypeOK, Single!LinksFollowList
<1> QED
  BY <1>1, SingleRemoveFirstKeeps, SingleEmptyKeeps, SingleInsertFirstKeeps, SingleAppendElementKeeps,
     SingleInsertAfterKeeps, SingleRemoveKeeps, SingleMoveToFrontKeeps, SingleMoveToBackKeeps DEF Single!Next

LEMMA SingleInvariance == ASSUME Single!ElementAssumption PROVE Single!Spec => []SingleInv
<1>1. Single!Init => SingleInv
  BY SingleInitKeeps
<1>2. SingleInv /\ [Single!Next]_(Single!listVars) => SingleInv'
  BY SingleStepKeeps
<1> QED
  BY <1>1, <1>2, PTL DEF Single!Spec

-------------------------------------------------------------------------------
(* Theorems *)

\* The variables keep the types of their declarations.
THEOREM SingleTypeCorrect == ASSUME Single!ElementAssumption PROVE Single!Spec => []Single!TypeOK
<1>1. SingleInv => Single!TypeOK
  BY DEF SingleInv
<1> QED
  BY <1>1, SingleInvariance, PTL

\* Whoever follows the links visits what the operations have put in the list,
\* in their order, and ends with NULL at the last element.
THEOREM SingleLinksAreRight == ASSUME Single!ElementAssumption PROVE Single!Spec => []Single!LinksFollowList
<1>1. SingleInv => Single!LinksFollowList
  BY DEF SingleInv
<1> QED
  BY <1>1, SingleInvariance, PTL

\* An object that has left the list is not written to any more.
THEOREM SingleOutsidersAreSafe == ASSUME Single!ElementAssumption PROVE Single!Spec => Single!WritesMembersOnly
<1>1. SingleInv /\ [Single!Next]_(Single!listVars) => [Single!OutsidersUntouched]_(Single!listVars)
  BY SingleStepKeeps
<1> QED
  BY <1>1, SingleInvariance, PTL DEF Single!Spec, Single!WritesMembersOnly

-------------------------------------------------------------------------------
(* Sequences and the links between their elements *)

Elements(s) == {s[k] : k \in 1..Len(s)}
Distinct(s) == \A k, l \in 1..Len(s) : s[k] = s[l] => k = l
FirstOf(s)  == IF Len(s) = 0 THEN NULL ELSE s[1]
LastOf(s)   == IF Len(s) = 0 THEN NULL ELSE s[Len(s)]

\* f leads from each element of s to the next one, and g back.
Linked(f, g, s) ==
    \A k \in 1 .. Len(s) - 1 : f[s[k]] = s[k + 1] /\ g[s[k + 1]] = s[k]

\* t is s with n put in at the position i, or with the element there taken out.
IsInserted(t, s, i, n) ==
    /\ t \in Seq(Element) /\ Len(t) = Len(s) + 1
    /\ \A k \in 1 .. Len(s) + 1 :
          t[k] = IF k < i THEN s[k] ELSE IF k = i THEN n ELSE s[k - 1]
IsRemoved(t, s, i) ==
    /\ t \in Seq(Element) /\ Len(t) = Len(s) - 1
    /\ \A k \in 1 .. Len(s) - 1 : t[k] = IF k < i THEN s[k] ELSE s[k + 1]

\* The links f1 and g1 differ from f and g as insertion or removal requires.
LinksInserted(f1, g1, f, g, s, i, n) ==
    /\ i > 1 => f1[s[i - 1]] = n /\ g1[n] = s[i - 1]
    /\ i <= Len(s) => f1[n] = s[i] /\ g1[s[i]] = n
    /\ \A k \in 1..Len(s) : /\ k # i - 1 => f1[s[k]] = f[s[k]]
                            /\ k # i => g1[s[k]] = g[s[k]]
LinksRemoved(f1, g1, f, g, s, i) ==
    /\ i > 1 /\ i < Len(s) => f1[s[i - 1]] = s[i + 1] /\ g1[s[i + 1]] = s[i - 1]
    /\ \A k \in 1..Len(s) : /\ k # i - 1 /\ k # i => f1[s[k]] = f[s[k]]
                            /\ k # i + 1 /\ k # i => g1[s[k]] = g[s[k]]

LEMMA InsertedFacts ==
    ASSUME NEW s \in Seq(Element), NEW t, NEW i \in 1 .. Len(s) + 1, NEW n \in Element,
           Distinct(s), n \notin Elements(s), IsInserted(t, s, i, n)
    PROVE  /\ Elements(t) = Elements(s) \cup {n}
           /\ Distinct(t)
           /\ FirstOf(t) = IF i = 1 THEN n ELSE FirstOf(s)
           /\ LastOf(t) = IF i = Len(s) + 1 THEN n ELSE LastOf(s)
<1> DEFINE m == Len(s)
<1>1. /\ m \in Nat /\ Len(t) = m + 1
      /\ \A k \in 1 .. m + 1 :
            t[k] = IF k < i THEN s[k] ELSE IF k = i THEN n ELSE s[k - 1]
      /\ \A k \in 1..m : s[k] # n
      /\ i \in 1 .. m + 1
      /\ \A k, l \in 1..m : s[k] = s[l] => k = l
  BY LenProperties DEF IsInserted, Elements, Distinct
<1>2. Elements(s) = {s[k] : k \in 1..m} /\ Elements(t) = {t[k] : k \in 1 .. m + 1}
  BY <1>1 DEF Elements
<1> HIDE DEF m
<1>3. Elements(t) = Elements(s) \cup {n}
  <2>1. ASSUME NEW x \in Elements(t) PROVE x \in Elements(s) \cup {n}
    <3>1. PICK k \in 1 .. m + 1 : x = t[k]
      BY <1>2
    <3>2. k < i => k \in 1..m
      BY <1>1
    <3>3. k > i => k - 1 \in 1..m /\ ~(k < i) /\ k # i
      BY <1>1
    <3>4. k < i \/ k = i \/ k > i
      BY <1>1
    <3> QED
      BY <1>1, <1>2, <3>1, <3>2, <3>3, <3>4
  <2>2. n \in Elements(t)
    BY <1>1, <1>2
  <2>3. ASSUME NEW k \in 1..m PROVE s[k] \in Elements(t)
    <3>1. CASE k < i
      <4>1. k \in 1 .. m + 1 /\ t[k] = s[k]
        BY <1>1, <3>1
      <4> QED
        BY <1>2, <4>1
    <3>2. CASE k >= i
      <4>1. k + 1 \in 1 .. m + 1 /\ t[k + 1] = s[(k + 1) - 1] /\ (k + 1) - 1 = k
        BY <1>1, <3>2
      <4> QED
        BY <1>2, <4>1
    <3> QED
      BY <1>1, <3>1, <3>2
  <2> QED
    BY <1>2, <2>1, <2>2, <2>3
<1>4. Distinct(t)
  <2> SUFFICES ASSUME NEW k \in 1 .. m + 1, NEW l \in 1 .. m + 1, t[k] = t[l] PROVE k = l
    BY <1>1 DEF Distinct
  <2> DEFINE old(x) == IF x < i THEN x ELSE x - 1
  <2>1. \A x \in 1 .. m + 1 : x # i => old(x) \in 1..m /\ t[x] = s[old(x)]
    BY <1>1
  <2>2. t[i] = n
    BY <1>1
  <2>3. k # i /\ l # i /\ old(k) = old(l) => k = l
    BY <1>1
  <2> HIDE DEF old
  <2> QED
    BY <1>1, <2>1, <2>2, <2>3, ZenonT(30)
<1>5. FirstOf(t) = IF i = 1 THEN n ELSE FirstOf(s)
  BY <1>1 DEF FirstOf, m
<1>6. LastOf(t) = IF i = Len(s) + 1 THEN n ELSE LastOf(s)
  BY <1>1 DEF LastOf, m
<1> QED
  BY <1>3, <1>4, <1>5, <1>6

LEMMA RemovedFacts ==
    ASSUME NEW s \in Seq(Element), NEW t, NEW i \in 1..Len(s), Distinct(s), IsRemoved(t, s, i)
    PROVE  /\ Elements(t) = Elements(s) \ {s[i]}
           /\ Distinct(t)
           /\ FirstOf(t) = IF Len(s) = 1 THEN NULL ELSE IF i = 1 THEN s[2] ELSE s[1]
           /\ LastOf(t) = IF Len(s) = 1 THEN NULL
                          ELSE IF i = Len(s) THEN s[i - 1] ELSE s[Len(s)]
<1> DEFINE m == Len(s)
<1>1. /\ m \in Nat /\ Len(t) = m - 1
      /\ \A k \in 1 .. m - 1 : t[k] = IF k < i THEN s[k] ELSE s[k + 1]
      /\ i \in 1..m
      /\ \A k, l \in 1..m : s[k] = s[l] => k = l
  BY LenProperties DEF IsRemoved, Distinct
<1>2. Elements(s) = {s[k] : k \in 1..m} /\ Elements(t) = {t[k] : k \in 1 .. m - 1}
  BY <1>1 DEF Elements
<1> DEFINE old(x) == IF x < i THEN x ELSE x + 1
           new(x) == IF x < i THEN x ELSE x - 1
<1>3. /\ \A x \in 1 .. m - 1 : old(x) \in 1..m /\ t[x] = s[old(x)] /\ old(x) # i
      /\ \A x, y \in 1 .. m - 1 : old(x) = old(y) => x = y
      /\ \A x \in 1..m : x # i => new(x) \in 1 .. m - 1 /\ s[x] = t[new(x)]
  BY <1>1
<1>4. FirstOf(t) = IF Len(s) = 1 THEN NULL ELSE IF i = 1 THEN s[2] ELSE s[1]
  BY <1>1 DEF FirstOf
<1>5. LastOf(t) = IF Len(s) = 1 THEN NULL ELSE IF i = Len(s) THEN s[i - 1] ELSE s[Len(s)]
  <2>1. CASE m = 1
    BY <1>1, <2>1 DEF LastOf
  <2>2. CASE m > 1
    <3>1. m - 1 \in 1 .. m - 1 /\ (m - 1) + 1 = m /\ (m - 1 < i <=> i = m) /\ m # 1 /\ m - 1 # 0
      BY <1>1, <2>2
    <3>2. t[m - 1] = IF i = m THEN s[m - 1] ELSE s[m]
      BY <1>1, <3>1
    <3> QED
      BY <1>1, <3>1, <3>2 DEF LastOf
  <2> QED
    BY <1>1, <2>1, <2>2
<1> HIDE DEF m, old, new
<1>6. Elements(t) = Elements(s) \ {s[i]}
  <2>1. ASSUME NEW x \in Elements(t) PROVE x \in Elements(s) /\ x # s[i]
    <3>1. PICK k \in 1 .. m - 1 : x = t[k]
      BY <1>2
    <3>2. old(k) \in 1..m /\ x = s[old(k)] /\ old(k) # i
      BY <1>3, <3>1
    <3> QED
      BY <1>1, <1>2, <3>2
  <2>2. ASSUME NEW x \in Elements(s), x # s[i] PROVE x \in Elements(t)
    <3>1. PICK k \in 1..m : x = s[k] /\ k # i
      BY <1>2, <2>2
    <3>2. new(k) \in 1 .. m - 1 /\ x = t[new(k)]
      BY <1>3, <3>1
    <3> QED
      BY <1>2, <3>2
  <2> QED
    BY <2>1, <2>2
<1>7. Distinct(t)
  BY <1>1, <1>3 DEF Distinct
<1> QED
  BY <1>4, <1>5, <1>6, <1>7

\* What the operations make of the list.
LEMMA InsertAtFacts ==
    ASSUME NEW s \in Seq(Element), NEW i \in 1 .. Len(s) + 1, NEW n \in Element
    PROVE  IsInserted(Seqs!InsertAt(s, i, n), s, i, n)
<1> DEFINE t == Single!Seqs!InsertAt(s, i, n)
<1>1. /\ t \in Seq(Element) /\ Len(t) = Len(s) + 1
      /\ \A k \in 1 .. Len(s) + 1 :
            t[k] = IF k < i THEN s[k] ELSE IF k = i THEN n ELSE s[k - 1]
  BY SingleInsertAtFacts
<1>2. Seqs!InsertAt(s, i, n) = t
  BY DEF Seqs!InsertAt, Single!Seqs!InsertAt
<1> HIDE DEF t
<1> QED
  BY <1>1, <1>2 DEF IsInserted

LEMMA RemoveAtFacts ==
    ASSUME NEW s \in Seq(Element), NEW i \in 1..Len(s)
    PROVE  IsRemoved(Base!Seqs!RemoveAt(s, i), s, i)
<1> DEFINE t == Single!Seqs!RemoveAt(s, i)
<1>1. /\ t \in Seq(Element) /\ Len(t) = Len(s) - 1
      /\ \A k \in 1 .. Len(s) - 1 : t[k] = IF k < i THEN s[k] ELSE s[k + 1]
  BY SingleRemoveAtFacts
<1>2. Base!Seqs!RemoveAt(s, i) = t
  BY DEF Base!Seqs!RemoveAt, Single!Seqs!RemoveAt
<1> HIDE DEF t
<1> QED
  BY <1>1, <1>2 DEF IsRemoved

LEMMA LinkInserted ==
    ASSUME NEW s \in Seq(Element), NEW t, NEW i \in 1 .. Len(s) + 1, NEW n,
           IsInserted(t, s, i, n), NEW f, NEW g, NEW f1, NEW g1,
           Linked(f, g, s), LinksInserted(f1, g1, f, g, s, i, n)
    PROVE  Linked(f1, g1, t)
<1> DEFINE m == Len(s)
<1>1. /\ m \in Nat /\ Len(t) = m + 1
      /\ \A k \in 1 .. m + 1 :
            t[k] = IF k < i THEN s[k] ELSE IF k = i THEN n ELSE s[k - 1]
      /\ i \in 1 .. m + 1
  BY LenProperties DEF IsInserted
<1>2. \A k \in 1 .. m - 1 : f[s[k]] = s[k + 1] /\ g[s[k + 1]] = s[k]
  BY DEF Linked
<1>3. /\ i > 1 => f1[s[i - 1]] = n /\ g1[n] = s[i - 1]
      /\ i <= m => f1[n] = s[i] /\ g1[s[i]] = n
      /\ \A k \in 1..m : /\ k # i - 1 => f1[s[k]] = f[s[k]]
                         /\ k # i => g1[s[k]] = g[s[k]]
  BY DEF LinksInserted
<1> HIDE DEF m
<1>4. ASSUME NEW k \in 1 .. m
      PROVE  f1[t[k]] = t[k + 1] /\ g1[t[k + 1]] = t[k]
  <2>1. CASE k < i - 1
    <3>1. /\ k \in 1 .. m - 1 /\ k \in 1..m /\ k + 1 \in 1..m /\ k # i - 1 /\ k + 1 # i
          /\ t[k] = s[k] /\ t[k + 1] = s[k + 1]
      BY <1>1, <2>1
    <3> QED
      BY <1>2, <1>3, <3>1
  <2>2. CASE k = i - 1
    <3>1. i > 1 /\ t[k] = s[i - 1] /\ t[k + 1] = n
      BY <1>1, <2>2
    <3> QED
      BY <1>3, <3>1
  <2>3. CASE k = i
    <3>1. i <= m /\ t[k] = n /\ t[k + 1] = s[(k + 1) - 1] /\ (k + 1) - 1 = i
      BY <1>1, <2>3
    <3> QED
      BY <1>3, <3>1
  <2>4. CASE k > i
    <3>1. /\ k - 1 \in 1 .. m - 1 /\ k - 1 \in 1..m /\ (k - 1) + 1 \in 1..m
          /\ k - 1 # i - 1 /\ (k - 1) + 1 # i
          /\ t[k] = s[k - 1] /\ t[k + 1] = s[(k - 1) + 1]
      BY <1>1, <2>4
    <3> QED
      BY <1>2, <1>3, <3>1
  <2> QED
    BY <1>1, <2>1, <2>2, <2>3, <2>4
<1>5. (m + 1) - 1 = m
  BY <1>1
<1> QED
  BY <1>1, <1>4, <1>5 DEF Linked

LEMMA LinkRemoved ==
    ASSUME NEW s \in Seq(Element), NEW t, NEW i \in 1..Len(s), IsRemoved(t, s, i),
           NEW f, NEW g, NEW f1, NEW g1,
           Linked(f, g, s), LinksRemoved(f1, g1, f, g, s, i)
    PROVE  Linked(f1, g1, t)
<1> DEFINE m == Len(s)
<1>1. /\ m \in Nat /\ Len(t) = m - 1
      /\ \A k \in 1 .. m - 1 : t[k] = IF k < i THEN s[k] ELSE s[k + 1]
      /\ i \in 1..m
  BY LenProperties DEF IsRemoved
<1>2. \A k \in 1 .. m - 1 : f[s[k]] = s[k + 1] /\ g[s[k + 1]] = s[k]
  BY DEF Linked
<1>3. /\ i > 1 /\ i < m => f1[s[i - 1]] = s[i + 1] /\ g1[s[i + 1]] = s[i - 1]
      /\ \A k \in 1..m : /\ k # i - 1 /\ k # i => f1[s[k]] = f[s[k]]
                         /\ k # i + 1 /\ k # i => g1[s[k]] = g[s[k]]
  BY DEF LinksRemoved
<1> HIDE DEF m
<1>4. ASSUME NEW k \in 1 .. (m - 1) - 1
      PROVE  f1[t[k]] = t[k + 1] /\ g1[t[k + 1]] = t[k]
  <2>1. CASE k < i - 1
    <3>1. /\ k \in 1 .. m - 1 /\ k \in 1..m /\ k + 1 \in 1..m
          /\ k # i - 1 /\ k # i /\ k + 1 # i + 1 /\ k + 1 # i
          /\ t[k] = s[k] /\ t[k + 1] = s[k + 1]
      BY <1>1, <2>1
    <3> QED
      BY <1>2, <1>3, <3>1
  <2>2. CASE k = i - 1
    <3>1. i > 1 /\ i < m /\ t[k] = s[i - 1] /\ t[k + 1] = s[(k + 1) + 1] /\ (k + 1) + 1 = i + 1
      BY <1>1, <2>2
    <3> QED
      BY <1>3, <3>1
  <2>3. CASE k >= i
    <3>1. /\ k + 1 \in 1 .. m - 1 /\ k + 1 \in 1..m /\ (k + 1) + 1 \in 1..m
          /\ k + 1 # i - 1 /\ k + 1 # i /\ (k + 1) + 1 # i + 1 /\ (k + 1) + 1 # i
          /\ t[k] = s[k + 1] /\ t[k + 1] = s[(k + 1) + 1]
      BY <1>1, <2>3
    <3> QED
      BY <1>2, <1>3, <3>1
  <2> QED
    BY <1>1, <2>1, <2>2, <2>3
<1> QED
  BY <1>1, <1>4 DEF Linked

-------------------------------------------------------------------------------
(* The inductive invariant *)

IInv == TypeOK /\ LinksFollowList /\ WrappersAreMembers

\* What it says, in the terms of the lemmas above.
LEMMA StateFacts ==
    ASSUME ElementAssumption, IInv
    PROVE  /\ list \in Seq(Element) /\ Len(list) \in Nat
           /\ Members = Elements(list) /\ Members \subseteq Element /\ NULL \notin Members
           /\ \A k \in 1..Len(list) : list[k] \in Members
           /\ Linked(next, prev, list) /\ Distinct(list)
           /\ first_element = FirstOf(list) /\ last_element = LastOf(list)
           /\ next \in [Element -> Pointer] /\ prev \in [Element -> Pointer]
           /\ first_element \in Pointer /\ last_element \in Pointer
           /\ live = Members
<1>1. /\ list \in Seq(Element)
      /\ next \in [Element -> Pointer] /\ prev \in [Element -> Pointer]
      /\ first_element \in Pointer /\ last_element \in Pointer
  BY DEF IInv, TypeOK, Base!TypeOK, Base!Pointer, Pointer
<1>2. Len(list) \in Nat /\ DOMAIN list = 1..Len(list)
  BY <1>1, LenProperties
<1>3. Members = Elements(list)
  BY <1>2 DEF Members, Base!Members, Elements
<1>4. \A k \in 1..Len(list) : list[k] \in Element
  BY <1>1, ElementOfSeq
<1>5. Linked(next, prev, list) /\ Distinct(list)
  BY DEF IInv, LinksFollowList, Linked, Distinct
<1>6. first_element = FirstOf(list) /\ last_element = LastOf(list)
  BY DEF IInv, LinksFollowList, FirstOf, LastOf
<1>7. live = Members
  BY DEF IInv, WrappersAreMembers
<1> QED
  BY <1>1, <1>2, <1>3, <1>4, <1>5, <1>6, <1>7 DEF Elements, ElementAssumption

\* What a step has to show.
LEMMA StepFacts ==
    ASSUME ElementAssumption, list' \in Seq(Element), Linked(next', prev', list'),
           Distinct(list'), first_element' = FirstOf(list'), last_element' = LastOf(list'),
           next' \in [Element -> Pointer], prev' \in [Element -> Pointer],
           live' = Elements(list')
    PROVE  IInv' /\ Members' = Elements(list')
<1>1. Len(list') \in Nat /\ DOMAIN list' = 1..Len(list')
  BY LenProperties
<1>2. \A k \in 1..Len(list') : list'[k] \in Element
  BY ElementOfSeq
<1>3. first_element' \in Pointer /\ last_element' \in Pointer
  BY <1>1, <1>2 DEF FirstOf, LastOf, Pointer
<1>4. TypeOK'
  BY <1>3 DEF TypeOK, Base!TypeOK, Base!Pointer, Pointer
<1>5. LinksFollowList'
  BY DEF LinksFollowList, Linked, Distinct, FirstOf, LastOf
<1>6. Members' = Elements(list')
  BY <1>1 DEF Members, Base!Members, Elements
<1> QED
  BY <1>4, <1>5, <1>6 DEF IInv, WrappersAreMembers

LEMMA PositionFacts ==
    ASSUME ElementAssumption, IInv, NEW e \in Members
    PROVE  /\ Position(e) \in 1..Len(list) /\ list[Position(e)] = e
           /\ \A k \in 1..Len(list) : list[k] = e => k = Position(e)
<1>1. DOMAIN list = 1..Len(list)
  BY StateFacts, LenProperties
<1>2. \E k \in DOMAIN list : list[k] = e
  BY DEF Members, Base!Members
<1>3. Position(e) \in DOMAIN list /\ list[Position(e)] = e
  BY <1>2 DEF Position, Base!Position
<1> QED
  BY <1>1, <1>3, StateFacts DEF Distinct

LEMMA InitKeeps == ASSUME ElementAssumption, ContainerInit PROVE IInv
<1>1. list = << >> /\ list \in Seq(Element) /\ Len(list) = 0 /\ DOMAIN list = {}
  BY EmptySeq DEF ContainerInit, Init, Base!Init
<1>2. TypeOK
  BY <1>1 DEF ContainerInit, Init, Base!Init, TypeOK, Base!TypeOK, Base!Pointer, Pointer
<1>3. LinksFollowList
  BY <1>1 DEF ContainerInit, Init, Base!Init, LinksFollowList
<1>4. WrappersAreMembers
  BY <1>1 DEF ContainerInit, WrappersAreMembers, Members, Base!Members
<1> QED
  BY <1>2, <1>3, <1>4 DEF IInv

-------------------------------------------------------------------------------
(* Insertions *)

\* A new wrapper n is put in at the position i.
LEMMA InsertionKeeps ==
    ASSUME ElementAssumption, IInv, NEW n \in Element, n \notin Members,
           NEW i \in 1 .. Len(list) + 1, IsInserted(list', list, i, n),
           LinksInserted(next', prev', next, prev, list, i, n),
           next' \in [Element -> Pointer], prev' \in [Element -> Pointer],
           first_element' = IF i = 1 THEN n ELSE first_element,
           last_element' = IF i = Len(list) + 1 THEN n ELSE last_element,
           live' = live \cup {n}
    PROVE  IInv' /\ Members' = Members \cup {n}
<1>1. /\ list \in Seq(Element) /\ Members = Elements(list) /\ Distinct(list)
      /\ Linked(next, prev, list) /\ live = Members
      /\ first_element = FirstOf(list) /\ last_element = LastOf(list)
  BY StateFacts
<1>2. /\ Elements(list') = Elements(list) \cup {n}
      /\ Distinct(list')
      /\ FirstOf(list') = IF i = 1 THEN n ELSE FirstOf(list)
      /\ LastOf(list') = IF i = Len(list) + 1 THEN n ELSE LastOf(list)
  BY <1>1, InsertedFacts
<1>3. Linked(next', prev', list')
  BY <1>1, LinkInserted
<1>4. list' \in Seq(Element)
  BY DEF IsInserted
<1> QED
  BY <1>1, <1>2, <1>3, <1>4, StepFacts

\* No element of the list is n, and none is at two positions.
LEMMA OtherElements ==
    ASSUME ElementAssumption, IInv, NEW n, n \notin Members
    PROVE  /\ \A k \in 1..Len(list) : list[k] # n /\ list[k] \in Element
           /\ \A k, l \in 1..Len(list) : list[k] = list[l] => k = l
           /\ Len(list) \in Nat
  BY StateFacts DEF Distinct

LEMMA InsertFirstKeeps ==
    ASSUME ElementAssumption, IInv, ContainerInsertFirst
    PROVE  IInv' /\ OutsidersUntouched /\ EndsStayClosed
<1> DEFINE m == Len(list)
<1>1. PICK n \in Element : Allocate(n) /\ InsertFirst(n)
  BY DEF ContainerInsertFirst
<1>2. /\ n \notin Members /\ live' = live \cup {n}
      /\ first_element' = n
      /\ last_element' = IF first_element = NULL THEN n ELSE last_element
      /\ list' = <<n>> \o list
  BY <1>1 DEF Allocate, InsertFirst
<1>3. /\ m \in Nat /\ list \in Seq(Element)
      /\ \A k \in 1..m : list[k] # n /\ list[k] \in Element /\ list[k] # NULL
      /\ \A k, l \in 1..m : list[k] = list[l] => k = l
      /\ first_element = IF m = 0 THEN NULL ELSE list[1]
      /\ last_element = IF m = 0 THEN NULL ELSE list[m]
  BY <1>2, StateFacts, OtherElements DEF FirstOf, LastOf
<1>4. first_element \in Pointer /\ n # NULL /\ NULL \notin Element
  BY <1>1, StateFacts DEF ElementAssumption
<1>5. /\ next' \in [Element -> Pointer] /\ prev' \in [Element -> Pointer]
      /\ \A x \in Element : /\ next'[x] = IF x = n THEN first_element ELSE next[x]
                            /\ prev'[x] = IF x = first_element THEN n
                                          ELSE IF x = n THEN NULL ELSE prev[x]
  BY <1>1, <1>4, StateFacts DEF InsertFirst, Relinked, Pointer
<1>6. IsInserted(list', list, 1, n)
  <2>1. /\ list' \in Seq(Element) /\ Len(list') = m + 1
        /\ \A k \in 1 .. m + 1 : list'[k] = IF k = 1 THEN n ELSE list[k - 1]
    BY <1>2, <1>3, PrependFacts
  <2> QED
    BY <1>3, <2>1 DEF IsInserted
<1> HIDE DEF m
<1>7. LinksInserted(next', prev', next, prev, list, 1, n)
  <2>1. m >= 1 => next'[n] = list[1] /\ prev'[list[1]] = n
    BY <1>3, <1>5
  <2>2. ASSUME NEW k \in 1..m
        PROVE  next'[list[k]] = next[list[k]] /\ (k # 1 => prev'[list[k]] = prev[list[k]])
    BY <1>3, <1>5, <2>2
  <2> QED
    BY <2>1, <2>2 DEF LinksInserted, m
<1>8. 1 \in 1 .. m + 1 /\ (first_element = NULL <=> 1 = m + 1)
  BY <1>3
<1>9. IInv' /\ Members' = Members \cup {n}
  BY <1>2, <1>5, <1>6, <1>7, <1>8, InsertionKeeps DEF m
<1>10. OutsidersUntouched
  <2>1. first_element # NULL => first_element \in Members
    BY <1>3, StateFacts DEF m
  <2> QED
    BY <1>4, <1>5, <1>9, <2>1 DEF OutsidersUntouched
<1>11. EndsStayClosed
  <2>1. FirstIsClosed'
    BY <1>2, <1>3, <1>5 DEF FirstIsClosed
  <2>2. LastIsClosed => LastIsClosed'
    BY <1>2, <1>3, <1>4, <1>5 DEF LastIsClosed
  <2> QED
    BY <2>1, <2>2 DEF EndsStayClosed
<1> QED
  BY <1>9, <1>10, <1>11

LEMMA AppendKeeps ==
    ASSUME ElementAssumption, IInv, ContainerAppend
    PROVE  IInv' /\ OutsidersUntouched /\ EndsStayClosed
<1> DEFINE m == Len(list)
<1>1. PICK n \in Element : Allocate(n) /\ AppendElement(n)
  BY DEF ContainerAppend
<1>2. /\ n \notin Members /\ live' = live \cup {n}
      /\ first_element' = IF last_element = NULL THEN n ELSE first_element
      /\ last_element' = n
      /\ list' = Append(list, n)
  BY <1>1 DEF Allocate, AppendElement
<1>3. /\ m \in Nat /\ list \in Seq(Element)
      /\ \A k \in 1..m : list[k] # n /\ list[k] \in Element /\ list[k] # NULL
      /\ \A k, l \in 1..m : list[k] = list[l] => k = l
      /\ first_element = IF m = 0 THEN NULL ELSE list[1]
      /\ last_element = IF m = 0 THEN NULL ELSE list[m]
  BY <1>2, StateFacts, OtherElements DEF FirstOf, LastOf
<1>4. last_element \in Pointer /\ n # NULL /\ NULL \notin Element
  BY <1>1, StateFacts DEF ElementAssumption
<1>5. /\ next' \in [Element -> Pointer] /\ prev' \in [Element -> Pointer]
      /\ \A x \in Element : /\ next'[x] = IF x = last_element THEN n
                                          ELSE IF x = n THEN NULL ELSE next[x]
                            /\ prev'[x] = IF x = n THEN last_element ELSE prev[x]
  BY <1>1, <1>4, StateFacts DEF AppendElement, Relinked, Pointer
<1>6. IsInserted(list', list, m + 1, n)
  <2>1. /\ list' \in Seq(Element) /\ Len(list') = m + 1
        /\ \A k \in 1 .. m + 1 : list'[k] = IF k = m + 1 THEN n ELSE list[k]
    BY <1>2, <1>3, AppendFacts
  <2> QED
    BY <1>3, <2>1 DEF IsInserted
<1> HIDE DEF m
<1>7. LinksInserted(next', prev', next, prev, list, m + 1, n)
  <2>1. m + 1 > 1 => next'[list[(m + 1) - 1]] = n /\ prev'[n] = list[(m + 1) - 1]
    BY <1>3, <1>5
  <2>2. ASSUME NEW k \in 1..m
        PROVE  (k # (m + 1) - 1 => next'[list[k]] = next[list[k]]) /\ prev'[list[k]] = prev[list[k]]
    BY <1>3, <1>5, <2>2
  <2>3. ~(m + 1 <= m)
    BY <1>3
  <2> QED
    BY <2>1, <2>2, <2>3 DEF LinksInserted, m
<1>8. m + 1 \in 1 .. m + 1 /\ (last_element = NULL <=> m + 1 = 1)
  BY <1>3
<1>9. IInv' /\ Members' = Members \cup {n}
  BY <1>2, <1>5, <1>6, <1>7, <1>8, InsertionKeeps DEF m
<1>10. OutsidersUntouched
  <2>1. last_element # NULL => last_element \in Members
    BY <1>3, StateFacts DEF m
  <2> QED
    BY <1>4, <1>5, <1>9, <2>1 DEF OutsidersUntouched
<1>11. EndsStayClosed
  <2>1. LastIsClosed'
    BY <1>2, <1>3, <1>5 DEF LastIsClosed
  <2>2. FirstIsClosed => FirstIsClosed'
    BY <1>2, <1>3, <1>4, <1>5 DEF FirstIsClosed
  <2> QED
    BY <2>1, <2>2 DEF EndsStayClosed
<1> QED
  BY <1>9, <1>10, <1>11

LEMMA InsertAfterKeeps ==
    ASSUME ElementAssumption, IInv, NEW e \in Element, ContainerInsertAfter(e)
    PROVE  IInv' /\ OutsidersUntouched /\ EndsStayClosed
<1> DEFINE m == Len(list)
           q == Position(e)
<1>1. PICK n \in Element : Allocate(n) /\ InsertAfter(e, n)
  BY DEF ContainerInsertAfter
<1>2. /\ e \in Members /\ n \notin Members /\ live' = live \cup {n}
      /\ first_element' = first_element
      /\ last_element' = IF e = last_element THEN n ELSE last_element
      /\ list' = Seqs!InsertAt(list, q + 1, n)
  BY <1>1 DEF Allocate, InsertAfter
<1>3. /\ m \in Nat /\ list \in Seq(Element)
      /\ \A k \in 1..m : list[k] # n /\ list[k] \in Element /\ list[k] # NULL
      /\ \A k, l \in 1..m : list[k] = list[l] => k = l
      /\ first_element = IF m = 0 THEN NULL ELSE list[1]
      /\ last_element = IF m = 0 THEN NULL ELSE list[m]
      /\ \A k \in 1 .. m - 1 : next[list[k]] = list[k + 1]
      /\ q \in 1..m /\ list[q] = e
  BY <1>2, StateFacts, OtherElements, PositionFacts DEF FirstOf, LastOf, Linked
<1>4. n # NULL /\ NULL \notin Element /\ n # e /\ next[e] \in Pointer
  BY <1>1, <1>2, StateFacts DEF ElementAssumption
<1>5. e = last_element <=> q = m
  BY <1>3
<1>6. e # last_element => q + 1 \in 1..m /\ next[e] = list[q + 1]
  BY <1>3
<1>7. /\ next' \in [Element -> Pointer] /\ prev' \in [Element -> Pointer]
      /\ \A x \in Element :
            /\ next'[x] = IF x = n THEN next[e] ELSE IF x = e THEN n ELSE next[x]
            /\ prev'[x] = IF x = n THEN e
                          ELSE IF e # last_element /\ x = next[e] THEN n ELSE prev[x]
  BY <1>1, <1>3, <1>4, <1>6, StateFacts DEF InsertAfter, Pointer
<1>8. IsInserted(list', list, q + 1, n)
  <2>1. q + 1 \in 1 .. m + 1
    BY <1>3
  <2> QED
    BY <1>2, <1>3, <2>1, InsertAtFacts
<1> HIDE DEF m, q
<1>9. LinksInserted(next', prev', next, prev, list, q + 1, n)
  <2>1. next'[list[(q + 1) - 1]] = n /\ prev'[n] = list[(q + 1) - 1]
    BY <1>3, <1>4, <1>7
  <2>2. q + 1 <= m => next'[n] = list[q + 1] /\ prev'[list[q + 1]] = n
    BY <1>3, <1>5, <1>6, <1>7
  <2>3. ASSUME NEW k \in 1..m
        PROVE  /\ k # (q + 1) - 1 => next'[list[k]] = next[list[k]]
               /\ k # q + 1 => prev'[list[k]] = prev[list[k]]
    BY <1>3, <1>6, <1>7, <2>3
  <2> QED
    BY <2>1, <2>2, <2>3 DEF LinksInserted, m
<1>10. /\ q + 1 \in 1 .. m + 1 /\ q + 1 # 1
       /\ e = last_element <=> q + 1 = m + 1
  BY <1>3, <1>5
<1>11. IInv' /\ Members' = Members \cup {n}
  BY <1>2, <1>7, <1>8, <1>9, <1>10, InsertionKeeps DEF m
<1>12. OutsidersUntouched
  <2>1. e # last_element => next[e] \in Members
    BY <1>6, StateFacts DEF m
  <2> QED
    BY <1>2, <1>4, <1>7, <1>11, <2>1 DEF OutsidersUntouched
<1>13. EndsStayClosed
  <2>1. LastIsClosed => LastIsClosed'
    BY <1>2, <1>3, <1>5, <1>7 DEF LastIsClosed
  <2>2. FirstIsClosed => FirstIsClosed'
    <3>1. e # last_element => next[e] # first_element
      BY <1>3, <1>6
    <3> QED
      BY <1>2, <1>3, <1>7, <3>1 DEF FirstIsClosed
  <2> QED
    BY <2>1, <2>2 DEF EndsStayClosed
<1> QED
  BY <1>11, <1>12, <1>13

LEMMA InsertBeforeKeeps ==
    ASSUME ElementAssumption, IInv, NEW e \in Element, ContainerInsertBefore(e)
    PROVE  IInv' /\ OutsidersUntouched /\ EndsStayClosed
<1> DEFINE m == Len(list)
           q == Position(e)
<1>1. PICK n \in Element : Allocate(n) /\ InsertBefore(e, n)
  BY DEF ContainerInsertBefore
<1>2. /\ e \in Members /\ n \notin Members /\ live' = live \cup {n}
      /\ last_element' = last_element
      /\ first_element' = IF e = first_element THEN n ELSE first_element
      /\ list' = Seqs!InsertAt(list, q, n)
  BY <1>1 DEF Allocate, InsertBefore
<1>3. /\ m \in Nat /\ list \in Seq(Element)
      /\ \A k \in 1..m : list[k] # n /\ list[k] \in Element /\ list[k] # NULL
      /\ \A k, l \in 1..m : list[k] = list[l] => k = l
      /\ first_element = IF m = 0 THEN NULL ELSE list[1]
      /\ last_element = IF m = 0 THEN NULL ELSE list[m]
      /\ \A k \in 1 .. m - 1 : prev[list[k + 1]] = list[k]
      /\ q \in 1..m /\ list[q] = e
  BY <1>2, StateFacts, OtherElements, PositionFacts DEF FirstOf, LastOf, Linked
<1>4. n # NULL /\ NULL \notin Element /\ n # e /\ prev[e] \in Pointer
  BY <1>1, <1>2, StateFacts DEF ElementAssumption
<1>5. e = first_element <=> q = 1
  BY <1>3
<1>6. e # first_element => q - 1 \in 1..m /\ prev[e] = list[q - 1]
  <2>1. q # 1 => q - 1 \in 1 .. m - 1 /\ (q - 1) + 1 = q
    BY <1>3
  <2> QED
    BY <1>3, <1>5, <2>1
<1>7. /\ next' \in [Element -> Pointer] /\ prev' \in [Element -> Pointer]
      /\ \A x \in Element :
            /\ prev'[x] = IF x = n THEN prev[e] ELSE IF x = e THEN n ELSE prev[x]
            /\ next'[x] = IF x = n THEN e
                          ELSE IF e # first_element /\ x = prev[e] THEN n ELSE next[x]
  <2>1. next \in [Element -> Pointer] /\ prev \in [Element -> Pointer] /\ n \in Pointer
    BY <1>1, StateFacts DEF Pointer
  <2>2. prev' = [prev EXCEPT ![e] = n, ![n] = prev[e]]
    BY <1>1 DEF InsertBefore
  <2>3. next' = IF e = first_element THEN [next EXCEPT ![n] = e]
                ELSE [next EXCEPT ![prev[e]] = n, ![n] = e]
    BY <1>1 DEF InsertBefore
  <2>4. e # first_element => prev[e] \in Element /\ prev[e] # n
    BY <1>3, <1>6
  <2>5. e \in Pointer
    BY DEF Pointer
  <2> QED
    BY <1>4, <2>1, <2>2, <2>3, <2>4, <2>5
<1>8. IsInserted(list', list, q, n)
  <2>1. q \in 1 .. m + 1
    BY <1>3
  <2> QED
    BY <1>2, <1>3, <2>1, InsertAtFacts
<1> HIDE DEF m, q
<1>9. LinksInserted(next', prev', next, prev, list, q, n)
  <2>1. q > 1 => next'[list[q - 1]] = n /\ prev'[n] = list[q - 1]
    BY <1>3, <1>4, <1>5, <1>6, <1>7
  <2>2. next'[n] = list[q] /\ prev'[list[q]] = n
    BY <1>3, <1>4, <1>7
  <2>3. ASSUME NEW k \in 1..m
        PROVE  /\ k # q - 1 => next'[list[k]] = next[list[k]]
               /\ k # q => prev'[list[k]] = prev[list[k]]
    BY <1>3, <1>6, <1>7, <2>3
  <2> QED
    BY <2>1, <2>2, <2>3 DEF LinksInserted, m
<1>10. /\ q \in 1 .. m + 1 /\ q # m + 1
       /\ e = first_element <=> q = 1
  BY <1>3, <1>5
<1>11. IInv' /\ Members' = Members \cup {n}
  BY <1>2, <1>7, <1>8, <1>9, <1>10, InsertionKeeps DEF m
<1>12. OutsidersUntouched
  <2>1. e # first_element => prev[e] \in Members
    BY <1>6, StateFacts DEF m
  <2> QED
    BY <1>2, <1>4, <1>7, <1>11, <2>1 DEF OutsidersUntouched
<1>13. EndsStayClosed
  <2>1. FirstIsClosed => FirstIsClosed'
    BY <1>2, <1>3, <1>5, <1>7 DEF FirstIsClosed
  <2>2. LastIsClosed => LastIsClosed'
    <3>1. e # first_element => prev[e] # last_element
      BY <1>3, <1>6
    <3> QED
      BY <1>2, <1>3, <1>7, <3>1 DEF LastIsClosed
  <2> QED
    BY <2>1, <2>2 DEF EndsStayClosed
<1> QED
  BY <1>11, <1>12, <1>13

-------------------------------------------------------------------------------
(* Removals *)

\* The wrapper at the position i is taken out and deleted.
LEMMA RemovalKeeps ==
    ASSUME ElementAssumption, IInv, NEW i \in 1..Len(list), IsRemoved(list', list, i),
           LinksRemoved(next', prev', next, prev, list, i),
           next' \in [Element -> Pointer], prev' \in [Element -> Pointer],
           first_element' = IF Len(list) = 1 THEN NULL ELSE IF i = 1 THEN list[2] ELSE list[1],
           last_element' = IF Len(list) = 1 THEN NULL
                           ELSE IF i = Len(list) THEN list[i - 1] ELSE list[Len(list)],
           live' = live \ {list[i]}
    PROVE  IInv' /\ Members' = Members \ {list[i]}
<1>1. /\ list \in Seq(Element) /\ Members = Elements(list) /\ Distinct(list)
      /\ Linked(next, prev, list) /\ live = Members
  BY StateFacts
<1>2. /\ Elements(list') = Elements(list) \ {list[i]}
      /\ Distinct(list')
      /\ FirstOf(list') = IF Len(list) = 1 THEN NULL ELSE IF i = 1 THEN list[2] ELSE list[1]
      /\ LastOf(list') = IF Len(list) = 1 THEN NULL
                         ELSE IF i = Len(list) THEN list[i - 1] ELSE list[Len(list)]
  BY <1>1, RemovedFacts
<1>3. Linked(next', prev', list')
  BY <1>1, LinkRemoved
<1>4. list' \in Seq(Element)
  BY DEF IsRemoved
<1> QED
  BY <1>1, <1>2, <1>3, <1>4, StepFacts

\* Links that are not touched are those of the rest.
LEMMA EndRemoved ==
    ASSUME NEW s, NEW i \in {1, Len(s)}, Len(s) \in Nat, NEW f, NEW g
    PROVE  LinksRemoved(f, g, f, g, s, i)
  BY DEF LinksRemoved

LEMMA RemoveFirstKeeps ==
    ASSUME ElementAssumption, IInv, ContainerRemoveFirst
    PROVE  IInv' /\ OutsidersUntouched /\ EndsStayClosed
<1> DEFINE m == Len(list)
<1>1. RemoveFirst
  BY DEF ContainerRemoveFirst
<1>2. /\ first_element # NULL
      /\ first_element' = next[first_element]
      /\ last_element' = IF next[first_element] = NULL THEN NULL ELSE last_element
      /\ list' = Tail(list) /\ next' = next /\ prev' = prev
      /\ live' = live \ {first_element}
      /\ first_element = last_element => LastIsClosed
  BY DEF ContainerRemoveFirst, RemoveFirst, Base!RemoveFirst, Delete
<1>3. /\ m \in Nat /\ list \in Seq(Element)
      /\ \A k \in 1..m : list[k] \in Members
      /\ NULL \notin Members
      /\ first_element = IF m = 0 THEN NULL ELSE list[1]
      /\ last_element = IF m = 0 THEN NULL ELSE list[m]
      /\ \A k \in 1 .. m - 1 : next[list[k]] = list[k + 1]
      /\ next \in [Element -> Pointer] /\ prev \in [Element -> Pointer]
  BY StateFacts DEF FirstOf, LastOf, Linked
<1>4. m > 0 /\ first_element = list[1] /\ last_element = list[m]
  BY <1>2, <1>3
<1>5. IsRemoved(list', list, 1)
  <2>1. /\ list' \in Seq(Element) /\ Len(list') = m - 1
        /\ \A k \in 1 .. m - 1 : list'[k] = list[k + 1]
    BY <1>2, <1>3, <1>4, TailFacts
  <2> QED
    BY <2>1 DEF IsRemoved
<1> HIDE DEF m
<1>6. LinksRemoved(next', prev', next, prev, list, 1)
  BY <1>2, <1>3, EndRemoved DEF m
<1>7. next[first_element] = IF m = 1 THEN NULL ELSE list[2]
  <2>1. CASE m = 1
    BY <1>2, <1>4, <2>1 DEF LastIsClosed
  <2>2. CASE m # 1
    <3>1. 1 \in 1 .. m - 1 /\ 1 + 1 = 2
      BY <1>3, <1>4, <2>2
    <3> QED
      BY <1>3, <1>4, <2>2, <3>1
  <2> QED
    BY <2>1, <2>2
<1>8. m # 1 => list[2] # NULL
  BY <1>3, <1>4
<1>9. /\ first_element' = IF m = 1 THEN NULL ELSE list[2]
      /\ last_element' = IF m = 1 THEN NULL ELSE IF 1 = m THEN list[1 - 1] ELSE list[m]
      /\ live' = live \ {list[1]} /\ 1 \in 1..m
  BY <1>2, <1>3, <1>4, <1>7, <1>8
<1>10. IInv'
  BY <1>2, <1>3, <1>5, <1>6, <1>9, RemovalKeeps DEF m
<1>11. LastIsClosed => LastIsClosed'
  BY <1>2, <1>4, <1>9 DEF LastIsClosed
<1> QED
  BY <1>1, <1>2, <1>10, <1>11 DEF OutsidersUntouched, EndsStayClosed

LEMMA RemoveLastKeeps ==
    ASSUME ElementAssumption, IInv, ContainerRemoveLast
    PROVE  IInv' /\ OutsidersUntouched /\ EndsStayClosed
<1> DEFINE m == Len(list)
<1>1. RemoveLast
  BY DEF ContainerRemoveLast
<1>2. /\ last_element # NULL
      /\ last_element' = prev[last_element]
      /\ first_element' = IF prev[last_element] = NULL THEN NULL ELSE first_element
      /\ list' = SubSeq(list, 1, m - 1) /\ next' = next /\ prev' = prev
      /\ live' = live \ {last_element}
      /\ first_element = last_element => FirstIsClosed
  BY DEF ContainerRemoveLast, RemoveLast, Delete
<1>3. /\ m \in Nat /\ list \in Seq(Element)
      /\ \A k \in 1..m : list[k] \in Members
      /\ NULL \notin Members
      /\ first_element = IF m = 0 THEN NULL ELSE list[1]
      /\ last_element = IF m = 0 THEN NULL ELSE list[m]
      /\ \A k \in 1 .. m - 1 : prev[list[k + 1]] = list[k]
      /\ next \in [Element -> Pointer] /\ prev \in [Element -> Pointer]
  BY StateFacts DEF FirstOf, LastOf, Linked
<1>4. m > 0 /\ first_element = list[1] /\ last_element = list[m]
  BY <1>2, <1>3
<1>5. IsRemoved(list', list, m)
  <2>1. m \in 1 .. m + 1
    BY <1>3, <1>4
  <2>2. /\ list' \in Seq(Element) /\ Len(list') = m - 1
        /\ \A k \in 1 .. m - 1 : list'[k] = list[k]
    BY <1>2, <1>3, <2>1, PartFacts
  <2>3. \A k \in 1 .. m - 1 : k < m
    BY <1>3
  <2> QED
    BY <2>2, <2>3 DEF IsRemoved
<1> HIDE DEF m
<1>6. LinksRemoved(next', prev', next, prev, list, m)
  BY <1>2, <1>3, EndRemoved DEF m
<1>7. prev[last_element] = IF m = 1 THEN NULL ELSE list[m - 1]
  <2>1. CASE m = 1
    BY <1>2, <1>4, <2>1 DEF FirstIsClosed
  <2>2. CASE m # 1
    <3>1. m - 1 \in 1 .. m - 1 /\ (m - 1) + 1 = m
      BY <1>3, <1>4, <2>2
    <3> QED
      BY <1>3, <1>4, <2>2, <3>1
  <2> QED
    BY <2>1, <2>2
<1>8. m # 1 => list[m - 1] # NULL
  BY <1>3, <1>4
<1>9. /\ first_element' = IF m = 1 THEN NULL ELSE IF m = 1 THEN list[2] ELSE list[1]
      /\ last_element' = IF m = 1 THEN NULL ELSE list[m - 1]
      /\ live' = live \ {list[m]} /\ m \in 1..m
  BY <1>2, <1>3, <1>4, <1>7, <1>8
<1>10. IInv'
  BY <1>2, <1>3, <1>5, <1>6, <1>9, RemovalKeeps DEF m
<1>11. FirstIsClosed => FirstIsClosed'
  BY <1>2, <1>4, <1>9 DEF FirstIsClosed
<1> QED
  BY <1>1, <1>2, <1>10, <1>11 DEF OutsidersUntouched, EndsStayClosed

\* The neighbours of an element that its links tell right, and what unlinking it
\* makes of the links.
LEMMA UnlinkFacts ==
    ASSUME ElementAssumption, IInv, NEW e \in Members, Settled(e)
    PROVE  LET i == Position(e)
               m == Len(list)
           IN  /\ i \in 1..m /\ list[i] = e
               /\ prev[e] = IF i = 1 THEN NULL ELSE list[i - 1]
               /\ next[e] = IF i = m THEN NULL ELSE list[i + 1]
               /\ UnlinkedNext(e) \in [Element -> Pointer]
               /\ UnlinkedPrev(e) \in [Element -> Pointer]
               /\ \A x \in Element :
                     /\ UnlinkedNext(e)[x] = IF x = prev[e] THEN next[e] ELSE next[x]
                     /\ UnlinkedPrev(e)[x] = IF x = next[e] THEN prev[e] ELSE prev[x]
               /\ LinksRemoved(UnlinkedNext(e), UnlinkedPrev(e), next, prev, list, i)
               /\ IsRemoved(Without(e), list, i)
<1> DEFINE i == Position(e)
           m == Len(list)
<1>1. /\ m \in Nat /\ list \in Seq(Element)
      /\ \A k \in 1..m : list[k] \in Element
      /\ \A k, l \in 1..m : list[k] = list[l] => k = l
      /\ first_element = IF m = 0 THEN NULL ELSE list[1]
      /\ last_element = IF m = 0 THEN NULL ELSE list[m]
      /\ \A k \in 1 .. m - 1 : next[list[k]] = list[k + 1] /\ prev[list[k + 1]] = list[k]
      /\ next \in [Element -> Pointer] /\ prev \in [Element -> Pointer]
      /\ NULL \notin Element
  BY StateFacts DEF FirstOf, LastOf, Linked, Distinct, ElementAssumption
<1>2. i \in 1..m /\ list[i] = e /\ e \in Element
  BY <1>1, PositionFacts
<1>3. IsRemoved(Without(e), list, i)
  BY <1>1, <1>2, RemoveAtFacts DEF Without, Base!Without, Position
<1> HIDE DEF i, m
<1>4. prev[e] = IF i = 1 THEN NULL ELSE list[i - 1]
  <2>1. CASE i = 1
    BY <1>1, <1>2, <2>1 DEF Settled, FirstIsClosed
  <2>2. CASE i # 1
    <3>1. i - 1 \in 1 .. m - 1 /\ (i - 1) + 1 = i
      BY <1>1, <1>2, <2>2
    <3> QED
      BY <1>1, <1>2, <2>2, <3>1
  <2> QED
    BY <2>1, <2>2
<1>5. next[e] = IF i = m THEN NULL ELSE list[i + 1]
  <2>1. CASE i = m
    BY <1>1, <1>2, <2>1 DEF Settled, LastIsClosed
  <2>2. CASE i # m
    <3>1. i \in 1 .. m - 1
      BY <1>1, <1>2, <2>2
    <3> QED
      BY <1>1, <1>2, <2>2, <3>1
  <2> QED
    BY <2>1, <2>2
<1>6. prev[e] \in Pointer /\ next[e] \in Pointer
  BY <1>1, <1>2
<1>7. /\ UnlinkedNext(e) \in [Element -> Pointer]
      /\ \A x \in Element : UnlinkedNext(e)[x] = IF x = prev[e] THEN next[e] ELSE next[x]
  BY <1>1, <1>6 DEF UnlinkedNext, Relinked, Pointer
<1>8. /\ UnlinkedPrev(e) \in [Element -> Pointer]
      /\ \A x \in Element : UnlinkedPrev(e)[x] = IF x = next[e] THEN prev[e] ELSE prev[x]
  BY <1>1, <1>6 DEF UnlinkedPrev, Relinked, Pointer
<1>9. LinksRemoved(UnlinkedNext(e), UnlinkedPrev(e), next, prev, list, i)
  <2>1. ASSUME i > 1, i < m
        PROVE  UnlinkedNext(e)[list[i - 1]] = list[i + 1] /\ UnlinkedPrev(e)[list[i + 1]] = list[i - 1]
    <3>1. i - 1 \in 1..m /\ i + 1 \in 1..m /\ i # 1 /\ i # m
      BY <1>1, <1>2, <2>1
    <3> QED
      BY <1>1, <1>4, <1>5, <1>7, <1>8, <3>1
  <2>2. ASSUME NEW k \in 1..m
        PROVE  /\ k # i - 1 => UnlinkedNext(e)[list[k]] = next[list[k]]
               /\ k # i + 1 => UnlinkedPrev(e)[list[k]] = prev[list[k]]
    <3>1. k # i - 1 => list[k] # prev[e]
      <4>1. i # 1 => i - 1 \in 1..m
        BY <1>1, <1>2
      <4> QED
        BY <1>1, <1>4, <4>1
    <3>2. k # i + 1 => list[k] # next[e]
      <4>1. i # m => i + 1 \in 1..m
        BY <1>1, <1>2
      <4> QED
        BY <1>1, <1>5, <4>1
    <3> QED
      BY <1>1, <1>7, <1>8, <3>1, <3>2
  <2> QED
    BY <2>1, <2>2 DEF LinksRemoved, m
<1> QED
  BY <1>2, <1>3, <1>4, <1>5, <1>7, <1>8, <1>9 DEF i, m

LEMMA RemoveKeeps ==
    ASSUME ElementAssumption, IInv, NEW e \in Element, ContainerRemove(e)
    PROVE  IInv' /\ OutsidersUntouched /\ EndsStayClosed
<1> DEFINE m == Len(list)
           i == Position(e)
<1>1. /\ e \in Members /\ Settled(e)
      /\ next' = UnlinkedNext(e) /\ prev' = UnlinkedPrev(e)
      /\ first_element' = IF prev[e] = NULL THEN next[e] ELSE first_element
      /\ last_element' = IF next[e] = NULL THEN prev[e] ELSE last_element
      /\ list' = Without(e)
      /\ live' = live \ {e}
  BY DEF ContainerRemove, Remove, Delete
<1>2. /\ m \in Nat
      /\ \A k \in 1..m : list[k] \in Members
      /\ Members \subseteq Element /\ NULL \notin Members
      /\ \A k, l \in 1..m : list[k] = list[l] => k = l
      /\ first_element = IF m = 0 THEN NULL ELSE list[1]
      /\ last_element = IF m = 0 THEN NULL ELSE list[m]
  BY StateFacts DEF FirstOf, LastOf, Distinct
<1>3. /\ i \in 1..m /\ list[i] = e
      /\ prev[e] = IF i = 1 THEN NULL ELSE list[i - 1]
      /\ next[e] = IF i = m THEN NULL ELSE list[i + 1]
      /\ next' \in [Element -> Pointer] /\ prev' \in [Element -> Pointer]
      /\ \A x \in Element : /\ next'[x] = IF x = prev[e] THEN next[e] ELSE next[x]
                            /\ prev'[x] = IF x = next[e] THEN prev[e] ELSE prev[x]
      /\ LinksRemoved(next', prev', next, prev, list, i)
      /\ IsRemoved(list', list, i)
  BY <1>1, UnlinkFacts
<1> HIDE DEF m, i
<1>4. /\ i > 1 => i - 1 \in 1..m /\ prev[e] = list[i - 1] /\ prev[e] \in Members
      /\ i < m => i + 1 \in 1..m /\ next[e] = list[i + 1] /\ next[e] \in Members
      /\ i = 1 \/ i > 1
      /\ i = m \/ i < m
      /\ m > 0 /\ first_element = list[1] /\ last_element = list[m]
  <2>1. /\ i > 1 => i - 1 \in 1..m /\ i # 1
        /\ i < m => i + 1 \in 1..m /\ i # m
        /\ i = 1 \/ i > 1
        /\ i = m \/ i < m
        /\ m > 0
    BY <1>2, <1>3
  <2> QED
    BY <1>2, <1>3, <2>1
<1>5. (prev[e] = NULL <=> i = 1) /\ (next[e] = NULL <=> i = m)
  BY <1>2, <1>3, <1>4
<1>6. first_element' = IF m = 1 THEN NULL ELSE IF i = 1 THEN list[2] ELSE list[1]
  BY <1>1, <1>2, <1>3, <1>4, <1>5
<1>7. last_element' = IF m = 1 THEN NULL ELSE IF i = m THEN list[i - 1] ELSE list[m]
  BY <1>1, <1>2, <1>3, <1>4, <1>5
<1>8. IInv' /\ Members' = Members \ {e}
  BY <1>1, <1>3, <1>6, <1>7, RemovalKeeps DEF m
<1>9. OutsidersUntouched
  <2> SUFFICES ASSUME NEW x \in Element, x \notin Members, x \notin Members'
               PROVE  next'[x] = next[x] /\ prev'[x] = prev[x]
    BY DEF OutsidersUntouched
  <2>1. x # NULL
    BY DEF ElementAssumption
  <2> QED
    BY <1>3, <1>4, <1>5, <2>1
<1>10. EndsStayClosed
  <2>1. FirstIsClosed => FirstIsClosed'
    <3>1. CASE i = 1
      BY <1>1, <1>2, <1>3, <1>4, <1>5, <3>1 DEF FirstIsClosed
    <3>2. CASE i > 1
      <4>1. first_element' = list[1] /\ list[1] \in Element /\ list[1] # NULL
        BY <1>1, <1>2, <1>4, <1>5, <3>2
      <4>2. next[e] # list[1]
        BY <1>2, <1>3, <1>4, <3>2
      <4> QED
        BY <1>3, <1>4, <4>1, <4>2 DEF FirstIsClosed
    <3> QED
      BY <1>4, <3>1, <3>2
  <2>2. LastIsClosed => LastIsClosed'
    <3>1. CASE i = m
      BY <1>1, <1>2, <1>3, <1>4, <1>5, <3>1 DEF LastIsClosed
    <3>2. CASE i < m
      <4>1. last_element' = list[m] /\ list[m] \in Element /\ list[m] # NULL
        BY <1>1, <1>2, <1>4, <1>5, <3>2
      <4>2. prev[e] # list[m]
        BY <1>2, <1>3, <1>4, <3>2
      <4> QED
        BY <1>3, <1>4, <4>1, <4>2 DEF LastIsClosed
    <3> QED
      BY <1>4, <3>1, <3>2
  <2> QED
    BY <2>1, <2>2 DEF EndsStayClosed
<1> QED
  BY <1>8, <1>9, <1>10

-------------------------------------------------------------------------------
(* Moves: an element is unlinked and put in at an end *)

\* The list without an element, linked as unlinking leaves it.
LEMMA RestFacts ==
    ASSUME ElementAssumption, IInv, NEW e \in Members, Settled(e)
    PROVE  LET t == Without(e)
               i == Position(e)
               m == Len(list)
           IN  /\ t \in Seq(Element) /\ Len(t) = m - 1
               /\ Elements(t) = Members \ {e} /\ Distinct(t)
               /\ Linked(UnlinkedNext(e), UnlinkedPrev(e), t)
               /\ FirstOf(t) = IF m = 1 THEN NULL ELSE IF i = 1 THEN list[2] ELSE list[1]
               /\ LastOf(t) = IF m = 1 THEN NULL ELSE IF i = m THEN list[i - 1] ELSE list[m]
<1> DEFINE t == Without(e)
           i == Position(e)
           m == Len(list)
<1>1. /\ list \in Seq(Element) /\ Members = Elements(list) /\ Distinct(list)
      /\ Linked(next, prev, list)
  BY StateFacts
<1>2. /\ i \in 1..m /\ list[i] = e
      /\ LinksRemoved(UnlinkedNext(e), UnlinkedPrev(e), next, prev, list, i)
      /\ IsRemoved(t, list, i)
  BY UnlinkFacts
<1> HIDE DEF t, i
<1>3. t \in Seq(Element) /\ Len(t) = m - 1
  BY <1>2 DEF IsRemoved
<1>4. Linked(UnlinkedNext(e), UnlinkedPrev(e), t)
  BY <1>1, <1>2, LinkRemoved
<1>5. /\ Elements(t) = Elements(list) \ {list[i]}
      /\ Distinct(t)
      /\ FirstOf(t) = IF m = 1 THEN NULL ELSE IF i = 1 THEN list[2] ELSE list[1]
      /\ LastOf(t) = IF m = 1 THEN NULL ELSE IF i = m THEN list[i - 1] ELSE list[m]
  BY <1>1, <1>2, RemovedFacts
<1> QED
  BY <1>1, <1>2, <1>3, <1>4, <1>5 DEF t, i

\* The element e is put in at the position j of what unlinking it leaves.
LEMMA MoveKeeps ==
    ASSUME ElementAssumption, IInv, NEW e \in Members, Settled(e),
           NEW j \in 1 .. Len(Without(e)) + 1, IsInserted(list', Without(e), j, e),
           LinksInserted(next', prev', UnlinkedNext(e), UnlinkedPrev(e), Without(e), j, e),
           next' \in [Element -> Pointer], prev' \in [Element -> Pointer],
           first_element' = IF j = 1 THEN e ELSE FirstOf(Without(e)),
           last_element' = IF j = Len(Without(e)) + 1 THEN e ELSE LastOf(Without(e)),
           live' = live
    PROVE  IInv' /\ Members' = Members
<1> DEFINE t == Without(e)
<1>1. /\ t \in Seq(Element) /\ Elements(t) = Members \ {e} /\ Distinct(t)
      /\ Linked(UnlinkedNext(e), UnlinkedPrev(e), t)
  BY RestFacts
<1>2. e \in Element /\ e \notin Elements(t) /\ live = Members
  BY <1>1, StateFacts
<1>3. /\ IsInserted(list', t, j, e)
      /\ LinksInserted(next', prev', UnlinkedNext(e), UnlinkedPrev(e), t, j, e)
      /\ j \in 1 .. Len(t) + 1
      /\ first_element' = IF j = 1 THEN e ELSE FirstOf(t)
      /\ last_element' = IF j = Len(t) + 1 THEN e ELSE LastOf(t)
  OBVIOUS
<1> HIDE DEF t
<1>4. /\ Elements(list') = Elements(t) \cup {e}
      /\ Distinct(list')
      /\ FirstOf(list') = IF j = 1 THEN e ELSE FirstOf(t)
      /\ LastOf(list') = IF j = Len(t) + 1 THEN e ELSE LastOf(t)
  BY <1>1, <1>2, <1>3, InsertedFacts
<1>5. Linked(next', prev', list')
  BY <1>1, <1>3, LinkInserted
<1>6. list' \in Seq(Element)
  BY <1>3 DEF IsInserted
<1>7. Elements(list') = Members
  BY <1>1, <1>4
<1> QED
  BY <1>2, <1>3, <1>4, <1>5, <1>6, <1>7, StepFacts

LEMMA MoveToFrontKeeps ==
    ASSUME ElementAssumption, IInv, NEW e \in Element, ContainerMoveToFront(e)
    PROVE  IInv' /\ OutsidersUntouched /\ EndsStayClosed
<1> DEFINE m == Len(list)
           i == Position(e)
           t == Without(e)
           f == UnlinkedNext(e)
           g == UnlinkedPrev(e)
<1>1. /\ e \in Members /\ Settled(e) /\ prev[e] # NULL
      /\ next' = [f EXCEPT ![e] = first_element]
      /\ prev' = [g EXCEPT ![e] = NULL, ![first_element] = e]
      /\ last_element' = IF next[e] = NULL THEN prev[e] ELSE last_element
      /\ first_element' = e
      /\ list' = <<e>> \o t
      /\ live' = live
  BY DEF ContainerMoveToFront, MoveToFront
<1>2. /\ m \in Nat
      /\ \A k \in 1..m : list[k] \in Members
      /\ Members \subseteq Element /\ NULL \notin Members /\ NULL \notin Element
      /\ \A k, l \in 1..m : list[k] = list[l] => k = l
      /\ first_element = IF m = 0 THEN NULL ELSE list[1]
      /\ last_element = IF m = 0 THEN NULL ELSE list[m]
      /\ first_element \in Pointer
  BY StateFacts DEF FirstOf, LastOf, Distinct, ElementAssumption
<1>3. /\ i \in 1..m /\ list[i] = e
      /\ prev[e] = IF i = 1 THEN NULL ELSE list[i - 1]
      /\ next[e] = IF i = m THEN NULL ELSE list[i + 1]
      /\ f \in [Element -> Pointer] /\ g \in [Element -> Pointer]
      /\ \A x \in Element : /\ f[x] = IF x = prev[e] THEN next[e] ELSE next[x]
                            /\ g[x] = IF x = next[e] THEN prev[e] ELSE prev[x]
  BY <1>1, UnlinkFacts
<1>4. /\ t \in Seq(Element) /\ Len(t) = m - 1
      /\ Elements(t) = Members \ {e} /\ Distinct(t)
      /\ FirstOf(t) = IF m = 1 THEN NULL ELSE IF i = 1 THEN list[2] ELSE list[1]
      /\ LastOf(t) = IF m = 1 THEN NULL ELSE IF i = m THEN list[i - 1] ELSE list[m]
  BY <1>1, RestFacts
<1> HIDE DEF m, i, t, f, g
<1>5. /\ i > 1 /\ m > 1 /\ i - 1 \in 1..m /\ prev[e] = list[i - 1] /\ prev[e] \in Members
      /\ prev[e] # e
      /\ first_element = list[1] /\ first_element # e /\ first_element \in Members
      /\ last_element = list[m]
      /\ FirstOf(t) = first_element
  <2>1. i > 1 /\ m > 1 /\ i - 1 \in 1..m /\ i # 1 /\ m # 1 /\ 1 \in 1..m /\ i - 1 # i
    BY <1>1, <1>2, <1>3
  <2> QED
    BY <1>2, <1>3, <1>4, <2>1
<1>6. next[e] = NULL <=> i = m
  BY <1>2, <1>3
<1>7. LastOf(t) = IF next[e] = NULL THEN prev[e] ELSE last_element
  BY <1>4, <1>5, <1>6
<1>8. /\ next' \in [Element -> Pointer] /\ prev' \in [Element -> Pointer]
      /\ \A x \in Element : /\ next'[x] = IF x = e THEN first_element ELSE f[x]
                            /\ prev'[x] = IF x = first_element THEN e
                                          ELSE IF x = e THEN NULL ELSE g[x]
  <2>1. e \in Pointer /\ NULL \in Pointer /\ first_element \in Element
    BY <1>2, <1>5 DEF Pointer
  <2> QED
    BY <1>1, <1>2, <1>3, <1>5, <2>1
<1>9. IsInserted(list', t, 1, e)
  <2>1. /\ list' \in Seq(Element) /\ Len(list') = Len(t) + 1
        /\ \A k \in 1 .. Len(t) + 1 : list'[k] = IF k = 1 THEN e ELSE t[k - 1]
    BY <1>1, <1>4, PrependFacts
  <2>2. \A k \in 1 .. Len(t) + 1 : ~(k < 1)
    OBVIOUS
  <2> QED
    BY <2>1, <2>2 DEF IsInserted
<1>10. /\ \A k \in 1..Len(t) : t[k] \in Element /\ t[k] # e
       /\ \A k, l \in 1..Len(t) : t[k] = t[l] => k = l
       /\ Len(t) \in Nat /\ Len(t) >= 1 /\ t[1] = first_element
  <2>1. Len(t) \in Nat /\ Len(t) >= 1
    BY <1>2, <1>4, <1>5
  <2> QED
    BY <1>2, <1>4, <1>5, <2>1, ZenonT(30) DEF Elements, Distinct, FirstOf
<1>11. LinksInserted(next', prev', f, g, t, 1, e)
  <2>1. next'[e] = t[1] /\ prev'[t[1]] = e
    BY <1>8, <1>10
  <2>2. ASSUME NEW k \in 1..Len(t)
        PROVE  next'[t[k]] = f[t[k]] /\ (k # 1 => prev'[t[k]] = g[t[k]])
    <3>1. k # 1 => t[k] # first_element
      BY <1>10
    <3> QED
      BY <1>8, <1>10, <3>1
  <2> QED
    BY <2>1, <2>2 DEF LinksInserted
<1>12. 1 \in 1 .. Len(t) + 1 /\ 1 # Len(t) + 1
  BY <1>10
<1>13. IInv' /\ Members' = Members
  BY <1>1, <1>7, <1>8, <1>9, <1>11, <1>12, MoveKeeps DEF t, f, g
<1>14. next[e] \in Members \cup {NULL}
  <2>1. i # m => i + 1 \in 1..m
    BY <1>2, <1>3
  <2> QED
    BY <1>2, <1>3, <2>1
<1>15. OutsidersUntouched
  BY <1>1, <1>2, <1>3, <1>5, <1>8, <1>13, <1>14 DEF OutsidersUntouched
<1>16. EndsStayClosed
  <2>1. FirstIsClosed'
    BY <1>1, <1>5, <1>8 DEF FirstIsClosed
  <2>2. LastIsClosed => LastIsClosed'
    <3>1. CASE i = m
      <4>1. last_element' = prev[e] /\ next'[prev[e]] = f[prev[e]] /\ f[prev[e]] = NULL
        BY <1>1, <1>2, <1>3, <1>5, <1>6, <1>8, <3>1
      <4> QED
        BY <4>1 DEF LastIsClosed
    <3>2. CASE i # m
      <4>1. /\ last_element' = list[m] /\ list[m] \in Element /\ list[m] # NULL
            /\ list[m] # e /\ list[m] # prev[e]
        <5>1. m \in 1..m /\ i - 1 # m
          BY <1>2, <1>3
        <5> QED
          BY <1>1, <1>2, <1>3, <1>5, <1>6, <3>2, <5>1
      <4> QED
        BY <1>3, <1>5, <1>8, <4>1 DEF LastIsClosed
    <3> QED
      BY <3>1, <3>2
  <2> QED
    BY <2>1, <2>2 DEF EndsStayClosed
<1> QED
  BY <1>13, <1>15, <1>16

LEMMA MoveToBackKeeps ==
    ASSUME ElementAssumption, IInv, NEW e \in Element, ContainerMoveToBack(e)
    PROVE  IInv' /\ OutsidersUntouched /\ EndsStayClosed
<1> DEFINE m == Len(list)
           i == Position(e)
           t == Without(e)
           f == UnlinkedNext(e)
           g == UnlinkedPrev(e)
<1>1. /\ e \in Members /\ Settled(e) /\ next[e] # NULL
      /\ next' = [f EXCEPT ![e] = NULL, ![last_element] = e]
      /\ prev' = [g EXCEPT ![e] = last_element]
      /\ first_element' = IF prev[e] = NULL THEN next[e] ELSE first_element
      /\ last_element' = e
      /\ list' = Append(t, e)
      /\ live' = live
  BY DEF ContainerMoveToBack, MoveToBack
<1>2. /\ m \in Nat
      /\ \A k \in 1..m : list[k] \in Members
      /\ Members \subseteq Element /\ NULL \notin Members /\ NULL \notin Element
      /\ \A k, l \in 1..m : list[k] = list[l] => k = l
      /\ first_element = IF m = 0 THEN NULL ELSE list[1]
      /\ last_element = IF m = 0 THEN NULL ELSE list[m]
      /\ last_element \in Pointer
  BY StateFacts DEF FirstOf, LastOf, Distinct, ElementAssumption
<1>3. /\ i \in 1..m /\ list[i] = e
      /\ prev[e] = IF i = 1 THEN NULL ELSE list[i - 1]
      /\ next[e] = IF i = m THEN NULL ELSE list[i + 1]
      /\ f \in [Element -> Pointer] /\ g \in [Element -> Pointer]
      /\ \A x \in Element : /\ f[x] = IF x = prev[e] THEN next[e] ELSE next[x]
                            /\ g[x] = IF x = next[e] THEN prev[e] ELSE prev[x]
  BY <1>1, UnlinkFacts
<1>4. /\ t \in Seq(Element) /\ Len(t) = m - 1
      /\ Elements(t) = Members \ {e} /\ Distinct(t)
      /\ FirstOf(t) = IF m = 1 THEN NULL ELSE IF i = 1 THEN list[2] ELSE list[1]
      /\ LastOf(t) = IF m = 1 THEN NULL ELSE IF i = m THEN list[i - 1] ELSE list[m]
  BY <1>1, RestFacts
<1> HIDE DEF m, i, t, f, g
<1>5. /\ i < m /\ m > 1 /\ i + 1 \in 1..m /\ next[e] = list[i + 1] /\ next[e] \in Members
      /\ next[e] # e
      /\ last_element = list[m] /\ last_element # e /\ last_element \in Members
      /\ first_element = list[1]
      /\ LastOf(t) = last_element
  <2>1. i < m /\ m > 1 /\ i + 1 \in 1..m /\ i # m /\ m # 1 /\ m \in 1..m /\ i + 1 # i
    BY <1>1, <1>2, <1>3
  <2> QED
    BY <1>2, <1>3, <1>4, <2>1
<1>6. prev[e] = NULL <=> i = 1
  BY <1>2, <1>3
<1>7. FirstOf(t) = IF prev[e] = NULL THEN next[e] ELSE first_element
  BY <1>3, <1>4, <1>5, <1>6
<1>8. /\ next' \in [Element -> Pointer] /\ prev' \in [Element -> Pointer]
      /\ \A x \in Element : /\ prev'[x] = IF x = e THEN last_element ELSE g[x]
                            /\ next'[x] = IF x = last_element THEN e
                                          ELSE IF x = e THEN NULL ELSE f[x]
  <2>1. e \in Pointer /\ NULL \in Pointer /\ last_element \in Element
    BY <1>2, <1>5 DEF Pointer
  <2> QED
    BY <1>1, <1>2, <1>3, <1>5, <2>1
<1>9. IsInserted(list', t, Len(t) + 1, e)
  <2>1. /\ list' \in Seq(Element) /\ Len(list') = Len(t) + 1
        /\ \A k \in 1 .. Len(t) + 1 : list'[k] = IF k = Len(t) + 1 THEN e ELSE t[k]
    BY <1>1, <1>4, AppendFacts
  <2>2. \A k \in 1 .. Len(t) + 1 : k < Len(t) + 1 \/ k = Len(t) + 1
    BY <1>2, <1>4
  <2>3. ~(Len(t) + 1 < Len(t) + 1)
    BY <1>2, <1>4
  <2> QED
    BY <2>1, <2>2, <2>3 DEF IsInserted
<1>10. /\ \A k \in 1..Len(t) : t[k] \in Element /\ t[k] # e
       /\ \A k, l \in 1..Len(t) : t[k] = t[l] => k = l
       /\ Len(t) \in Nat /\ Len(t) >= 1 /\ t[Len(t)] = last_element
  <2>1. Len(t) \in Nat /\ Len(t) >= 1
    BY <1>2, <1>4, <1>5
  <2> QED
    BY <1>2, <1>4, <1>5, <2>1, ZenonT(30) DEF Elements, Distinct, LastOf
<1>11. LinksInserted(next', prev', f, g, t, Len(t) + 1, e)
  <2>1. (Len(t) + 1) - 1 = Len(t) /\ ~(Len(t) + 1 <= Len(t))
    BY <1>10
  <2>2. next'[t[Len(t)]] = e /\ prev'[e] = t[Len(t)]
    BY <1>8, <1>10
  <2>3. ASSUME NEW k \in 1..Len(t)
        PROVE  (k # Len(t) => next'[t[k]] = f[t[k]]) /\ prev'[t[k]] = g[t[k]]
    <3>1. k # Len(t) => t[k] # last_element
      BY <1>10
    <3> QED
      BY <1>8, <1>10, <3>1
  <2> QED
    BY <2>1, <2>2, <2>3 DEF LinksInserted
<1>12. Len(t) + 1 \in 1 .. Len(t) + 1 /\ Len(t) + 1 # 1
  BY <1>10
<1>13. IInv' /\ Members' = Members
  BY <1>1, <1>7, <1>8, <1>9, <1>11, <1>12, MoveKeeps DEF t, f, g
<1>14. prev[e] \in Members \cup {NULL}
  <2>1. i # 1 => i - 1 \in 1..m
    BY <1>2, <1>3
  <2> QED
    BY <1>2, <1>3, <2>1
<1>15. OutsidersUntouched
  BY <1>1, <1>2, <1>3, <1>5, <1>8, <1>13, <1>14 DEF OutsidersUntouched
<1>16. EndsStayClosed
  <2>1. LastIsClosed'
    BY <1>1, <1>5, <1>8 DEF LastIsClosed
  <2>2. FirstIsClosed => FirstIsClosed'
    <3>1. CASE i = 1
      <4>1. first_element' = next[e] /\ prev'[next[e]] = g[next[e]] /\ g[next[e]] = NULL
        BY <1>1, <1>2, <1>3, <1>5, <1>6, <1>8, <3>1
      <4> QED
        BY <4>1 DEF FirstIsClosed
    <3>2. CASE i # 1
      <4>1. /\ first_element' = list[1] /\ list[1] \in Element /\ list[1] # NULL
            /\ list[1] # e /\ list[1] # next[e]
        <5>1. 1 \in 1..m /\ i + 1 # 1
          BY <1>2, <1>3, <1>5
        <5> QED
          BY <1>1, <1>2, <1>3, <1>5, <1>6, <3>2, <5>1
      <4> QED
        BY <1>3, <1>5, <1>8, <4>1 DEF FirstIsClosed
    <3> QED
      BY <3>1, <3>2
  <2> QED
    BY <2>1, <2>2 DEF EndsStayClosed
<1> QED
  BY <1>13, <1>15, <1>16

-------------------------------------------------------------------------------
(* empty() follows the links from the first element to the NULL *)

\* A set of natural numbers that has an element has a smallest one.
LEMMA SmallestElement ==
    ASSUME NEW T, T \subseteq Nat, T # {}
    PROVE  \E x \in T : \A y \in T : x <= y
<1>1. PICK x \in T : \A y \in T : ~ (<<y, x>> \in OpToRel(<, Nat))
  BY NatLessThanWellFounded, WFMin, Zenon
<1>2. \A y \in T : <<y, x>> \in OpToRel(<, Nat) <=> y < x
  BY DEF OpToRel
<1>3. SUFFICES ASSUME NEW y \in T PROVE x <= y
  OBVIOUS
<1>4. ~ (y < x)
  BY <1>1, <1>2, Zenon
<1> QED
  BY <1>4

LEMMA ChainIsMembers == ASSUME ElementAssumption, IInv, LastIsClosed PROVE Chain = Members
<1> DEFINE m == Len(list)
           IsClosed(S) == \A p \in {first_element} \cup {next[x] : x \in S} : p \in S \cup {NULL}
<1>1. /\ m \in Nat
      /\ \A k \in 1..m : list[k] \in Members
      /\ Members = {list[k] : k \in 1..m}
      /\ Members \subseteq Element /\ NULL \notin Members
      /\ first_element = IF m = 0 THEN NULL ELSE list[1]
      /\ last_element = IF m = 0 THEN NULL ELSE list[m]
      /\ \A k \in 1 .. m - 1 : next[list[k]] = list[k + 1]
  BY StateFacts DEF FirstOf, LastOf, Linked, Elements
<1>2. Chain = {x \in Element : \A S \in SUBSET Element : IsClosed(S) => x \in S}
  BY DEF Chain
<1> HIDE DEF m
<1>3. IsClosed(Members)
  <2>1. first_element \in Members \cup {NULL}
    BY <1>1
  <2>2. ASSUME NEW x \in Members PROVE next[x] \in Members \cup {NULL}
    <3>1. PICK k \in 1..m : x = list[k]
      BY <1>1
    <3>2. CASE k = m
      <4>1. last_element = x /\ last_element # NULL
        BY <1>1, <3>1, <3>2
      <4> QED
        BY <4>1 DEF LastIsClosed
    <3>3. CASE k # m
      <4>1. k \in 1 .. m - 1 /\ k + 1 \in 1..m
        BY <1>1, <3>3
      <4> QED
        BY <1>1, <3>1, <4>1
    <3> QED
      BY <3>2, <3>3
  <2> QED
    BY <2>1, <2>2
<1>4. ASSUME NEW S \in SUBSET Element, IsClosed(S) PROVE Members \subseteq S
  <2> DEFINE T == {k \in 1..m : list[k] \notin S}
  <2>1. SUFFICES T = {}
    BY <1>1
  <2>2. SUFFICES ASSUME T # {} PROVE FALSE
    OBVIOUS
  <2>3. T \subseteq Nat
    BY <1>1
  <2> HIDE DEF T
  <2>4. PICK k \in T : \A l \in T : k <= l
    BY <2>2, <2>3, SmallestElement
  <2>5. k \in 1..m /\ list[k] \notin S
    BY <2>4 DEF T
  <2>6. CASE k = 1
    <3>1. first_element = list[1] /\ list[1] # NULL
      BY <1>1, <2>5, <2>6
    <3> QED
      BY <1>4, <2>5, <2>6, <3>1
  <2>7. CASE k > 1
    <3>1. k - 1 \in 1 .. m - 1 /\ k - 1 \in 1..m /\ (k - 1) + 1 = k /\ ~(k <= k - 1)
      BY <1>1, <2>5, <2>7
    <3>2. list[k - 1] \in S
      BY <2>4, <3>1 DEF T
    <3>3. next[list[k - 1]] = list[k] /\ list[k] # NULL
      BY <1>1, <2>5, <3>1
    <3> QED
      BY <1>4, <2>5, <3>2, <3>3
  <2> QED
    BY <1>1, <2>5, <2>6, <2>7
<1> HIDE DEF IsClosed
<1> QED
  BY <1>1, <1>2, <1>3, <1>4

LEMMA EmptyKeeps ==
    ASSUME ElementAssumption, IInv, ContainerEmpty
    PROVE  IInv' /\ OutsidersUntouched /\ EndsStayClosed
<1>1. /\ first_element' = NULL /\ last_element' = NULL
      /\ list' = << >> /\ next' = next /\ prev' = prev
      /\ LastIsClosed /\ live' = live \ Chain
  BY DEF ContainerEmpty, Empty, Base!Empty
<1>2. live' = {}
  BY <1>1, ChainIsMembers, StateFacts
<1>3. list' \in Seq(Element) /\ Len(list') = 0
  BY <1>1, EmptySeq
<1>4. /\ Linked(next', prev', list') /\ Distinct(list') /\ Elements(list') = {}
      /\ FirstOf(list') = NULL /\ LastOf(list') = NULL
  BY <1>3 DEF Linked, Distinct, Elements, FirstOf, LastOf
<1>5. IInv'
  BY <1>1, <1>2, <1>3, <1>4, StateFacts, StepFacts
<1> QED
  BY <1>1, <1>5 DEF OutsidersUntouched, EndsStayClosed, FirstIsClosed, LastIsClosed

-------------------------------------------------------------------------------
(* Theorems *)

LEMMA StepKeeps ==
    ASSUME ElementAssumption, IInv, [ContainerNext]_containerVars
    PROVE  IInv' /\ ((OutsidersUntouched /\ EndsStayClosed) \/ UNCHANGED dllVars)
<1>1. CASE UNCHANGED containerVars
  <2>1. UNCHANGED dllVars /\ live' = live
    BY <1>1 DEF containerVars
  <2> QED
    BY <2>1 DEF dllVars, IInv, TypeOK, Base!TypeOK, LinksFollowList, WrappersAreMembers,
                Members, Base!Members
<1> QED
  BY <1>1, InsertFirstKeeps, AppendKeeps, InsertAfterKeeps, InsertBeforeKeeps, RemoveFirstKeeps,
     RemoveLastKeeps, RemoveKeeps, MoveToFrontKeeps, MoveToBackKeeps, EmptyKeeps
  DEF ContainerNext

LEMMA Invariance == ASSUME ElementAssumption PROVE ContainerSpec => []IInv
<1>1. ContainerInit => IInv
  BY InitKeeps
<1>2. IInv /\ [ContainerNext]_containerVars => IInv'
  BY StepKeeps
<1> QED
  BY <1>1, <1>2, PTL DEF ContainerSpec

\* The pointers, the links and the sequence keep their types.
THEOREM TypeCorrect == ASSUME ElementAssumption PROVE ContainerSpec => []TypeOK
<1>1. IInv => TypeOK
  BY DEF IInv
<1> QED
  BY <1>1, Invariance, PTL

\* From the first element to the last, the links in the two directions agree with
\* each other and with the order that the operations are meant to produce.
THEOREM LinksAreRight == ASSUME ElementAssumption PROVE ContainerSpec => []LinksFollowList
<1>1. IInv => LinksFollowList
  BY DEF IInv
<1> QED
  BY <1>1, Invariance, PTL

\* The wrappers that exist are those in the list: none is deleted while the list
\* leads to it, none is left behind, and empty() finds them all.
THEOREM NoneIsLost == ASSUME ElementAssumption PROVE ContainerSpec => []WrappersAreMembers
<1>1. IInv => WrappersAreMembers
  BY DEF IInv
<1> QED
  BY <1>1, Invariance, PTL

\* A wrapper that has left the list, and is deleted, is not written to any more.
THEOREM OutsidersAreSafe == ASSUME ElementAssumption PROVE ContainerSpec => WritesMembersOnly
<1>1. IInv /\ [ContainerNext]_containerVars => [OutsidersUntouched]_dllVars
  BY StepKeeps
<1> QED
  BY <1>1, Invariance, PTL DEF ContainerSpec, WritesMembersOnly

\* Only remove_first() and remove_last() leave an outer link of an end that is not
\* NULL: a container that is not used as a queue can be walked either way.
THEOREM EndsStay == ASSUME ElementAssumption PROVE ContainerSpec => OnlyEndRemovalsOpenEnds
<1>1. IInv /\ [ContainerNext]_containerVars => [EndsStayClosed]_dllVars
  BY StepKeeps
<1> QED
  BY <1>1, Invariance, PTL DEF ContainerSpec, OnlyEndRemovalsOpenEnds
===============================================================================
