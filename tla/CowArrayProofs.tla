---------------------------- MODULE CowArrayProofs ----------------------------
(* Theorems about CowArray, for any number of arrays, addresses and values   *)
(* and any bounds: the reference counts are right, no array dangles, nothing *)
(* is stored beyond a buffer's capacity, a locked buffer stays in place, and *)
(* every operation does to the array's elements what it promises.            *)
EXTENDS CowArray, FiniteSetTheorems, SequenceTheorems, TLAPS

-------------------------------------------------------------------------------
(* Sequences *)

\* A rest that starts beyond the end is empty.
LEMMA EmptyRest ==
    ASSUME NEW s \in Seq(Value), NEW i \in Nat, i >= Len(s)
    PROVE  Rest(s, i) \in Seq(Value) /\ Len(Rest(s, i)) = 0
<1>1. Len(s) \in Nat
  BY LenProperties
<1>2. \A k \in i + 1..Len(s) : s[k] \in Value
  BY <1>1
<1>3. /\ SubSeq(s, i + 1, Len(s)) \in Seq(Value)
      /\ Len(SubSeq(s, i + 1, Len(s))) = IF i + 1 <= Len(s) THEN Len(s) - (i + 1) + 1 ELSE 0
  BY <1>1, <1>2, SubSeqProperties
<1> QED
  BY <1>1, <1>3 DEF Rest

\* Parts of a sequence are sequences of the lengths one expects.
LEMMA PrefixType ==
    ASSUME NEW s \in Seq(Value), NEW i \in 0..Len(s)
    PROVE  Prefix(s, i) \in Seq(Value) /\ Len(Prefix(s, i)) = i
<1>1. Len(s) \in Nat
  BY LenProperties
<1>2. \A k \in 1..i : s[k] \in Value
  BY <1>1, ElementOfSeq
<1>3. /\ SubSeq(s, 1, i) \in Seq(Value)
      /\ Len(SubSeq(s, 1, i)) = IF 1 <= i THEN i - 1 + 1 ELSE 0
  BY <1>1, <1>2, SubSeqProperties
<1> QED
  BY <1>1, <1>3 DEF Prefix

\* What lies beyond index i is a sequence, as long as one expects.
LEMMA RestType ==
    ASSUME NEW s \in Seq(Value), NEW i \in 0..Len(s)
    PROVE  Rest(s, i) \in Seq(Value) /\ Len(Rest(s, i)) = Len(s) - i
<1>1. Len(s) \in Nat
  BY LenProperties
<1>2. CASE i >= Len(s)
  <2>1. Len(s) - i = 0 /\ i \in Nat
    BY <1>1, <1>2
  <2> QED
    BY <1>2, <2>1, EmptyRest
<1>3. CASE i < Len(s)
  <2>1. \A k \in i + 1..Len(s) : s[k] \in Value
    BY <1>1, ElementOfSeq
  <2>2. /\ SubSeq(s, i + 1, Len(s)) \in Seq(Value)
        /\ Len(SubSeq(s, i + 1, Len(s))) = IF i + 1 <= Len(s) THEN Len(s) - (i + 1) + 1 ELSE 0
    BY <1>1, <2>1, SubSeqProperties
  <2>3. i + 1 <= Len(s) /\ Len(s) - (i + 1) + 1 = Len(s) - i
    BY <1>1, <1>3
  <2>4. Len(SubSeq(s, i + 1, Len(s))) = Len(s) - i
    BY <2>2, <2>3, Zenon
  <2> QED
    BY <2>2, <2>4, Zenon DEF Rest
<1> QED
  BY <1>1, <1>2, <1>3

\* The result of overwrite() is as long as the capacity is computed from.
LEMMA OverwrittenType ==
    ASSUME NEW s \in Seq(Value), NEW t \in Seq(Value), NEW i \in 0..Len(s)
    PROVE  /\ Overwritten(s, i, t) \in Seq(Value)
           /\ Len(Overwritten(s, i, t)) = Larger(i + Len(t), Len(s))
<1>1. Len(s) \in Nat /\ Len(t) \in Nat
  BY LenProperties
<1>2. Prefix(s, i) \in Seq(Value) /\ Len(Prefix(s, i)) = i
  BY PrefixType, RestType
<1>3. /\ Rest(s, i + Len(t)) \in Seq(Value)
      /\ Len(Rest(s, i + Len(t))) = Larger(i + Len(t), Len(s)) - (i + Len(t))
  <2>1. CASE i + Len(t) \in 0..Len(s)
    <3>1. /\ Rest(s, i + Len(t)) \in Seq(Value)
          /\ Len(Rest(s, i + Len(t))) = Len(s) - (i + Len(t))
      BY <2>1, RestType
    <3> QED
      BY <1>1, <2>1, <3>1 DEF Larger
  <2>2. CASE i + Len(t) >= Len(s)
    <3>1. Rest(s, i + Len(t)) \in Seq(Value) /\ Len(Rest(s, i + Len(t))) = 0
      BY <1>1, <2>2, EmptyRest
    <3> QED
      BY <1>1, <2>2, <3>1, SMTT(30) DEF Larger
  <2> QED
    BY <1>1, <2>1, <2>2
<1>4. Prefix(s, i) \o t \in Seq(Value) /\ Len(Prefix(s, i) \o t) = i + Len(t)
  BY <1>2, ConcatProperties
<1>5. /\ Overwritten(s, i, t) \in Seq(Value)
      /\ Len(Overwritten(s, i, t)) = i + Len(t) + Len(Rest(s, i + Len(t)))
  BY <1>3, <1>4, ConcatProperties DEF Overwritten
<1> QED
  BY <1>1, <1>3, <1>5 DEF Larger

\* The result of insert() is longer by what was inserted.
LEMMA InsertedType ==
    ASSUME NEW s \in Seq(Value), NEW t \in Seq(Value), NEW i \in 0..Len(s)
    PROVE  /\ Inserted(s, i, t) \in Seq(Value)
           /\ Len(Inserted(s, i, t)) = Len(s) + Len(t)
<1>1. Len(s) \in Nat /\ Len(t) \in Nat
  BY LenProperties
<1>2. /\ Prefix(s, i) \in Seq(Value) /\ Len(Prefix(s, i)) = i
      /\ Rest(s, i) \in Seq(Value) /\ Len(Rest(s, i)) = Len(s) - i
  BY PrefixType, RestType
<1>3. Prefix(s, i) \o t \in Seq(Value) /\ Len(Prefix(s, i) \o t) = i + Len(t)
  BY <1>2, ConcatProperties
<1>4. /\ Inserted(s, i, t) \in Seq(Value)
      /\ Len(Inserted(s, i, t)) = i + Len(t) + Len(Rest(s, i))
  BY <1>2, <1>3, ConcatProperties DEF Inserted
<1> QED
  BY <1>1, <1>2, <1>4

\* The result of remove() is shorter by what was removed.
LEMMA RemovedType ==
    ASSUME NEW s \in Seq(Value), NEW i \in 0..Len(s), NEW n \in 0..Len(s) - i
    PROVE  /\ Removed(s, i, n) \in Seq(Value)
           /\ Len(Removed(s, i, n)) = Len(s) - n
<1>1. Len(s) \in Nat
  BY LenProperties
<1>2. Prefix(s, i) \in Seq(Value) /\ Len(Prefix(s, i)) = i
  BY PrefixType, RestType
<1>3. i + n \in 0..Len(s)
  BY <1>1
<1>4. Rest(s, i + n) \in Seq(Value) /\ Len(Rest(s, i + n)) = Len(s) - (i + n)
  BY <1>3, RestType
<1>5. /\ Removed(s, i, n) \in Seq(Value)
      /\ Len(Removed(s, i, n)) = i + Len(Rest(s, i + n))
  BY <1>2, <1>4, ConcatProperties DEF Removed
<1> QED
  BY <1>1, <1>4, <1>5

\* extra_capacity() leaves room for what it is asked for, and more.
LEMMA ExtraCapacityIsMore ==
    ASSUME NEW n \in Nat
    PROVE  ExtraCapacity(n) \in Nat /\ ExtraCapacity(n) > n
<1>1. n \div 8 \in Int
  BY SMT
<1> QED
  BY <1>1 DEF ExtraCapacity

\* What operations copy from is a sequence that is not empty.
LEMMA SourceType ==
    ASSUME NEW s \in Source
    PROVE  s \in Seq(Value) /\ Len(s) \in Nat
<1>1. PICK n \in 1..MaxLength : s \in [1..n -> Value]
  BY DEF Source
<1>2. n \in Nat
  BY <1>1, BoundAssumption
<1>3. s \in Seq(Value)
  BY <1>1, <1>2, SMT
<1> QED
  BY <1>3, LenProperties

-------------------------------------------------------------------------------
(* The inductive invariant: what the model checker checks, taken together.   *)

IInv == TypeOK /\ RefsCountOwners /\ LockIsOwn /\ FitsCapacity /\ EmptyArrayIntact

\* Where an array object's pointer leads.
LEMMA ObjectFacts ==
    ASSUME IInv, NEW h \in Handle
    PROVE  /\ Elements(h) \in DOMAIN heap
           /\ Elements(h) \in Pointer
           /\ Metadata(h) \in Buffer
           /\ Data(h) \in Seq(Value)
           /\ Length(h) \in Nat
           /\ Capacity(h) \in Nat
           /\ Length(h) <= Capacity(h)
<1>1. Elements(h) \in DOMAIN heap
  BY DEF IInv, TypeOK, EmptyArrayIntact, Elements, IsObject
<1>2. Metadata(h) \in Buffer /\ Elements(h) \in Pointer
  BY <1>1 DEF IInv, TypeOK, Metadata
<1>3. Data(h) \in Seq(Value) /\ Capacity(h) \in Nat
  BY <1>2 DEF Buffer, Data, Capacity
<1>4. Length(h) \in Nat
  BY <1>3, LenProperties DEF Length, Data
<1>5. Length(h) <= Capacity(h)
  BY <1>1 DEF IInv, FitsCapacity, Length, Capacity, Metadata
<1> QED
  BY <1>1, <1>2, <1>3, <1>4, <1>5

\* The array objects that share a buffer can be counted.
LEMMA SharingIsFinite ==
    ASSUME NEW a
    PROVE  IsFiniteSet(Sharing(a)) /\ Cardinality(Sharing(a)) \in Nat
<1>1. Sharing(a) \subseteq Handle
  BY DEF Sharing
<1>2. IsFiniteSet(Sharing(a))
  BY <1>1, HandleAssumption, FS_Subset
<1> QED
  BY <1>2, FS_CardinalityType

\* A buffer that is not shared is a real one, with a single owner.
LEMMA SoleOwner ==
    ASSUME IInv, NEW h \in Handle, ~IsShared(h)
    PROVE  /\ Elements(h) \in Address
           /\ Elements(h) = elements[h]
           /\ Sharing(elements[h]) = {h}
           /\ heap[elements[h]].refs = 1 - locks[h]
<1>1. heap[Elements(h)].refs \in Int /\ ~(heap[Elements(h)].refs > 1)
  BY ObjectFacts DEF IsShared, Metadata, Buffer
<1>2. Elements(h) # EmptyArray
  BY <1>1 DEF IInv, EmptyArrayIntact, EmptyArrayMetadata
<1>3. Elements(h) \in Address /\ Elements(h) = elements[h]
  BY <1>2, ObjectFacts DEF Pointer, Elements
<1>4. h \in Sharing(elements[h]) /\ elements[h] \in DOMAIN heap \ {EmptyArray}
  BY <1>2, <1>3, ObjectFacts DEF Sharing
<1>5. CASE /\ heap[elements[h]].refs = Cardinality(Sharing(elements[h]))
           /\ \A g \in Sharing(elements[h]) : locks[g] = 0
  <2>1. Cardinality(Sharing(elements[h])) \in Nat
    BY SharingIsFinite
  <2>2. Cardinality(Sharing(elements[h])) # 0
    BY <1>4, SharingIsFinite, FS_EmptySet
  <2>3. Cardinality(Sharing(elements[h])) = 1
    BY <1>1, <1>3, <1>5, <2>1, <2>2
  <2>4. Sharing(elements[h]) = {h}
    BY <1>4, <2>3, SharingIsFinite, FS_Singleton
  <2> QED
    BY <1>3, <1>4, <1>5, <2>3, <2>4
<1>6. CASE \E g \in Sharing(elements[h]) : /\ Sharing(elements[h]) = {g}
                                           /\ heap[elements[h]].refs = 1 - locks[g]
  BY <1>3, <1>4, <1>6
<1> QED
  BY <1>4, <1>5, <1>6 DEF IInv, RefsCountOwners

\* A buffer that is not locked counts all who share it.
LEMMA UnlockedCounts ==
    ASSUME IInv, NEW a \in DOMAIN heap \ {EmptyArray}, heap[a].refs > 0
    PROVE  /\ heap[a].refs = Cardinality(Sharing(a))
           /\ Sharing(a) # {}
           /\ \A g \in Sharing(a) : locks[g] = 0
<1>1. heap[a].refs \in Int
  BY DEF IInv, TypeOK, Buffer
<1>2. CASE \E g \in Sharing(a) : /\ Sharing(a) = {g}
                                 /\ heap[a].refs = 1 - locks[g]
  <2>1. PICK g \in Sharing(a) : /\ Sharing(a) = {g}
                                /\ heap[a].refs = 1 - locks[g]
    BY <1>2
  <2>2. locks[g] \in Nat
    BY BoundAssumption DEF IInv, TypeOK, Sharing
  <2>3. locks[g] = 0 /\ heap[a].refs = 1
    BY <1>1, <2>1, <2>2
  <2>4. Cardinality(Sharing(a)) = 1
    BY <2>1, FS_Singleton
  <2> QED
    BY <2>1, <2>3, <2>4
<1> QED
  BY <1>2 DEF IInv, RefsCountOwners

\* An array without a buffer of its own is not locked.
LEMMA NoBufferNoLock ==
    ASSUME IInv, NEW h \in Handle, elements[h] \notin Address
    PROVE  locks[h] = 0 /\ Elements(h) = EmptyArray /\ ~IsLocked(h) /\ IsShared(h)
<1>1. Elements(h) = EmptyArray
  BY ObjectFacts DEF Elements, Pointer
<1>2. Metadata(h).refs = 2
  BY <1>1 DEF IInv, EmptyArrayIntact, EmptyArrayMetadata, Metadata
<1>3. ~IsLocked(h) /\ IsShared(h)
  BY <1>2 DEF IsLocked, IsShared
<1>4. locks[h] \in Nat /\ ~(locks[h] > 0)
  BY <1>3, BoundAssumption DEF IInv, LockIsOwn, TypeOK
<1> QED
  BY <1>1, <1>3, <1>4

-------------------------------------------------------------------------------
(* Steps *)

\* Who shares a buffer when one array's pointer changes.
LEMMA SharingAfter ==
    ASSUME TypeOK, NEW h \in Handle, NEW new,
           elements' = [elements EXCEPT ![h] = new],
           NEW a
    PROVE  /\ a # new => Sharing(a)' = Sharing(a) \ {h}
           /\ a = new => Sharing(a)' = Sharing(a) \cup {h}
           /\ h \in Sharing(a) <=> a = elements[h]
<1>1. \A g \in Handle : elements'[g] = IF g = h THEN new ELSE elements[g]
  BY DEF TypeOK
<1> QED
  BY <1>1 DEF Sharing

\* The central lemma.  One array, which is not locked, comes to point to another
\* buffer: its old buffer counts one owner less, or is freed if there was only
\* this one, and the new buffer is its own or counts one owner more.
LEMMA PointerMoves ==
    ASSUME IInv, NEW h \in Handle, NEW new \in Pointer \cup {NoObject},
           ~IsLocked(h),
           elements' = [elements EXCEPT ![h] = new],
           DOMAIN heap' \subseteq Pointer,
           \A a \in DOMAIN heap' : heap'[a] \in Buffer /\ Len(heap'[a].data) <= heap'[a].capacity,
           EmptyArrayIntact',
           locks' \in [Handle -> 0..MaxLocks],
           \A g \in Handle : g # h => locks'[g] = locks[g],
           new \notin Address => locks'[h] = 0,
           \A a \in Address : a # elements[h] /\ a # new =>
               /\ a \in DOMAIN heap' <=> a \in DOMAIN heap
               /\ a \in DOMAIN heap => heap'[a] = heap[a],
           elements[h] \in Address /\ elements[h] # new =>
               IF heap[elements[h]].refs = 1
               THEN elements[h] \notin DOMAIN heap'
               ELSE /\ elements[h] \in DOMAIN heap'
                    /\ heap'[elements[h]] = [heap[elements[h]] EXCEPT !.refs = @ - 1],
           new \in Address =>
               /\ new \in DOMAIN heap'
               /\ \/ /\ new \notin DOMAIN heap \/ (new = elements[h] /\ heap[new].refs = 1)
                     /\ heap'[new].refs = 1 - locks'[h]
                  \/ /\ new \in DOMAIN heap /\ new # elements[h] /\ heap[new].refs > 0
                     /\ heap'[new] = [heap[new] EXCEPT !.refs = @ + 1] /\ locks'[h] = 0
                  \/ /\ new = elements[h]
                     /\ heap'[new].refs = heap[new].refs /\ heap'[new].data = heap[new].data
                     /\ locks'[h] = 0
    PROVE  IInv' /\ LockedStay /\ OthersUnchanged(h)
<1> DEFINE old == elements[h]
<1>1. \A g \in Handle : elements'[g] = IF g = h THEN new ELSE elements[g]
  BY DEF IInv, TypeOK
<1>2. \A a : /\ a # new => Sharing(a)' = Sharing(a) \ {h}
             /\ a = new => Sharing(a)' = Sharing(a) \cup {h}
             /\ h \in Sharing(a) <=> a = old
  BY SharingAfter DEF IInv
<1>3. old \in Address =>
         /\ old \in DOMAIN heap \ {EmptyArray}
         /\ heap[old].refs = Cardinality(Sharing(old))
         /\ \A g \in Sharing(old) : locks[g] = 0
  <2> SUFFICES ASSUME old \in Address
               PROVE  /\ old \in DOMAIN heap \ {EmptyArray}
                      /\ heap[old].refs = Cardinality(Sharing(old))
                      /\ \A g \in Sharing(old) : locks[g] = 0
    OBVIOUS
  <2>1. Elements(h) = old /\ old \in DOMAIN heap \ {EmptyArray}
    BY ObjectFacts, PointerAssumption DEF Elements, IsObject
  <2>2. heap[old].refs \in Int /\ heap[old].refs > 0
    BY <2>1, ObjectFacts DEF IsLocked, Metadata, Buffer
  <2> QED
    BY <2>1, <2>2, UnlockedCounts
<1>4. old \in Address /\ heap[old].refs = 1 => Sharing(old) = {h}
  BY <1>2, <1>3, SharingIsFinite, FS_Singleton
<1>5. TypeOK'
  <2>1. ASSUME NEW g \in Handle
        PROVE  elements'[g] \in DOMAIN heap' \cup {NoObject}
    <3>1. CASE g = h
      BY <1>1, <3>1 DEF Pointer, EmptyArrayIntact
    <3>2. CASE g # h /\ elements[g] \in Address /\ elements[g] # new
      <4>1. elements[g] \in DOMAIN heap
        BY <3>2, PointerAssumption DEF IInv, TypeOK
      <4>2. CASE elements[g] = old
        <5>1. heap[old].refs # 1
          BY <1>4, <3>2, <4>2 DEF Sharing
        <5> QED
          BY <1>1, <3>2, <4>2, <5>1
      <4>3. CASE elements[g] # old
        BY <1>1, <3>2, <4>1, <4>3
      <4> QED
        BY <4>2, <4>3
    <3>3. CASE g # h /\ elements[g] = new
      BY <1>1, <3>3 DEF Pointer, EmptyArrayIntact
    <3>4. CASE g # h /\ elements[g] \notin Address
      BY <1>1, <3>4 DEF IInv, TypeOK, Pointer, EmptyArrayIntact
    <3> QED
      BY <3>1, <3>2, <3>3, <3>4
  <2>2. elements' \in [Handle -> DOMAIN heap' \cup {NoObject}]
    BY <2>1 DEF IInv, TypeOK
  <2> QED
    BY <2>2 DEF TypeOK
<1>6. RefsCountOwners'
  <2> SUFFICES ASSUME NEW a \in DOMAIN heap', a # EmptyArray
               PROVE  /\ Sharing(a)' # {}
                      /\ \/ /\ heap'[a].refs = Cardinality(Sharing(a)')
                            /\ \A g \in Sharing(a)' : locks'[g] = 0
                         \/ \E g \in Sharing(a)' : /\ Sharing(a)' = {g}
                                                   /\ heap'[a].refs = 1 - locks'[g]
    BY DEF RefsCountOwners
  <2>1. a \in Address
    BY DEF Pointer
  <2>2. CASE a # old /\ a # new
    <3>1. Sharing(a)' = Sharing(a) /\ h \notin Sharing(a)
      <4>1. Sharing(a)' = Sharing(a) \ {h} /\ h \notin Sharing(a)
        BY <1>2, <2>2
      <4> QED
        BY <4>1
    <3>2. a \in DOMAIN heap \ {EmptyArray} /\ heap'[a].refs = heap[a].refs
      BY <2>1, <2>2
    <3>3. \A g \in Sharing(a) : locks'[g] = locks[g]
      BY <3>1 DEF Sharing
    <3> QED
      BY <3>1, <3>2, <3>3 DEF IInv, RefsCountOwners
  <2>3. CASE a = old /\ a # new
    <3>1. Sharing(a)' = Sharing(a) \ {h} /\ h \in Sharing(a)
      BY <1>2, <2>3
    <3>2. heap[a].refs # 1 /\ heap'[a].refs = heap[a].refs - 1
      BY <1>3, <2>1, <2>3 DEF IInv, TypeOK, Buffer
    <3>3. Cardinality(Sharing(a)') = Cardinality(Sharing(a)) - 1
      BY <3>1, SharingIsFinite, FS_RemoveElement
    <3>4. heap'[a].refs = Cardinality(Sharing(a)')
      BY <1>3, <2>1, <2>3, <3>2, <3>3
    <3>5. Cardinality(Sharing(a)') # 0 /\ IsFiniteSet(Sharing(a)')
      BY <1>3, <2>1, <2>3, <3>1, <3>2, <3>3, SharingIsFinite, FS_RemoveElement
    <3>6. Sharing(a)' # {}
      BY <3>5, FS_EmptySet
    <3>7. \A g \in Sharing(a)' : locks'[g] = 0
      BY <1>3, <2>1, <2>3, <3>1 DEF Sharing
    <3> QED
      BY <3>4, <3>6, <3>7
  <2>4. CASE a = new
    <3>1. Sharing(a)' = Sharing(a) \cup {h}
      BY <1>2, <2>4
    <3>2. CASE /\ a \notin DOMAIN heap \/ (a = old /\ heap[a].refs = 1)
               /\ heap'[a].refs = 1 - locks'[h]
      <4>1. a \notin DOMAIN heap => Sharing(a) = {}
        <5>1. \A g \in Handle : elements[g] \in DOMAIN heap \cup {NoObject}
          BY DEF IInv, TypeOK
        <5>2. a # NoObject
          BY <2>1, PointerAssumption
        <5> QED
          BY <5>1, <5>2 DEF Sharing
      <4>2. Sharing(a)' = {h}
        BY <1>4, <2>1, <3>1, <3>2, <4>1
      <4> QED
        BY <3>2, <4>2
    <3>3. CASE /\ a \in DOMAIN heap /\ a # old /\ heap[a].refs > 0
               /\ heap'[a] = [heap[a] EXCEPT !.refs = @ + 1] /\ locks'[h] = 0
      <4>1. /\ heap[a].refs = Cardinality(Sharing(a))
            /\ \A g \in Sharing(a) : locks[g] = 0
        BY <3>3, UnlockedCounts
      <4>2. h \notin Sharing(a)
        BY <1>2, <3>3
      <4>3. Cardinality(Sharing(a)') = Cardinality(Sharing(a)) + 1
        <5>1. Cardinality(Sharing(a) \cup {h}) =
                IF h \in Sharing(a) THEN Cardinality(Sharing(a)) ELSE Cardinality(Sharing(a)) + 1
          BY SharingIsFinite, FS_AddElement
        <5> QED
          BY <3>1, <4>2, <5>1
      <4>4. \A g \in Sharing(a)' : locks'[g] = 0
        BY <3>1, <3>3, <4>1 DEF Sharing
      <4>5. heap'[a].refs = heap[a].refs + 1
        BY <3>3 DEF IInv, TypeOK, Buffer
      <4> QED
        BY <3>1, <3>3, <4>1, <4>3, <4>4, <4>5
    <3>4. CASE /\ a = old
               /\ heap'[a].refs = heap[a].refs /\ locks'[h] = 0
      <4>1. Sharing(a)' = Sharing(a) /\ h \in Sharing(a)
        BY <1>2, <3>1, <3>4
      <4>2. \A g \in Sharing(a)' : locks'[g] = 0
        BY <1>3, <2>1, <3>4, <4>1 DEF Sharing
      <4> QED
        BY <1>3, <2>1, <3>4, <4>1, <4>2
    <3> QED
      BY <2>1, <2>4, <3>2, <3>3, <3>4
  <2> QED
    BY <2>2, <2>3, <2>4
<1>7. LockIsOwn'
  <2> SUFFICES ASSUME NEW g \in Handle
               PROVE  IsLocked(g)' <=> locks'[g] > 0
    BY DEF LockIsOwn
  <2>1. locks'[g] \in Nat
    BY BoundAssumption
  <2>2. CASE elements'[g] \in Address
    <3>1. PICK a \in Address : a = elements'[g]
      BY <2>2
    <3>2. /\ a \in DOMAIN heap' \ {EmptyArray}
          /\ g \in Sharing(a)'
      BY <1>5, <3>1, PointerAssumption DEF TypeOK, Sharing
    <3>3. IsLocked(g)' <=> heap'[a].refs <= 0
      BY <3>1, PointerAssumption DEF IsLocked, Metadata, Elements, IsObject
    <3>4. CASE \E f \in Sharing(a)' : /\ Sharing(a)' = {f}
                                      /\ heap'[a].refs = 1 - locks'[f]
      BY <2>1, <3>2, <3>3, <3>4
    <3>5. CASE /\ heap'[a].refs = Cardinality(Sharing(a)')
               /\ \A f \in Sharing(a)' : locks'[f] = 0
      <4>1. Sharing(a)' \subseteq Handle
        BY DEF Sharing
      <4>2. IsFiniteSet(Sharing(a)')
        BY <4>1, HandleAssumption, FS_Subset
      <4>3. Cardinality(Sharing(a)') \in Nat /\ Cardinality(Sharing(a)') # 0
        BY <3>2, <4>2, FS_CardinalityType, FS_EmptySet
      <4> QED
        BY <3>2, <3>3, <3>5, <4>3
    <3> QED
      BY <1>6, <3>2, <3>4, <3>5 DEF RefsCountOwners
  <2>3. CASE elements'[g] \notin Address
    <3>1. Elements(g)' = EmptyArray
      BY <1>5, <2>3 DEF TypeOK, Elements, IsObject, Pointer
    <3>2. ~IsLocked(g)'
      BY <3>1 DEF IsLocked, Metadata, EmptyArrayIntact, EmptyArrayMetadata
    <3>3. locks'[g] = 0
      BY <1>1, <2>3, NoBufferNoLock
    <3> QED
      BY <3>2, <3>3
  <2> QED
    BY <2>2, <2>3
<1>8. \A g \in Handle : g # h /\ elements[g] \in Address =>
         elements[g] \in DOMAIN heap' /\ heap'[elements[g]].data = heap[elements[g]].data
  <2> SUFFICES ASSUME NEW g \in Handle, g # h, elements[g] \in Address
               PROVE  /\ elements[g] \in DOMAIN heap'
                      /\ heap'[elements[g]].data = heap[elements[g]].data
    OBVIOUS
  <2>1. elements[g] \in DOMAIN heap /\ heap[elements[g]] \in Buffer
    BY PointerAssumption DEF IInv, TypeOK
  <2>2. elements[g] = old => heap[old].refs # 1
    BY <1>4 DEF Sharing
  <2> QED
    BY <2>1, <2>2 DEF Buffer
<1>9. OthersUnchanged(h)
  <2> SUFFICES ASSUME NEW g \in Handle, g # h
               PROVE  elements'[g] = elements[g] /\ Data(g)' = Data(g)
    BY DEF OthersUnchanged
  <2>1. elements'[g] = elements[g]
    BY <1>1
  <2>2. Elements(g)' = Elements(g)
    BY <2>1 DEF Elements, IsObject
  <2>3. CASE elements[g] \in Address
    <3>1. Elements(g) = elements[g]
      BY <2>3, PointerAssumption DEF Elements, IsObject
    <3> QED
      BY <1>8, <2>1, <2>2, <2>3, <3>1 DEF Data, Metadata
  <2>4. CASE elements[g] \notin Address
    <3>1. Elements(g) = EmptyArray
      BY <2>4, NoBufferNoLock
    <3> QED
      BY <2>1, <2>2, <3>1 DEF Data, Metadata, IInv, EmptyArrayIntact
  <2> QED
    BY <2>1, <2>3, <2>4
<1>10. LockedStay
  <2> SUFFICES ASSUME NEW g \in Handle, locks[g] > 0, locks'[g] > 0
               PROVE  /\ elements'[g] = elements[g]
                      /\ heap'[elements[g]].capacity = heap[elements[g]].capacity
    BY DEF LockedStay
  <2>1. g # h
    BY DEF IInv, LockIsOwn
  <2>2. elements[g] \in Address /\ elements[g] \in DOMAIN heap
    <3>1. locks[g] # 0
      BY BoundAssumption DEF IInv, TypeOK
    <3> QED
      BY <3>1, NoBufferNoLock, PointerAssumption DEF IInv, TypeOK
  <2>3. Elements(g) = elements[g]
    BY <2>2, PointerAssumption DEF Elements, IsObject
  <2>4. heap[elements[g]].refs \in Int /\ ~(heap[elements[g]].refs > 0)
    BY <2>2, <2>3 DEF IInv, LockIsOwn, IsLocked, Metadata, TypeOK, Buffer
  <2>5. ~IsShared(g)
    BY <2>3, <2>4 DEF IsShared, Metadata
  <2>6. elements[g] # old
    BY <2>1, <2>5, SoleOwner DEF Sharing
  <2>7. elements[g] # new
    BY <2>2, <2>4, <2>6
  <2> QED
    BY <1>1, <2>1, <2>2, <2>6, <2>7
<1> QED
  BY <1>5, <1>6, <1>7, <1>9, <1>10 DEF IInv, FitsCapacity

\* What an array that owns its buffer alone may do to it: anything that fits and
\* keeps the count of its own locks.
LEMMA BufferChanges ==
    ASSUME IInv, NEW h \in Handle, ~IsShared(h), NEW b \in Buffer,
           Len(b.data) <= b.capacity,
           b.capacity = Capacity(h),
           b.refs = 1 - locks'[h],
           heap' = [heap EXCEPT ![Elements(h)] = b],
           elements' = elements,
           locks' \in [Handle -> 0..MaxLocks],
           \A g \in Handle : g # h => locks'[g] = locks[g]
    PROVE  IInv' /\ LockedStay /\ OthersUnchanged(h)
<1> DEFINE own == elements[h]
<1>1. /\ own \in Address /\ Elements(h) = own
      /\ Sharing(own) = {h}
  BY SoleOwner
<1>2. own \in DOMAIN heap /\ own # EmptyArray
  BY <1>1, ObjectFacts, PointerAssumption
<1>3. /\ DOMAIN heap' = DOMAIN heap
      /\ heap'[own] = b
      /\ \A a \in DOMAIN heap : a # own => heap'[a] = heap[a]
  BY <1>1, <1>2
<1>4. \A a : Sharing(a)' = Sharing(a)
  BY DEF Sharing
<1>5. TypeOK' /\ FitsCapacity' /\ EmptyArrayIntact'
  BY <1>2, <1>3 DEF IInv, TypeOK, FitsCapacity, EmptyArrayIntact
<1>6. RefsCountOwners'
  <2> SUFFICES ASSUME NEW a \in DOMAIN heap', a # EmptyArray
               PROVE  /\ Sharing(a)' # {}
                      /\ \/ /\ heap'[a].refs = Cardinality(Sharing(a)')
                            /\ \A g \in Sharing(a)' : locks'[g] = 0
                         \/ \E g \in Sharing(a)' : /\ Sharing(a)' = {g}
                                                   /\ heap'[a].refs = 1 - locks'[g]
    BY DEF RefsCountOwners
  <2>1. CASE a = own
    BY <1>1, <1>3, <1>4, <2>1
  <2>2. CASE a # own
    <3>1. a \in DOMAIN heap \ {EmptyArray} /\ heap'[a] = heap[a]
      BY <1>3, <2>2
    <3>2. \A g \in Sharing(a) : g # h
      BY <2>2 DEF Sharing
    <3>3. \A g \in Sharing(a) : locks'[g] = locks[g]
      BY <3>2 DEF Sharing
    <3> QED
      BY <1>4, <3>1, <3>3 DEF IInv, RefsCountOwners
  <2> QED
    BY <2>1, <2>2
<1>7. \A g \in Handle : Elements(g)' = Elements(g)
  BY DEF Elements, IsObject
<1>8. \A g \in Handle : g # h => Elements(g) # own
  BY <1>1, <1>2 DEF Elements, Sharing
<1>9. \A g \in Handle : g # h => Metadata(g)' = Metadata(g)
  BY <1>3, <1>7, <1>8, ObjectFacts DEF Metadata
<1>10. Metadata(h)' = b
  BY <1>1, <1>3, <1>7 DEF Metadata
<1>11. LockIsOwn'
  <2> SUFFICES ASSUME NEW g \in Handle
               PROVE  IsLocked(g)' <=> locks'[g] > 0
    BY DEF LockIsOwn
  <2>1. CASE g = h
    <3>1. locks'[h] \in Nat
      BY BoundAssumption
    <3> QED
      BY <1>10, <2>1, <3>1 DEF IsLocked
  <2>2. CASE g # h
    BY <1>9, <2>2 DEF IInv, LockIsOwn, IsLocked
  <2> QED
    BY <2>1, <2>2
<1>12. OthersUnchanged(h)
  BY <1>9 DEF OthersUnchanged, Data
<1>13. LockedStay
  <2> SUFFICES ASSUME NEW g \in Handle, locks[g] > 0
               PROVE  heap'[elements[g]].capacity = heap[elements[g]].capacity
    BY DEF LockedStay
  <2>1. elements[g] \in DOMAIN heap
    <3>1. locks[g] # 0
      BY BoundAssumption DEF IInv, TypeOK
    <3> QED
      BY <3>1, NoBufferNoLock, PointerAssumption DEF IInv, TypeOK
  <2> QED
    BY <1>1, <1>3, <2>1 DEF Capacity, Metadata
<1> QED
  BY <1>5, <1>6, <1>11, <1>12, <1>13 DEF IInv

\* Writing to a buffer that has one owner keeps the invariant, if the data fits.
LEMMA WriteInPlaceKeeps ==
    ASSUME IInv, NEW h \in Handle, ~IsShared(h), NEW data \in Seq(Value),
           Len(data) <= Capacity(h),
           WriteInPlace(h, data), UNCHANGED locks
    PROVE  IInv' /\ LockedStay /\ OthersUnchanged(h)
<1> DEFINE b == [Metadata(h) EXCEPT !.data = data]
<1>1. Metadata(h) \in Buffer /\ Elements(h) \in DOMAIN heap
  BY ObjectFacts
<1>2. /\ b \in Buffer /\ b.data = data
      /\ b.capacity = Capacity(h) /\ b.refs = Metadata(h).refs
  BY <1>1 DEF Buffer, Capacity
<1>3. b.refs = 1 - locks'[h]
  BY <1>2, SoleOwner DEF Metadata
<1>4. heap' = [heap EXCEPT ![Elements(h)] = b]
  BY DEF WriteInPlace, Metadata
<1>5. locks' \in [Handle -> 0..MaxLocks]
  BY DEF IInv, TypeOK
<1> HIDE DEF b
<1> QED
  BY <1>2, <1>3, <1>4, <1>5, BufferChanges DEF WriteInPlace

\* How release() leaves the heap.
LEMMA ReleaseFacts ==
    ASSUME NEW hp, NEW a, a \in DOMAIN hp
    PROVE  /\ a = EmptyArray => Release(hp, a) = hp
           /\ a # EmptyArray /\ hp[a].refs = 1 =>
                 /\ DOMAIN Release(hp, a) = DOMAIN hp \ {a}
                 /\ \A x \in DOMAIN hp : x # a => Release(hp, a)[x] = hp[x]
           /\ a # EmptyArray /\ hp[a].refs # 1 =>
                 /\ DOMAIN Release(hp, a) = DOMAIN hp
                 /\ Release(hp, a)[a] = [hp[a] EXCEPT !.refs = @ - 1]
                 /\ \A x \in DOMAIN hp : x # a => Release(hp, a)[x] = hp[x]
BY DEF Release

\* replace_buffer(), with whatever the heap hp was made ready for it: the new
\* buffer is one just allocated, or one that already counts its new owner.
LEMMA Replacing ==
    ASSUME IInv, NEW h \in Handle, NEW new \in Pointer \cup {NoObject}, NEW hp,
           ~IsLocked(h),
           elements' = [elements EXCEPT ![h] = new],
           heap' = Release(hp, Elements(h)),
           DOMAIN hp \subseteq Pointer,
           \A a \in DOMAIN hp : hp[a] \in Buffer /\ Len(hp[a].data) <= hp[a].capacity,
           EmptyArray \in DOMAIN hp /\ hp[EmptyArray] = EmptyArrayMetadata,
           locks' \in [Handle -> 0..MaxLocks],
           \A g \in Handle : g # h => locks'[g] = locks[g],
           new \notin Address => locks'[h] = 0,
           \A a \in Address : a # new =>
               /\ a \in DOMAIN hp <=> a \in DOMAIN heap
               /\ a \in DOMAIN heap => hp[a] = heap[a],
           new \in Address =>
               /\ new \in DOMAIN hp
               /\ \/ new \notin DOMAIN heap /\ hp[new].refs = 1 - locks'[h]
                  \/ /\ new \in DOMAIN heap /\ heap[new].refs > 0
                     /\ hp[new] = [heap[new] EXCEPT !.refs = @ + 1] /\ locks'[h] = 0
    PROVE  IInv' /\ LockedStay /\ OthersUnchanged(h)
<1> DEFINE old == Elements(h)
<1>1. old \in DOMAIN heap /\ old \in Pointer /\ heap[old] \in Buffer
  BY ObjectFacts DEF Metadata
<1>2. old \in DOMAIN hp
  BY <1>1 DEF Pointer
<1>3. elements[h] \in Address => old = elements[h] /\ old # EmptyArray
  BY PointerAssumption DEF Elements, IsObject
<1>4. elements[h] \notin Address => old = EmptyArray
  BY NoBufferNoLock
<1>5. \A x \in DOMAIN hp : x # old => x \in DOMAIN heap' /\ heap'[x] = hp[x]
  BY <1>2 DEF Release
<1>6. DOMAIN heap' \subseteq DOMAIN hp
  BY <1>2, ReleaseFacts, ZenonT(30)
<1>7. old # EmptyArray =>
         IF hp[old].refs = 1
         THEN old \notin DOMAIN heap'
         ELSE old \in DOMAIN heap' /\ heap'[old] = [hp[old] EXCEPT !.refs = @ - 1]
  BY <1>2 DEF Release
<1>8. old = EmptyArray => heap' = hp
  BY DEF Release
<1>9. \A a \in DOMAIN heap' : heap'[a] \in Buffer /\ Len(heap'[a].data) <= heap'[a].capacity
  <2> SUFFICES ASSUME NEW a \in DOMAIN heap'
               PROVE  heap'[a] \in Buffer /\ Len(heap'[a].data) <= heap'[a].capacity
    OBVIOUS
  <2>1. hp[a] \in Buffer /\ Len(hp[a].data) <= hp[a].capacity
    BY <1>6
  <2>2. CASE a # old \/ old = EmptyArray
    BY <1>5, <1>6, <1>8, <2>1, <2>2
  <2>3. CASE a = old /\ old # EmptyArray
    <3>1. heap'[a] = [hp[a] EXCEPT !.refs = @ - 1]
      BY <1>7, <2>3
    <3> QED
      BY <2>1, <3>1 DEF Buffer
  <2> QED
    BY <2>2, <2>3
<1>10. EmptyArrayIntact'
  BY <1>5, <1>8 DEF EmptyArrayIntact
<1>11. DOMAIN heap' \subseteq Pointer
  BY <1>6
<1>12. \A a \in Address : a # elements[h] /\ a # new =>
          /\ a \in DOMAIN heap' <=> a \in DOMAIN heap
          /\ a \in DOMAIN heap => heap'[a] = heap[a]
  <2> SUFFICES ASSUME NEW a \in Address, a # elements[h], a # new
               PROVE  /\ a \in DOMAIN heap' <=> a \in DOMAIN heap
                      /\ a \in DOMAIN heap => heap'[a] = heap[a]
    OBVIOUS
  <2>1. a # old
    BY <1>3, <1>4, PointerAssumption
  <2> QED
    BY <1>5, <1>6, <2>1
<1>13. elements[h] \in Address /\ elements[h] # new =>
          IF heap[elements[h]].refs = 1
          THEN elements[h] \notin DOMAIN heap'
          ELSE /\ elements[h] \in DOMAIN heap'
               /\ heap'[elements[h]] = [heap[elements[h]] EXCEPT !.refs = @ - 1]
  <2> SUFFICES ASSUME elements[h] \in Address, elements[h] # new
               PROVE  IF heap[elements[h]].refs = 1
                      THEN elements[h] \notin DOMAIN heap'
                      ELSE /\ elements[h] \in DOMAIN heap'
                           /\ heap'[elements[h]] = [heap[elements[h]] EXCEPT !.refs = @ - 1]
    OBVIOUS
  <2>1. elements[h] = old /\ old # EmptyArray /\ hp[old] = heap[old]
    BY <1>1, <1>3
  <2> QED
    BY <1>7, <2>1
<1>14. new \in Address =>
          /\ new \in DOMAIN heap'
          /\ \/ /\ new \notin DOMAIN heap \/ (new = elements[h] /\ heap[new].refs = 1)
                /\ heap'[new].refs = 1 - locks'[h]
             \/ /\ new \in DOMAIN heap /\ new # elements[h] /\ heap[new].refs > 0
                /\ heap'[new] = [heap[new] EXCEPT !.refs = @ + 1] /\ locks'[h] = 0
             \/ /\ new = elements[h]
                /\ heap'[new].refs = heap[new].refs /\ heap'[new].data = heap[new].data
                /\ locks'[h] = 0
  <2> SUFFICES ASSUME new \in Address
               PROVE  /\ new \in DOMAIN heap'
                      /\ \/ new \notin DOMAIN heap /\ heap'[new].refs = 1 - locks'[h]
                         \/ /\ new \in DOMAIN heap /\ new # elements[h] /\ heap[new].refs > 0
                            /\ heap'[new] = [heap[new] EXCEPT !.refs = @ + 1] /\ locks'[h] = 0
                         \/ /\ new = elements[h]
                            /\ heap'[new].refs = heap[new].refs /\ heap'[new].data = heap[new].data
                            /\ locks'[h] = 0
    OBVIOUS
  <2>1. CASE new \notin DOMAIN heap
    BY <1>1, <1>5, <2>1
  <2>2. CASE new \in DOMAIN heap /\ new # old
    <3>1. new # elements[h]
      BY <1>3, <2>2
    <3> QED
      BY <1>5, <2>2, <3>1
  <2>3. CASE new = old
    <3>1. /\ heap[new] \in Buffer /\ heap[new].refs > 0 /\ new # EmptyArray
          /\ hp[new] = [heap[new] EXCEPT !.refs = @ + 1] /\ locks'[h] = 0
      BY <1>1, <2>3, PointerAssumption
    <3>2. hp[new].refs # 1
      BY <3>1 DEF Buffer
    <3>4. heap'[new] = [hp[new] EXCEPT !.refs = @ - 1]
      BY <1>7, <2>3, <3>1, <3>2
    <3>5. heap'[new].refs = heap[new].refs /\ heap'[new].data = heap[new].data
      BY <3>1, <3>4 DEF Buffer
    <3>3. new = elements[h]
      BY <1>4, <1>3, <2>3, <3>1
    <3> QED
      BY <1>7, <2>3, <3>1, <3>2, <3>3, <3>5
  <2> QED
    BY <2>1, <2>2, <2>3
<1> HIDE DEF old
<1> QED
  BY <1>9, <1>10, <1>11, <1>12, <1>13, <1>14, PointerMoves

\* The history variable keeps its type, and an unlocked array has no locks.
LEMMA LocksKeep ==
    ASSUME IInv, UNCHANGED locks
    PROVE  /\ locks' \in [Handle -> 0..MaxLocks]
           /\ \A h \in Handle : ~IsLocked(h) => locks'[h] = 0
<1>1. locks' \in [Handle -> 0..MaxLocks]
  BY DEF IInv, TypeOK
<1>2. \A h \in Handle : locks[h] \in Nat
  BY BoundAssumption DEF IInv, TypeOK
<1> QED
  BY <1>1, <1>2 DEF IInv, LockIsOwn

\* What the heap is before it is changed.
LEMMA HeapFacts ==
    ASSUME IInv
    PROVE  /\ DOMAIN heap \subseteq Pointer
           /\ \A a \in DOMAIN heap : heap[a] \in Buffer /\ Len(heap[a].data) <= heap[a].capacity
           /\ EmptyArray \in DOMAIN heap /\ heap[EmptyArray] = EmptyArrayMetadata
BY DEF IInv, TypeOK, FitsCapacity, EmptyArrayIntact

\* The array ends up without a buffer of its own, or without an object.
LEMMA LosingBuffer ==
    ASSUME IInv, NEW h \in Handle, NEW new \in {EmptyArray, NoObject},
           ~IsLocked(h),
           heap' = Release(heap, Elements(h)),
           elements' = [elements EXCEPT ![h] = new],
           UNCHANGED locks
    PROVE  IInv' /\ LockedStay /\ OthersUnchanged(h)
<1>1. new \in Pointer \cup {NoObject} /\ new \notin Address
  BY PointerAssumption DEF Pointer
<1> QED
  BY <1>1, HeapFacts, LocksKeep, Replacing

\* A new buffer of one's own, and possibly the first lock on it.
LEMMA NewBuffer ==
    ASSUME IInv, NEW h \in Handle, NEW a \in Address \ DOMAIN heap, NEW hp,
           DOMAIN hp = DOMAIN heap \cup {a},
           hp[a] \in Buffer, Len(hp[a].data) <= hp[a].capacity, hp[a].refs = 1 - locks'[h],
           \A x \in DOMAIN heap : x # a => hp[x] = heap[x],
           ReplaceBuffer(hp, h, a),
           locks' \in [Handle -> 0..MaxLocks],
           \A g \in Handle : g # h => locks'[g] = locks[g]
    PROVE  IInv' /\ LockedStay /\ OthersUnchanged(h)
<1>1. /\ ~IsLocked(h)
      /\ heap' = Release(hp, Elements(h))
      /\ elements' = [elements EXCEPT ![h] = a]
  BY DEF ReplaceBuffer
<1>3. a \in Pointer \cup {NoObject}
  BY DEF Pointer
<1>4. DOMAIN hp \subseteq Pointer
  BY HeapFacts DEF Pointer
<1>5. \A x \in DOMAIN hp : hp[x] \in Buffer /\ Len(hp[x].data) <= hp[x].capacity
  BY HeapFacts
<1>6. EmptyArray \in DOMAIN hp /\ hp[EmptyArray] = EmptyArrayMetadata
  BY HeapFacts
<1>7. \A x \in Address : x # a =>
         /\ x \in DOMAIN hp <=> x \in DOMAIN heap
         /\ x \in DOMAIN heap => hp[x] = heap[x]
  OBVIOUS
<1>8. a \in DOMAIN hp /\ a \notin DOMAIN heap /\ hp[a].refs = 1 - locks'[h]
  OBVIOUS
<1> QED
  BY <1>1, <1>3, <1>4, <1>5, <1>6, <1>7, <1>8, Replacing

\* Moving to a new and larger buffer keeps the invariant.
LEMMA ReallocateKeeps ==
    ASSUME IInv, NEW h \in Handle,
           NEW capacity \in Nat, NEW data \in Seq(Value), Len(data) <= capacity,
           Reallocate(h, capacity, data), UNCHANGED locks
    PROVE  IInv' /\ LockedStay /\ OthersUnchanged(h)
<1>1. PICK a \in Address \ DOMAIN heap :
         ReplaceBuffer(AllocBuffer(heap, a, capacity, data), h, a)
  BY DEF Reallocate
<1>2. PICK hp : hp = AllocBuffer(heap, a, capacity, data)
  OBVIOUS
<1>3. locks' \in [Handle -> 0..MaxLocks] /\ locks'[h] = 0
  BY <1>1, LocksKeep DEF ReplaceBuffer
<1>4. /\ DOMAIN hp = DOMAIN heap \cup {a}
      /\ hp[a] \in Buffer /\ Len(hp[a].data) <= hp[a].capacity /\ hp[a].refs = 1
      /\ \A x \in DOMAIN heap : x # a => hp[x] = heap[x]
  <2>1. /\ DOMAIN hp = DOMAIN heap \cup {a}
        /\ hp[a] = [refs |-> 1, capacity |-> capacity, data |-> data]
        /\ \A x \in DOMAIN heap : x # a => hp[x] = heap[x]
    BY <1>2 DEF AllocBuffer
  <2> QED
    BY <2>1 DEF Buffer
<1>5. ReplaceBuffer(hp, h, a)
  BY <1>1, <1>2
<1>6. hp[a].refs = 1 - locks'[h]
  BY <1>3, <1>4
<1>7. \A g \in Handle : g # h => locks'[g] = locks[g]
  OBVIOUS
<1> QED
  BY <1>3, <1>4, <1>5, <1>6, <1>7, NewBuffer

\* Sharing the buffer of an array that is not locked
LEMMA ShareKeeps ==
    ASSUME IInv, NEW h \in Handle, NEW g \in Handle,
           IsObject(g), ~IsLocked(h), ~IsLocked(g),
           ReplaceBuffer(AddRef(heap, elements[g]), h, elements[g]), UNCHANGED locks
    PROVE  IInv' /\ LockedStay /\ OthersUnchanged(h)
<1>1. PICK new, hp : new = elements[g] /\ hp = AddRef(heap, new)
  OBVIOUS
<1>2. /\ heap' = Release(hp, Elements(h))
      /\ elements' = [elements EXCEPT ![h] = new]
  BY <1>1 DEF ReplaceBuffer
<1>3. Elements(g) = new /\ new \in DOMAIN heap /\ new \in Pointer
  BY <1>1, ObjectFacts DEF Elements
<1>4. CASE new = EmptyArray
  <2>1. hp = heap
    BY <1>1, <1>4 DEF AddRef
  <2> QED
    BY <1>2, <1>4, <2>1, LosingBuffer
<1>5. CASE new # EmptyArray
  <2>1. hp = [heap EXCEPT ![new].refs = @ + 1]
    BY <1>1, <1>5 DEF AddRef
  <2>2. /\ DOMAIN hp = DOMAIN heap
        /\ hp[new] = [heap[new] EXCEPT !.refs = @ + 1]
        /\ \A x \in DOMAIN heap : x # new => hp[x] = heap[x]
    BY <1>3, <2>1
  <2>3. heap[new] \in Buffer /\ heap[new].refs > 0
    BY <1>3, ObjectFacts DEF IsLocked, Metadata, Buffer
  <2>4. hp[new] \in Buffer /\ Len(hp[new].data) <= hp[new].capacity
    BY <1>3, <2>2, <2>3, HeapFacts DEF Buffer
  <2>5. \A x \in DOMAIN hp : hp[x] \in Buffer /\ Len(hp[x].data) <= hp[x].capacity
    BY <2>2, <2>4, HeapFacts
  <2>6. EmptyArray \in DOMAIN hp /\ hp[EmptyArray] = EmptyArrayMetadata
    BY <1>5, <2>2, HeapFacts
  <2>7. locks' \in [Handle -> 0..MaxLocks] /\ locks'[h] = 0
    BY LocksKeep
  <2>8. \A a \in Address : a # new =>
           /\ a \in DOMAIN hp <=> a \in DOMAIN heap
           /\ a \in DOMAIN heap => hp[a] = heap[a]
    BY <2>2
  <2>9. new \in Pointer \cup {NoObject} /\ DOMAIN hp \subseteq Pointer
    BY <1>3, <2>2, HeapFacts
  <2>10. \A f \in Handle : f # h => locks'[f] = locks[f]
    OBVIOUS
  <2>11. /\ new \in DOMAIN hp /\ new \in DOMAIN heap /\ heap[new].refs > 0
         /\ hp[new] = [heap[new] EXCEPT !.refs = @ + 1] /\ locks'[h] = 0
    BY <1>3, <2>2, <2>3, <2>7
  <2> QED
    BY <1>2, <2>5, <2>6, <2>7, <2>8, <2>9, <2>10, <2>11, Replacing
<1> QED
  BY <1>4, <1>5

\* discard_and_alloc(): the new buffer may lie where the old one was
LEMMA DiscardAndAllocKeeps ==
    ASSUME IInv, NEW h \in Handle,
           NEW capacity \in Nat, NEW data \in Seq(Value), Len(data) <= capacity,
           DiscardAndAlloc(h, capacity, data), UNCHANGED locks
    PROVE  IInv' /\ LockedStay /\ OthersUnchanged(h)
<1>1. CASE /\ capacity > 0
           /\ \E a \in Address \ DOMAIN Release(heap, Elements(h)) :
                 /\ heap' = AllocBuffer(Release(heap, Elements(h)), a, capacity, data)
                 /\ elements' = [elements EXCEPT ![h] = a]
  <2>1. PICK old, released : old = Elements(h) /\ released = Release(heap, old)
    OBVIOUS
  <2>2. PICK a \in Address \ DOMAIN released :
           /\ heap' = AllocBuffer(released, a, capacity, data)
           /\ elements' = [elements EXCEPT ![h] = a]
    BY <1>1, <2>1
  <2>3. /\ DOMAIN heap' = DOMAIN released \cup {a}
        /\ heap'[a] = [refs |-> 1, capacity |-> capacity, data |-> data]
        /\ \A x \in DOMAIN released : heap'[x] = released[x]
    BY <2>2 DEF AllocBuffer
  <2>4. heap'[a] \in Buffer /\ heap'[a].refs = 1 /\ Len(heap'[a].data) <= heap'[a].capacity
    BY <2>3 DEF Buffer
  <2>5. old \in DOMAIN heap /\ heap[old] \in Buffer
    BY <2>1, ObjectFacts DEF Metadata
  <2>6. ~IsLocked(h) /\ locks' \in [Handle -> 0..MaxLocks] /\ locks'[h] = 0
    BY LocksKeep DEF DiscardAndAlloc
  <2>7. /\ DOMAIN released \subseteq DOMAIN heap
        /\ \A x \in DOMAIN heap : x # old => x \in DOMAIN released /\ released[x] = heap[x]
    BY <2>1, <2>5 DEF Release
  <2>8. old = EmptyArray => released = heap
    BY <2>1 DEF Release
  <2>9. old # EmptyArray =>
           IF heap[old].refs = 1
           THEN old \notin DOMAIN released
           ELSE old \in DOMAIN released /\ released[old] = [heap[old] EXCEPT !.refs = @ - 1]
    BY <2>1, <2>5 DEF Release
  <2>10. \A x \in DOMAIN released : released[x] \in Buffer /\ Len(released[x].data) <= released[x].capacity
    <3> SUFFICES ASSUME NEW x \in DOMAIN released
                 PROVE  released[x] \in Buffer /\ Len(released[x].data) <= released[x].capacity
      OBVIOUS
    <3>1. heap[x] \in Buffer /\ Len(heap[x].data) <= heap[x].capacity
      BY <2>7, HeapFacts
    <3>2. CASE x = old /\ old # EmptyArray
      <4>1. released[x] = [heap[x] EXCEPT !.refs = @ - 1]
        BY <2>9, <3>2
      <4> QED
        BY <3>1, <4>1 DEF Buffer
    <3> QED
      BY <2>7, <2>8, <3>1, <3>2
  <2>11. \A x \in DOMAIN heap' : heap'[x] \in Buffer /\ Len(heap'[x].data) <= heap'[x].capacity
    BY <2>3, <2>4, <2>10
  <2>12. EmptyArrayIntact'
    BY <2>2, <2>3, <2>7, <2>8, HeapFacts, PointerAssumption DEF EmptyArrayIntact
  <2>13. DOMAIN heap' \subseteq Pointer /\ a \in Pointer \cup {NoObject}
    BY <2>3, <2>7, HeapFacts DEF Pointer
  <2>14. elements[h] \in Address => old = elements[h] /\ old # EmptyArray
    BY <2>1, PointerAssumption DEF Elements, IsObject
  <2>15. elements[h] \notin Address => old = EmptyArray
    BY <2>1, NoBufferNoLock
  <2>16. \A x \in Address : x # elements[h] /\ x # a =>
            /\ x \in DOMAIN heap' <=> x \in DOMAIN heap
            /\ x \in DOMAIN heap => heap'[x] = heap[x]
    <3> SUFFICES ASSUME NEW x \in Address, x # elements[h], x # a
                 PROVE  /\ x \in DOMAIN heap' <=> x \in DOMAIN heap
                        /\ x \in DOMAIN heap => heap'[x] = heap[x]
      OBVIOUS
    <3>1. x # old
      BY <2>14, <2>15, PointerAssumption
    <3> QED
      BY <2>3, <2>7, <3>1
  <2>17. elements[h] \in Address /\ elements[h] # a =>
            IF heap[elements[h]].refs = 1
            THEN elements[h] \notin DOMAIN heap'
            ELSE /\ elements[h] \in DOMAIN heap'
                 /\ heap'[elements[h]] = [heap[elements[h]] EXCEPT !.refs = @ - 1]
    BY <2>3, <2>9, <2>14
  <2>18. a \notin DOMAIN heap \/ (a = elements[h] /\ heap[a].refs = 1)
    BY <2>5, <2>7, <2>9, <2>14, <2>15, PointerAssumption
  <2>19. /\ a \in DOMAIN heap'
         /\ a \notin DOMAIN heap \/ (a = elements[h] /\ heap[a].refs = 1)
         /\ heap'[a].refs = 1 - locks'[h]
    BY <2>3, <2>4, <2>6, <2>18
  <2>20. \A g \in Handle : g # h => locks'[g] = locks[g]
    OBVIOUS
  <2> QED
    BY <2>2, <2>6, <2>11, <2>12, <2>13, <2>16, <2>17, <2>19, <2>20, PointerMoves
<1>2. CASE capacity = 0 /\ ReplaceBuffer(heap, h, EmptyArray)
  BY <1>2, LosingBuffer DEF ReplaceBuffer
<1>3. CASE Capacity(h) = capacity /\ ~IsShared(h) /\ WriteInPlace(h, data)
  BY <1>3, WriteInPlaceKeeps
<1> QED
  BY <1>1, <1>2, <1>3 DEF DiscardAndAlloc

\* empty() keeps the invariant.
LEMMA EmptyKeeps ==
    ASSUME IInv, NEW h \in Handle, Empty(h), UNCHANGED locks
    PROVE  IInv' /\ LockedStay /\ OthersUnchanged(h)
<1>1. CASE ~IsShared(h) /\ WriteInPlace(h, << >>)
  <2>1. << >> \in Seq(Value) /\ Len(<< >>) = 0
    OBVIOUS
  <2>2. Capacity(h) \in Nat
    BY ObjectFacts
  <2>3. Len(<< >>) <= Capacity(h)
    BY <2>1, <2>2
  <2> QED
    BY <1>1, <2>1, <2>3, WriteInPlaceKeeps
<1>2. CASE IsShared(h) /\ ReplaceBuffer(heap, h, EmptyArray)
  BY <1>2, LosingBuffer DEF ReplaceBuffer
<1> QED
  BY <1>1, <1>2 DEF Empty

\* assign() from memory outside the array keeps the invariant.
LEMMA AssignSequenceKeeps ==
    ASSUME IInv, NEW h \in Handle, NEW s \in Seq(Value), AssignSequence(h, s), UNCHANGED locks
    PROVE  IInv' /\ LockedStay /\ OthersUnchanged(h)
<1>1. CASE Empty(h)
  BY <1>1, EmptyKeeps
<1>2. CASE ~IsShared(h) /\ Len(s) <= Capacity(h) /\ WriteInPlace(h, s)
  BY <1>2, WriteInPlaceKeeps
<1>3. CASE DiscardAndAlloc(h, ExtraCapacity(Len(s)), s)
  <2>1. Len(s) \in Nat
    BY LenProperties
  <2>2. ExtraCapacity(Len(s)) \in Nat /\ Len(s) <= ExtraCapacity(Len(s))
    BY <2>1, ExtraCapacityIsMore
  <2> QED
    BY <1>3, <2>2, DiscardAndAllocKeeps
<1> QED
  BY <1>1, <1>2, <1>3 DEF AssignSequence

\* assign() from another array, shared or copied, keeps the invariant.
LEMMA AssignArrayKeeps ==
    ASSUME IInv, NEW h \in Handle, NEW g \in Handle, IsObject(g), AssignArray(h, g), UNCHANGED locks
    PROVE  IInv' /\ LockedStay /\ OthersUnchanged(h)
<1>1. CASE /\ ~IsLocked(h) /\ ~IsLocked(g)
           /\ ReplaceBuffer(AddRef(heap, elements[g]), h, elements[g])
  BY <1>1, ShareKeeps
<1>2. CASE AssignSequence(h, Data(g))
  BY <1>2, ObjectFacts, AssignSequenceKeeps
<1> QED
  BY <1>1, <1>2 DEF AssignArray

\* isolate() followed by a write keeps the invariant.
LEMMA IsolateAndWriteKeeps ==
    ASSUME IInv, NEW h \in Handle, NEW data \in Seq(Value), Len(data) = Length(h),
           IsolateAndWrite(h, data), UNCHANGED locks
    PROVE  IInv' /\ LockedStay /\ OthersUnchanged(h)
<1>1. Length(h) \in Nat /\ Length(h) <= Capacity(h)
  BY ObjectFacts
<1>2. ExtraCapacity(Length(h)) \in Nat /\ Length(h) <= ExtraCapacity(Length(h))
  BY <1>1, ExtraCapacityIsMore
<1>3. CASE Reallocate(h, ExtraCapacity(Length(h)), data)
  BY <1>2, <1>3, ReallocateKeeps
<1>4. CASE ~IsShared(h) /\ WriteInPlace(h, data)
  BY <1>1, <1>4, WriteInPlaceKeeps
<1> QED
  BY <1>3, <1>4 DEF IsolateAndWrite

\* lock() keeps the invariant.
LEMMA LockKeeps ==
    ASSUME IInv, NEW h \in Handle, Lock(h)
    PROVE  IInv' /\ LockedStay /\ OthersUnchanged(h)
<1>1. locks[h] \in 0..MaxLocks /\ locks[h] < MaxLocks
  BY DEF Lock, IInv, TypeOK
<1>2. locks' = [locks EXCEPT ![h] = locks[h] + 1]
  BY DEF Lock
<1>3. /\ locks' \in [Handle -> 0..MaxLocks]
      /\ locks'[h] = locks[h] + 1
      /\ \A g \in Handle : g # h => locks'[g] = locks[g]
  <2>1. locks[h] + 1 \in 0..MaxLocks
    BY <1>1, BoundAssumption
  <2> QED
    BY <1>2, <2>1 DEF IInv, TypeOK
<1>4. CASE /\ IsShared(h)
           /\ \E a \in Address \ DOMAIN heap :
                 LET copied == AllocBuffer(heap, a, ExtraCapacity(Length(h)), Data(h))
                 IN  ReplaceBuffer([copied EXCEPT ![a].refs = @ - 1], h, a)
  <2>a. PICK a \in Address \ DOMAIN heap :
           ReplaceBuffer([AllocBuffer(heap, a, ExtraCapacity(Length(h)), Data(h))
                             EXCEPT ![a].refs = @ - 1], h, a)
    BY <1>4
  <2>1. PICK copied, hp :
           /\ copied = AllocBuffer(heap, a, ExtraCapacity(Length(h)), Data(h))
           /\ hp = [copied EXCEPT ![a].refs = @ - 1]
           /\ ReplaceBuffer(hp, h, a)
    BY <2>a
  <2>2. /\ Data(h) \in Seq(Value)
        /\ ExtraCapacity(Length(h)) \in Nat
        /\ Len(Data(h)) <= ExtraCapacity(Length(h))
    <3>1. Length(h) \in Nat /\ Len(Data(h)) = Length(h)
      BY ObjectFacts DEF Length, Data
    <3> QED
      BY <3>1, ObjectFacts, ExtraCapacityIsMore
  <2>3. /\ DOMAIN copied = DOMAIN heap \cup {a}
        /\ copied[a] = [refs |-> 1, capacity |-> ExtraCapacity(Length(h)), data |-> Data(h)]
        /\ \A x \in DOMAIN heap : x # a => copied[x] = heap[x]
    BY <2>1 DEF AllocBuffer
  <2>4. copied[a] \in Buffer /\ Len(copied[a].data) <= copied[a].capacity /\ copied[a].refs = 1
    BY <2>2, <2>3 DEF Buffer
  <2>5. /\ DOMAIN hp = DOMAIN heap \cup {a}
        /\ hp[a] = [copied[a] EXCEPT !.refs = @ - 1]
        /\ \A x \in DOMAIN heap : x # a => hp[x] = heap[x]
    BY <2>1, <2>3
  <2>6. hp[a] \in Buffer /\ Len(hp[a].data) <= hp[a].capacity /\ hp[a].refs = 0
    BY <2>4, <2>5 DEF Buffer
  <2>7. locks[h] = 0
    <3>1. ~(locks[h] > 0)
      BY <2>1 DEF ReplaceBuffer, IInv, LockIsOwn
    <3> QED
      BY <1>1, <3>1
  <2>8. hp[a].refs = 1 - locks'[h]
    BY <1>3, <2>6, <2>7
  <2> QED
    BY <1>3, <2>1, <2>5, <2>6, <2>8, NewBuffer
<1>5. CASE /\ ~IsShared(h)
           /\ heap' = [heap EXCEPT ![Elements(h)].refs = @ - 1]
           /\ UNCHANGED elements
  <2>1. PICK b : b = [Metadata(h) EXCEPT !.refs = @ - 1]
    OBVIOUS
  <2>2. Metadata(h) \in Buffer
    BY ObjectFacts
  <2>3. /\ b \in Buffer /\ b.data = Data(h)
        /\ b.capacity = Capacity(h) /\ b.refs = Metadata(h).refs - 1
    BY <2>1, <2>2 DEF Buffer, Data, Capacity
  <2>4. Metadata(h).refs = 1 - locks[h]
    BY <1>5, SoleOwner DEF Metadata
  <2>5. b.refs = 1 - locks'[h]
    BY <1>1, <1>3, <2>3, <2>4
  <2>6. Len(b.data) <= b.capacity
    BY <2>3, ObjectFacts DEF Length, Data
  <2>7. heap' = [heap EXCEPT ![Elements(h)] = b]
    BY <1>5, <2>1 DEF Metadata
  <2> QED
    BY <1>3, <1>5, <2>3, <2>5, <2>6, <2>7, BufferChanges
<1> QED
  BY <1>4, <1>5 DEF Lock

\* unlock() keeps the invariant.
LEMMA UnlockKeeps ==
    ASSUME IInv, NEW h \in Handle, Unlock(h)
    PROVE  IInv' /\ LockedStay /\ OthersUnchanged(h)
<1>1. locks[h] \in 1..MaxLocks
  <2>1. locks[h] \in 0..MaxLocks /\ locks[h] > 0
    BY DEF Unlock, IInv, TypeOK, LockIsOwn
  <2> QED
    BY <2>1, BoundAssumption
<1>2. /\ locks' = [locks EXCEPT ![h] = locks[h] - 1]
      /\ heap' = [heap EXCEPT ![Elements(h)].refs = @ + 1]
      /\ elements' = elements
  BY DEF Unlock
<1>3. /\ locks' \in [Handle -> 0..MaxLocks]
      /\ locks'[h] = locks[h] - 1
      /\ \A g \in Handle : g # h => locks'[g] = locks[g]
  <2>1. locks[h] - 1 \in 0..MaxLocks
    BY <1>1, BoundAssumption
  <2> QED
    BY <1>2, <2>1 DEF IInv, TypeOK
<1>4. PICK b : b = [Metadata(h) EXCEPT !.refs = @ + 1]
  OBVIOUS
<1>5. Metadata(h) \in Buffer
  BY ObjectFacts
<1>6. ~IsShared(h)
  BY <1>5 DEF Unlock, IsLocked, IsShared, Buffer
<1>7. /\ b \in Buffer /\ b.data = Data(h)
      /\ b.capacity = Capacity(h) /\ b.refs = Metadata(h).refs + 1
  BY <1>4, <1>5 DEF Buffer, Data, Capacity
<1>8. Metadata(h).refs = 1 - locks[h]
  BY <1>6, SoleOwner DEF Metadata
<1>9. b.refs = 1 - locks'[h]
  BY <1>1, <1>3, <1>7, <1>8, BoundAssumption
<1>10. Len(b.data) <= b.capacity
  BY <1>7, ObjectFacts DEF Length, Data
<1>11. heap' = [heap EXCEPT ![Elements(h)] = b]
  BY <1>2, <1>4 DEF Metadata
<1> QED
  BY <1>2, <1>3, <1>6, <1>7, <1>9, <1>10, <1>11, BufferChanges

\* alloc_and_copy() keeps the invariant.
LEMMA AllocAndCopyKeeps ==
    ASSUME IInv, NEW h \in Handle, NEW n \in Nat, AllocAndCopy(h, n)
    PROVE  IInv' /\ LockedStay /\ OthersUnchanged(h)
<1>1. Data(h) \in Seq(Value) /\ Length(h) \in Nat /\ Length(h) = Len(Data(h))
  BY ObjectFacts DEF Length, Data
<1>2. Smaller(Length(h), n) \in 0..Len(Data(h)) /\ Smaller(Length(h), n) <= n
  BY <1>1 DEF Smaller
<1>3. /\ Prefix(Data(h), Smaller(Length(h), n)) \in Seq(Value)
      /\ Len(Prefix(Data(h), Smaller(Length(h), n))) <= n
  BY <1>1, <1>2, PrefixType
<1>4. CASE Reallocate(h, n, Prefix(Data(h), Smaller(Length(h), n)))
  BY <1>3, <1>4, ReallocateKeeps DEF AllocAndCopy
<1>5. CASE ReplaceBuffer(heap, h, EmptyArray)
  BY <1>5, LosingBuffer DEF ReplaceBuffer, AllocAndCopy
<1> QED
  BY <1>4, <1>5 DEF AllocAndCopy

\* overwrite() keeps the invariant.
LEMMA OverwriteKeeps ==
    ASSUME IInv, NEW h \in Handle, NEW i \in Nat, NEW s \in Seq(Value), Overwrite(h, i, s)
    PROVE  IInv' /\ LockedStay /\ OthersUnchanged(h)
<1>1. PICK n, d, tail, result :
         n = Length(h) /\ d = Data(h) /\ tail = i + Len(s) /\ result = Overwritten(d, i, s)
  OBVIOUS
<1>2. /\ d \in Seq(Value) /\ n \in Nat /\ n = Len(d) /\ Len(s) \in Nat /\ tail \in Nat
      /\ i \in 0..n /\ n <= Capacity(h) /\ Capacity(h) \in Nat
  BY <1>1, ObjectFacts, LenProperties DEF Length, Data, Overwrite
<1>3. result \in Seq(Value) /\ Len(result) = Larger(tail, n)
  BY <1>1, <1>2, OverwrittenType
<1>4. CASE ~IsShared(h) /\ (tail <= n \/ tail <= Capacity(h)) /\ WriteInPlace(h, result)
  <2>1. Len(result) <= Capacity(h)
    BY <1>2, <1>3, <1>4 DEF Larger
  <2> QED
    BY <1>3, <1>4, <2>1, WriteInPlaceKeeps DEF Overwrite
<1>5. CASE Reallocate(h, ExtraCapacity(Larger(tail, n)), result)
  <2>1. Larger(tail, n) \in Nat
    BY <1>2 DEF Larger
  <2>2. ExtraCapacity(Larger(tail, n)) \in Nat /\ Len(result) <= ExtraCapacity(Larger(tail, n))
    BY <1>3, <2>1, ExtraCapacityIsMore
  <2> QED
    BY <1>3, <1>5, <2>2, ReallocateKeeps DEF Overwrite
<1> QED
  BY <1>1, <1>4, <1>5 DEF Overwrite

\* insert() keeps the invariant.
LEMMA InsertKeeps ==
    ASSUME IInv, NEW h \in Handle, NEW i \in Nat, NEW s \in Seq(Value), Insert(h, i, s)
    PROVE  IInv' /\ LockedStay /\ OthersUnchanged(h)
<1>1. PICK n, d, size, result :
         n = Length(h) /\ d = Data(h) /\ size = n + Len(s) /\ result = Inserted(d, i, s)
  OBVIOUS
<1>2. /\ d \in Seq(Value) /\ n \in Nat /\ n = Len(d) /\ Len(s) \in Nat /\ size \in Nat
      /\ i \in 0..n
  BY <1>1, ObjectFacts, LenProperties DEF Length, Data, Insert
<1>3. result \in Seq(Value) /\ Len(result) = size
  BY <1>1, <1>2, InsertedType
<1>4. CASE size <= Capacity(h) /\ ~IsShared(h) /\ WriteInPlace(h, result)
  BY <1>3, <1>4, WriteInPlaceKeeps DEF Insert
<1>5. CASE Reallocate(h, ExtraCapacity(size), result)
  <2>1. ExtraCapacity(size) \in Nat /\ Len(result) <= ExtraCapacity(size)
    BY <1>2, <1>3, ExtraCapacityIsMore
  <2> QED
    BY <1>3, <1>5, <2>1, ReallocateKeeps DEF Insert
<1> QED
  BY <1>1, <1>4, <1>5 DEF Insert

\* append() keeps the invariant.
LEMMA ExtendKeeps ==
    ASSUME IInv, NEW h \in Handle, NEW s \in Seq(Value), Extend(h, s)
    PROVE  IInv' /\ LockedStay /\ OthersUnchanged(h)
<1>1. PICK n, d, size : n = Length(h) /\ d = Data(h) /\ size = n + Len(s)
  OBVIOUS
<1>2. d \in Seq(Value) /\ n \in Nat /\ n = Len(d) /\ Len(s) \in Nat /\ size \in Nat
  BY <1>1, ObjectFacts, LenProperties DEF Length, Data
<1>3. d \o s \in Seq(Value) /\ Len(d \o s) = size
  BY <1>1, <1>2, ConcatProperties
<1>4. CASE ~IsShared(h) /\ size <= Capacity(h) /\ WriteInPlace(h, d \o s)
  BY <1>3, <1>4, WriteInPlaceKeeps DEF Extend
<1>5. CASE Reallocate(h, ExtraCapacity(size), d \o s)
  <2>1. ExtraCapacity(size) \in Nat /\ Len(d \o s) <= ExtraCapacity(size)
    BY <1>2, <1>3, ExtraCapacityIsMore
  <2> QED
    BY <1>3, <1>5, <2>1, ReallocateKeeps DEF Extend
<1> QED
  BY <1>1, <1>4, <1>5 DEF Extend

\* operator+ keeps the invariant.
LEMMA ConcatenateKeeps ==
    ASSUME IInv, NEW h \in Handle, NEW a \in Handle, NEW b \in Handle, Concatenate(h, a, b)
    PROVE  IInv' /\ LockedStay /\ OthersUnchanged(h)
<1>1. PICK size, room, sum :
         /\ size = Length(a) + Length(b)
         /\ room = ExtraCapacity(Length(a))
         /\ sum = Data(a) \o Data(b)
  OBVIOUS
<1>2. /\ Data(a) \in Seq(Value) /\ Length(a) \in Nat /\ Length(a) = Len(Data(a))
      /\ Data(b) \in Seq(Value) /\ Length(b) \in Nat /\ Length(b) = Len(Data(b))
  BY ObjectFacts DEF Length, Data
<1>3. sum \in Seq(Value) /\ Len(sum) = size /\ size \in Nat
  BY <1>1, <1>2, ConcatProperties
<1>4. CASE AssignArray(h, a)
  BY <1>4, AssignArrayKeeps DEF Concatenate
<1>5. CASE size <= room /\ Reallocate(h, room, sum)
  <2>1. room \in Nat /\ Len(sum) <= room
    BY <1>1, <1>2, <1>3, <1>5, ExtraCapacityIsMore
  <2> QED
    BY <1>3, <1>5, <2>1, ReallocateKeeps DEF Concatenate
<1>6. CASE Reallocate(h, ExtraCapacity(size), sum)
  <2>1. ExtraCapacity(size) \in Nat /\ Len(sum) <= ExtraCapacity(size)
    BY <1>3, ExtraCapacityIsMore
  <2> QED
    BY <1>3, <1>6, <2>1, ReallocateKeeps DEF Concatenate
<1> QED
  BY <1>1, <1>4, <1>5, <1>6 DEF Concatenate

\* remove() keeps the invariant.
LEMMA RemoveKeeps ==
    ASSUME IInv, NEW h \in Handle, NEW i \in Nat, NEW n \in Nat, Remove(h, i, n)
    PROVE  IInv' /\ LockedStay /\ OthersUnchanged(h)
<1>1. PICK count, result :
         /\ count = IF i + n > Length(h) THEN Length(h) - i ELSE n
         /\ result = Removed(Data(h), i, count)
  OBVIOUS
<1>2. /\ Data(h) \in Seq(Value) /\ Length(h) \in Nat /\ Length(h) = Len(Data(h))
      /\ Length(h) <= Capacity(h) /\ Capacity(h) \in Nat
      /\ i \in 0..Len(Data(h))
  BY ObjectFacts DEF Length, Data, Remove
<1>3. count \in 0..Len(Data(h)) - i
  BY <1>1, <1>2
<1>4. result \in Seq(Value) /\ Len(result) \in Nat /\ Len(result) <= Length(h)
  <2>1. result \in Seq(Value) /\ Len(result) = Len(Data(h)) - count
    BY <1>1, <1>2, <1>3, RemovedType
  <2> QED
    BY <1>2, <1>3, <2>1
<1>5. CASE ~IsShared(h) /\ WriteInPlace(h, result)
  <2>1. Len(result) <= Capacity(h)
    BY <1>2, <1>4
  <2> QED
    BY <1>4, <1>5, <2>1, WriteInPlaceKeeps DEF Remove
<1>6. CASE Reallocate(h, ExtraCapacity(Len(result)), result)
  <2>1. ExtraCapacity(Len(result)) \in Nat /\ Len(result) <= ExtraCapacity(Len(result))
    BY <1>4, ExtraCapacityIsMore
  <2> QED
    BY <1>4, <1>6, <2>1, ReallocateKeeps DEF Remove
<1> QED
  BY <1>1, <1>5, <1>6 DEF Remove

\* A write through at() keeps the invariant.
LEMMA SetElementKeeps ==
    ASSUME IInv, NEW h \in Handle, NEW i \in Nat, NEW v \in Value, SetElement(h, i, v)
    PROVE  IInv' /\ LockedStay /\ OthersUnchanged(h)
<1>1. Data(h) \in Seq(Value) /\ Length(h) \in Nat /\ Length(h) = Len(Data(h))
  BY ObjectFacts DEF Length, Data
<1>2. i + 1 \in 1..Len(Data(h))
  BY <1>1 DEF SetElement
<1>3. PICK result : result = [Data(h) EXCEPT ![i + 1] = v]
  OBVIOUS
<1>4. result \in Seq(Value) /\ Len(result) = Length(h)
  BY <1>1, <1>2, <1>3, ExceptSeq
<1> QED
  BY <1>3, <1>4, IsolateAndWriteKeeps DEF SetElement

\* shuffle() keeps the invariant.
LEMMA ShuffleKeeps ==
    ASSUME IInv, NEW h \in Handle, Shuffle(h)
    PROVE  IInv' /\ LockedStay /\ OthersUnchanged(h)
<1>1. PICK p \in [1..Length(h) -> 1..Length(h)] :
         IsolateAndWrite(h, [k \in 1..Length(h) |-> Data(h)[p[k]]])
  BY DEF Shuffle
<1>2. Data(h) \in Seq(Value) /\ Length(h) \in Nat /\ Length(h) = Len(Data(h))
  BY ObjectFacts DEF Length, Data
<1>3. \A k \in 1..Length(h) : Data(h)[p[k]] \in Value
  BY <1>2, ElementOfSeq
<1>4. PICK result : result = [k \in 1..Length(h) |-> Data(h)[p[k]]]
  OBVIOUS
<1>5. result \in Seq(Value) /\ Len(result) = Length(h)
  <2>1. result \in [1..Length(h) -> Value]
    BY <1>3, <1>4
  <2>2. result \in Seq(Value)
    BY <1>2, <2>1
  <2>3. DOMAIN result = 1..Length(h) /\ DOMAIN result = 1..Len(result) /\ Len(result) \in Nat
    BY <2>1, <2>2, LenProperties
  <2> QED
    BY <1>2, <2>2, <2>3
<1> QED
  BY <1>1, <1>4, <1>5, IsolateAndWriteKeeps DEF Shuffle

\* Every step of the program, whatever array it is a step of
LEMMA StepKeeps ==
    ASSUME IInv, Next
    PROVE  IInv' /\ LockedStay /\ \E h \in Handle : OthersUnchanged(h)
<1> SUFFICES \E h \in Handle : IInv' /\ LockedStay /\ OthersUnchanged(h)
  OBVIOUS
<1> DEFINE Keeps(h) == IInv' /\ LockedStay /\ OthersUnchanged(h)
<1>1. ASSUME NEW h \in Handle, Construct(h)
      PROVE  Keeps(h)
  <2>1. Elements(h) = EmptyArray /\ ~IsLocked(h)
    BY <1>1, NoBufferNoLock, PointerAssumption DEF Construct, IsObject
  <2>2. heap' = Release(heap, Elements(h))
    BY <1>1, <2>1 DEF Construct, Release
  <2> QED
    BY <1>1, <2>1, <2>2, LosingBuffer DEF Construct
<1>2. ASSUME NEW h \in Handle, Destroy(h)
      PROVE  Keeps(h)
  <2>1. heap' = Release(heap, Elements(h))
    BY <1>2 DEF Destroy, Elements
  <2> QED
    BY <1>2, <2>1, LosingBuffer DEF Destroy
<1>3. ASSUME NEW h \in Handle, Clear(h)
      PROVE  Keeps(h)
  BY <1>3, EmptyKeeps DEF Clear
<1>4. ASSUME NEW h \in Handle, TrimToSize(h)
      PROVE  Keeps(h)
  BY <1>4, ObjectFacts, AllocAndCopyKeeps DEF TrimToSize
<1>5. ASSUME NEW h \in Handle, NEW g \in Handle, CopyConstruct(h, g) \/ Assign(h, g)
      PROVE  Keeps(h)
  BY <1>5, AssignArrayKeeps DEF CopyConstruct, Assign
<1>6. ASSUME NEW h \in Handle, NEW n \in Index, Reserve(h, n)
      PROVE  Keeps(h)
  <2>1. n \in Nat /\ << >> \in Seq(Value) /\ Len(<< >>) <= n
    BY BoundAssumption DEF Index
  <2> QED
    BY <1>6, <2>1, DiscardAndAllocKeeps DEF Reserve
<1>7. ASSUME NEW h \in Handle, NEW s \in Source, ConstructFrom(h, s) \/ AssignFrom(h, s)
      PROVE  Keeps(h)
  BY <1>7, SourceType, AssignSequenceKeeps DEF ConstructFrom, AssignFrom
<1>8. Index \subseteq Nat
  BY BoundAssumption DEF Index
<1>9. PICK h \in Handle :
        \/ Construct(h) \/ Destroy(h) \/ Clear(h) \/ TrimToSize(h)
        \/ Lock(h) \/ Unlock(h) \/ Shuffle(h)
        \/ \E g \in Handle : CopyConstruct(h, g) \/ Assign(h, g)
        \/ \E a, b \in Handle : Concatenate(h, a, b)
        \/ \E n \in Index : AllocAndCopy(h, n) \/ Reserve(h, n)
        \/ \E s \in Source : ConstructFrom(h, s) \/ AssignFrom(h, s) \/ Extend(h, s)
        \/ \E i \in Index, s \in Source : Overwrite(h, i, s) \/ Insert(h, i, s)
        \/ \E i \in Index, n \in Index : Remove(h, i, n)
        \/ \E i \in Index, v \in Value : SetElement(h, i, v)
  BY DEF Next
<1>10. CASE \/ Construct(h) \/ Destroy(h) \/ Clear(h) \/ TrimToSize(h)
            \/ Lock(h) \/ Unlock(h) \/ Shuffle(h)
  BY <1>1, <1>2, <1>3, <1>4, <1>10, LockKeeps, UnlockKeeps, ShuffleKeeps
<1>11. CASE \/ \E g \in Handle : CopyConstruct(h, g) \/ Assign(h, g)
            \/ \E a, b \in Handle : Concatenate(h, a, b)
  BY <1>5, <1>11, ConcatenateKeeps
<1>12. CASE \E n \in Index : AllocAndCopy(h, n) \/ Reserve(h, n)
  BY <1>6, <1>8, <1>12, AllocAndCopyKeeps
<1>13. CASE \E s \in Source : ConstructFrom(h, s) \/ AssignFrom(h, s) \/ Extend(h, s)
  BY <1>7, <1>13, SourceType, ExtendKeeps
<1>14. CASE \E i \in Index, s \in Source : Overwrite(h, i, s) \/ Insert(h, i, s)
  BY <1>8, <1>14, SourceType, OverwriteKeeps, InsertKeeps
<1>15. CASE \E i \in Index, n \in Index : Remove(h, i, n)
  BY <1>8, <1>15, RemoveKeeps
<1>16. CASE \E i \in Index, v \in Value : SetElement(h, i, v)
  BY <1>8, <1>16, SetElementKeeps
<1> QED
  BY <1>9, <1>10, <1>11, <1>12, <1>13, <1>14, <1>15, <1>16

\* No array objects exist when the program starts.
LEMMA InitKeeps == Init => IInv
<1> SUFFICES ASSUME Init PROVE IInv
  OBVIOUS
<1>1. /\ DOMAIN heap = {EmptyArray} /\ heap[EmptyArray] = EmptyArrayMetadata
      /\ \A h \in Handle : elements[h] = NoObject /\ locks[h] = 0
      /\ elements \in [Handle -> {NoObject}] /\ locks \in [Handle -> {0}]
  BY DEF Init
<1>2. EmptyArrayMetadata \in Buffer
  BY DEF EmptyArrayMetadata, Buffer
<1>3. TypeOK
  BY <1>1, <1>2, BoundAssumption DEF TypeOK, Pointer
<1>4. RefsCountOwners
  BY <1>1 DEF RefsCountOwners
<1>5. LockIsOwn
  BY <1>1 DEF LockIsOwn, IsLocked, Metadata, Elements, IsObject, EmptyArrayMetadata
<1>6. FitsCapacity /\ EmptyArrayIntact
  BY <1>1 DEF FitsCapacity, EmptyArrayIntact, EmptyArrayMetadata
<1> QED
  BY <1>3, <1>4, <1>5, <1>6 DEF IInv

\* Steps of the rest of the program leave the arrays alone.
LEMMA StutterKeeps ==
    ASSUME IInv, UNCHANGED vars
    PROVE  IInv'
<1>1. elements' = elements /\ heap' = heap /\ locks' = locks
  BY DEF vars
<1>2. \A a : Sharing(a)' = Sharing(a)
  BY <1>1 DEF Sharing
<1>3. \A h \in Handle : IsLocked(h)' <=> IsLocked(h)
  BY <1>1 DEF IsLocked, Metadata, Elements, IsObject
<1>4. TypeOK' /\ FitsCapacity' /\ EmptyArrayIntact'
  BY <1>1 DEF IInv, TypeOK, FitsCapacity, EmptyArrayIntact
<1>5. RefsCountOwners'
  BY <1>1, <1>2 DEF IInv, RefsCountOwners
<1>6. LockIsOwn'
  BY <1>1, <1>3 DEF IInv, LockIsOwn
<1> QED
  BY <1>4, <1>5, <1>6 DEF IInv

-------------------------------------------------------------------------------
(* What edits make of a sequence, element by element                         *)

\* What the segments that operations copy are made of, element by element.
LEMMA PrefixElements ==
    ASSUME NEW s \in Seq(Value), NEW i \in 0..Len(s)
    PROVE  \A k \in 1..i : Prefix(s, i)[k] = s[k]
<1>1. Len(s) \in Nat
  BY LenProperties
<1>2. \A k \in 1..i : s[k] \in Value
  BY <1>1, ElementOfSeq
<1>3. \A k \in 1..i - 1 + 1 : SubSeq(s, 1, i)[k] = s[1 + k - 1]
  BY <1>1, <1>2, SubSeqProperties
<1> QED
  BY <1>1, <1>3 DEF Prefix

\* What lies beyond index i begins with the element of index i.
LEMMA RestElements ==
    ASSUME NEW s \in Seq(Value), NEW i \in 0..Len(s)
    PROVE  \A k \in 1..Len(s) - i : Rest(s, i)[k] = s[i + k]
<1>1. Len(s) \in Nat
  BY LenProperties
<1>2. \A k \in i + 1..Len(s) : s[k] \in Value
  BY <1>1, ElementOfSeq
<1>3. \A k \in 1..Len(s) - (i + 1) + 1 : SubSeq(s, i + 1, Len(s))[k] = s[i + 1 + k - 1]
  BY <1>1, <1>2, SubSeqProperties
<1> QED
  BY <1>1, <1>3 DEF Rest

\* A sequence is the function that its elements make up.
LEMMA ElementsMakeUp ==
    ASSUME NEW s \in Seq(Value), NEW n \in Nat, NEW f,
           f = [k \in 1..n |-> f[k]],
           Len(s) = n, \A k \in 1..n : s[k] = f[k]
    PROVE  s = f
<1>1. DOMAIN s = 1..n /\ s = [k \in 1..n |-> s[k]]
  BY LenProperties
<1> QED
  BY <1>1

\* overwrite(): the new elements, and around them the old ones.
LEMMA OverwrittenElements ==
    ASSUME NEW s \in Seq(Value), NEW t \in Seq(Value), NEW i \in 0..Len(s)
    PROVE  Overwritten(s, i, t) = Values!Over(s, i, t)
<1>1. Len(s) \in Nat /\ Len(t) \in Nat
  BY LenProperties
<1>2. PICK n : n = IF i + Len(t) > Len(s) THEN i + Len(t) ELSE Len(s)
  OBVIOUS
<1>3. PICK f : f = [k \in 1..n |-> IF k \in i + 1 .. i + Len(t) THEN t[k - i] ELSE s[k]]
  OBVIOUS
<1>4. Values!Over(s, i, t) = f
  BY <1>2, <1>3 DEF Values!Over
<1>5. /\ Overwritten(s, i, t) \in Seq(Value)
      /\ Len(Overwritten(s, i, t)) = n
  BY <1>1, <1>2, OverwrittenType DEF Larger
<1>6. PICK q, p, r : q = Prefix(s, i) /\ p = q \o t /\ r = Rest(s, i + Len(t))
  OBVIOUS
<1>7. /\ p \in Seq(Value) /\ Len(p) = i + Len(t)
      /\ \A k \in 1..i + Len(t) : p[k] = IF k <= i THEN s[k] ELSE t[k - i]
  <2>1. q \in Seq(Value) /\ Len(q) = i
    BY <1>6, PrefixType
  <2>2. /\ q \o t \in Seq(Value) /\ Len(q \o t) = Len(q) + Len(t)
        /\ \A k \in 1..Len(q) + Len(t) :
              (q \o t)[k] = IF k <= Len(q) THEN q[k] ELSE t[k - Len(q)]
    BY <2>1, ConcatProperties, Zenon
  <2>3. \A k \in 1..i : q[k] = s[k]
    BY <1>6, PrefixElements
  <2> QED
    BY <1>1, <1>6, <2>1, <2>2, <2>3
<1>8. r \in Seq(Value) /\ Len(r) = n - (i + Len(t))
  <2>1. CASE i + Len(t) > Len(s)
    <3>1. i + Len(t) \in Nat /\ i + Len(t) >= Len(s) /\ n = i + Len(t)
      BY <1>1, <1>2, <2>1
    <3>2. r \in Seq(Value) /\ Len(r) = 0
      BY <1>6, <3>1, EmptyRest
    <3> QED
      BY <1>1, <3>1, <3>2
  <2>2. CASE i + Len(t) <= Len(s)
    BY <1>1, <1>2, <1>6, <2>2, RestType, SMTT(30)
  <2> QED
    BY <1>1, <2>1, <2>2
<1>9. \A k \in 1..n - (i + Len(t)) : r[k] = s[i + Len(t) + k]
  <2>1. CASE i + Len(t) > Len(s)
    BY <1>1, <1>2, <2>1
  <2>2. CASE i + Len(t) <= Len(s)
    BY <1>1, <1>2, <1>6, <2>2, RestElements
  <2> QED
    BY <1>1, <2>1, <2>2
<1>10. \A k \in 1..n : Overwritten(s, i, t)[k] = IF k <= i + Len(t) THEN p[k] ELSE r[k - (i + Len(t))]
  <2>1. /\ Overwritten(s, i, t) = p \o r
        /\ \A k \in 1..Len(p) + Len(r) :
              (p \o r)[k] = IF k <= Len(p) THEN p[k] ELSE r[k - Len(p)]
    BY <1>6, <1>7, <1>8, ConcatProperties DEF Overwritten
  <2>2. Len(p) + Len(r) = n /\ Len(p) = i + Len(t)
    <3>1. Len(p) = i + Len(t) /\ Len(r) = n - (i + Len(t))
      BY <1>7, <1>8, Zenon
    <3>2. i \in Nat /\ n \in Nat /\ Len(t) \in Nat
      BY <1>1, <1>2
    <3> QED
      BY <3>1, <3>2
  <2> QED
    BY <2>1, <2>2
<1>11. ASSUME NEW k \in 1..n PROVE Overwritten(s, i, t)[k] = f[k]
  BY <1>1, <1>2, <1>3, <1>7, <1>9, <1>10
<1>12. n \in Nat /\ f = [k \in 1..n |-> f[k]]
  BY <1>1, <1>2, <1>3
<1> QED
  BY <1>4, <1>5, <1>11, <1>12, ElementsMakeUp

\* insert(): the new elements between the old ones.
LEMMA InsertedElements ==
    ASSUME NEW s \in Seq(Value), NEW t \in Seq(Value), NEW i \in 0..Len(s)
    PROVE  Inserted(s, i, t) = Values!With(s, i, t)
<1>1. Len(s) \in Nat /\ Len(t) \in Nat
  BY LenProperties
<1>2. PICK n : n = Len(s) + Len(t)
  OBVIOUS
<1>3. PICK f : f = [k \in 1..n |->
         IF k <= i THEN s[k] ELSE IF k <= i + Len(t) THEN t[k - i] ELSE s[k - Len(t)]]
  OBVIOUS
<1>4. Values!With(s, i, t) = f
  BY <1>2, <1>3 DEF Values!With
<1>5. Inserted(s, i, t) \in Seq(Value) /\ Len(Inserted(s, i, t)) = n
  BY <1>1, <1>2, InsertedType
<1>6. PICK q, p, r : q = Prefix(s, i) /\ p = q \o t /\ r = Rest(s, i)
  OBVIOUS
<1>7. /\ p \in Seq(Value) /\ Len(p) = i + Len(t)
      /\ \A k \in 1..i + Len(t) : p[k] = IF k <= i THEN s[k] ELSE t[k - i]
  <2>1. q \in Seq(Value) /\ Len(q) = i
    BY <1>6, PrefixType
  <2>2. /\ q \o t \in Seq(Value) /\ Len(q \o t) = Len(q) + Len(t)
        /\ \A k \in 1..Len(q) + Len(t) :
              (q \o t)[k] = IF k <= Len(q) THEN q[k] ELSE t[k - Len(q)]
    BY <2>1, ConcatProperties, Zenon
  <2>3. \A k \in 1..i : q[k] = s[k]
    BY <1>6, PrefixElements
  <2> QED
    BY <1>1, <1>6, <2>1, <2>2, <2>3
<1>8. /\ r \in Seq(Value) /\ Len(r) = Len(s) - i
      /\ \A k \in 1..Len(s) - i : r[k] = s[i + k]
  BY <1>6, RestType, RestElements
<1>9. \A k \in 1..n : Inserted(s, i, t)[k] = IF k <= i + Len(t) THEN p[k] ELSE r[k - (i + Len(t))]
  <2>1. /\ Inserted(s, i, t) = p \o r
        /\ \A k \in 1..Len(p) + Len(r) :
              (p \o r)[k] = IF k <= Len(p) THEN p[k] ELSE r[k - Len(p)]
    BY <1>6, <1>7, <1>8, ConcatProperties, SMTT(30) DEF Inserted
  <2>2. Len(p) + Len(r) = n /\ Len(p) = i + Len(t)
    BY <1>1, <1>2, <1>7, <1>8
  <2> QED
    BY <2>1, <2>2
<1>10. ASSUME NEW k \in 1..n PROVE Inserted(s, i, t)[k] = f[k]
  <2>1. CASE k <= i + Len(t)
    <3>1. Inserted(s, i, t)[k] = IF k <= i THEN s[k] ELSE t[k - i]
      BY <1>1, <1>2, <1>7, <1>9, <2>1
    <3> QED
      BY <1>1, <1>2, <1>3, <2>1, <3>1
  <2>2. CASE k > i + Len(t)
    <3>1. PICK j : j = k - (i + Len(t))
      OBVIOUS
    <3>2. j \in 1..Len(s) - i /\ i + j = k - Len(t)
      BY <1>1, <1>2, <2>2, <3>1
    <3>3. Inserted(s, i, t)[k] = r[j] /\ r[j] = s[k - Len(t)]
      <4>1. k \in 1..n /\ ~(k <= i + Len(t))
        BY <1>1, <1>2, <2>2
      <4>2. Inserted(s, i, t)[k] = r[j]
        BY <1>9, <3>1, <4>1, Zenon
      <4>3. r[j] = s[i + j]
        BY <1>8, <3>2, Zenon
      <4> QED
        BY <3>2, <4>2, <4>3, Zenon
    <3>4. ~(k <= i) /\ ~(k <= i + Len(t))
      BY <1>1, <1>2, <2>2
    <3> QED
      BY <1>3, <3>3, <3>4
  <2> QED
    BY <1>1, <1>2, <2>1, <2>2
<1>11. n \in Nat /\ f = [k \in 1..n |-> f[k]]
  BY <1>1, <1>2, <1>3
<1> QED
  BY <1>4, <1>5, <1>10, <1>11, ElementsMakeUp

\* remove(): the old elements without those in between.
LEMMA RemovedElements ==
    ASSUME NEW s \in Seq(Value), NEW i \in 0..Len(s), NEW n \in 0..Len(s) - i
    PROVE  Removed(s, i, n) = Values!Without(s, i, i + n)
<1>1. Len(s) \in Nat /\ i + n \in 0..Len(s)
  BY LenProperties
<1>2. PICK m : m = Len(s) - n
  OBVIOUS
<1>3. PICK f : f = [k \in 1..m |-> IF k <= i THEN s[k] ELSE s[k + n]]
  OBVIOUS
<1>4. Values!Without(s, i, i + n) = f
  <2>1. (i + n) - i = n
    BY <1>1
  <2> QED
    BY <1>2, <1>3, <2>1 DEF Values!Without
<1>5. Removed(s, i, n) \in Seq(Value) /\ Len(Removed(s, i, n)) = m
  BY <1>1, <1>2, RemovedType
<1>6. PICK p, r : p = Prefix(s, i) /\ r = Rest(s, i + n)
  OBVIOUS
<1>7. /\ p \in Seq(Value) /\ Len(p) = i
      /\ \A k \in 1..i : p[k] = s[k]
  BY <1>6, PrefixType, PrefixElements
<1>8. /\ r \in Seq(Value) /\ Len(r) = Len(s) - (i + n)
      /\ \A k \in 1..Len(s) - (i + n) : r[k] = s[i + n + k]
  BY <1>1, <1>6, RestType, RestElements
<1>9. \A k \in 1..m : Removed(s, i, n)[k] = IF k <= i THEN p[k] ELSE r[k - i]
  <2>1. /\ Removed(s, i, n) = p \o r
        /\ \A k \in 1..Len(p) + Len(r) :
              (p \o r)[k] = IF k <= Len(p) THEN p[k] ELSE r[k - Len(p)]
    BY <1>6, <1>7, <1>8, ConcatProperties DEF Removed
  <2>2. Len(p) + Len(r) = m /\ Len(p) = i
    BY <1>1, <1>2, <1>7, <1>8
  <2> QED
    BY <2>1, <2>2
<1>10. ASSUME NEW k \in 1..m PROVE Removed(s, i, n)[k] = f[k]
  <2>1. CASE k <= i
    BY <1>1, <1>2, <1>3, <1>7, <1>9, <2>1
  <2>2. CASE k > i
    <3>1. PICK j : j = k - i
      OBVIOUS
    <3>2. j \in 1..Len(s) - (i + n) /\ i + n + j = k + n
      BY <1>1, <1>2, <2>2, <3>1
    <3>3. Removed(s, i, n)[k] = r[j] /\ r[j] = s[k + n]
      BY <1>1, <1>2, <1>8, <1>9, <2>2, <3>1, <3>2
    <3> QED
      BY <1>1, <1>2, <1>3, <2>2, <3>3
  <2> QED
    BY <1>1, <1>2, <2>1, <2>2
<1>11. m \in Nat /\ f = [k \in 1..m |-> f[k]]
  BY <1>1, <1>2, <1>3
<1> QED
  <2>1. PICK x : x = Removed(s, i, n)
    OBVIOUS
  <2>2. x \in Seq(Value) /\ Len(x) = m /\ \A k \in 1..m : x[k] = f[k]
    BY <1>5, <1>10, <2>1
  <2>3. x = f
    BY <1>11, <2>2, ElementsMakeUp
  <2> QED
    BY <1>4, <2>1, <2>3

-------------------------------------------------------------------------------
(* What every operation does to the sequences that the arrays stand for.     *)

\* A write to the array's own buffer shows in the array.
LEMMA WriteInPlaceShows ==
    ASSUME IInv, NEW h \in Handle, NEW data, ~IsShared(h), WriteInPlace(h, data)
    PROVE  IsObject(h)' /\ Data(h)' = data
<1>1. Elements(h) = elements[h] /\ elements[h] \in Address
  BY SoleOwner
<1>2. elements' = elements /\ heap' = [heap EXCEPT ![elements[h]].data = data]
  BY <1>1 DEF WriteInPlace
<1>3. elements[h] \in DOMAIN heap /\ heap[elements[h]] \in Buffer
  BY <1>1, ObjectFacts DEF Metadata
<1>4. heap'[elements[h]].data = data
  BY <1>2, <1>3 DEF Buffer
<1>5. elements[h] # NoObject
  BY <1>1, PointerAssumption
<1> QED
  BY <1>2, <1>4, <1>5 DEF IsObject, Data, Metadata, Elements

\* replace_buffer(): the array shows what is in the buffer it is given, unless
\* that is the one it gives up.
LEMMA ReplacedShows ==
    ASSUME IInv, NEW h \in Handle, NEW hp, NEW a \in Pointer, a \in DOMAIN hp,
           Elements(h) \in DOMAIN hp,
           a # Elements(h) \/ a = EmptyArray \/ hp[a].refs # 1,
           hp[Elements(h)] \in Buffer,
           heap' = Release(hp, Elements(h)),
           elements' = [elements EXCEPT ![h] = a]
    PROVE  IsObject(h)' /\ Data(h)' = hp[a].data
<1>1. elements'[h] = a /\ a # NoObject
  BY PointerAssumption DEF Pointer, IInv, TypeOK
<1>2. heap'[a].data = hp[a].data
  <2>1. CASE a # Elements(h) \/ a = EmptyArray
    BY <2>1 DEF Release
  <2>2. CASE a = Elements(h) /\ a # EmptyArray /\ hp[a].refs # 1
    <3>1. heap'[a] = [hp[a] EXCEPT !.refs = @ - 1]
      BY <2>2, ReleaseFacts, ZenonT(30)
    <3> QED
      BY <2>2, <3>1 DEF Buffer
  <2> QED
    BY <2>1, <2>2
<1> QED
  BY <1>1, <1>2 DEF IsObject, Data, Metadata, Elements

\* The array shows what was put in its new buffer.
LEMMA ReallocateShows ==
    ASSUME IInv, NEW h \in Handle, NEW capacity, NEW data, Reallocate(h, capacity, data)
    PROVE  IsObject(h)' /\ Data(h)' = data
<1>1. PICK a \in Address \ DOMAIN heap :
         ReplaceBuffer(AllocBuffer(heap, a, capacity, data), h, a)
  BY DEF Reallocate
<1>2. PICK hp : hp = AllocBuffer(heap, a, capacity, data)
  OBVIOUS
<1>3. /\ DOMAIN hp = DOMAIN heap \cup {a}
      /\ hp[a] = [refs |-> 1, capacity |-> capacity, data |-> data]
      /\ \A x \in DOMAIN heap : x # a => hp[x] = heap[x]
  BY <1>2 DEF AllocBuffer
<1>4. Elements(h) \in DOMAIN heap /\ heap[Elements(h)] \in Buffer
  BY ObjectFacts DEF Metadata
<1>5. a # Elements(h) /\ hp[Elements(h)] \in Buffer /\ Elements(h) \in DOMAIN hp
  BY <1>3, <1>4
<1>6. heap' = Release(hp, Elements(h)) /\ elements' = [elements EXCEPT ![h] = a]
  BY <1>1, <1>2 DEF ReplaceBuffer
<1>7. a \in Pointer /\ a \in DOMAIN hp /\ hp[a].data = data
  BY <1>3 DEF Pointer
<1>8. IsObject(h)' /\ Data(h)' = hp[a].data
  BY <1>5, <1>6, <1>7, ReplacedShows
<1> QED
  BY <1>7, <1>8

\* An array that points at the static buffer is empty.
LEMMA LosingShows ==
    ASSUME IInv, NEW h \in Handle, ReplaceBuffer(heap, h, EmptyArray)
    PROVE  IsObject(h)' /\ Data(h)' = << >>
<1>1. EmptyArray \in DOMAIN heap /\ heap[EmptyArray] = EmptyArrayMetadata /\ EmptyArray \in Pointer
  BY HeapFacts DEF Pointer
<1>2. Elements(h) \in DOMAIN heap /\ heap[Elements(h)] \in Buffer
  BY ObjectFacts DEF Metadata
<1>3. heap' = Release(heap, Elements(h)) /\ elements' = [elements EXCEPT ![h] = EmptyArray]
  BY DEF ReplaceBuffer
<1>4. IsObject(h)' /\ Data(h)' = heap[EmptyArray].data
  BY <1>1, <1>2, <1>3, ReplacedShows
<1> QED
  BY <1>1, <1>4 DEF EmptyArrayMetadata

\* An array that shares the buffer of another shows the same.
LEMMA ShareShows ==
    ASSUME IInv, NEW h \in Handle, NEW g \in Handle, IsObject(g), ~IsLocked(g),
           ReplaceBuffer(AddRef(heap, elements[g]), h, elements[g])
    PROVE  IsObject(h)' /\ Data(h)' = Data(g)
<1>1. PICK new, hp : new = elements[g] /\ hp = AddRef(heap, new)
  OBVIOUS
<1>2. /\ heap' = Release(hp, Elements(h))
      /\ elements' = [elements EXCEPT ![h] = new]
  BY <1>1 DEF ReplaceBuffer
<1>3. /\ Elements(g) = new /\ new \in DOMAIN heap /\ new \in Pointer
      /\ heap[new] \in Buffer /\ heap[new].refs > 0 /\ heap[new].refs \in Int
      /\ Data(g) = heap[new].data
  BY <1>1, ObjectFacts DEF Elements, Metadata, Data, IsLocked, Buffer
<1>4. Elements(h) \in DOMAIN heap /\ heap[Elements(h)] \in Buffer
  BY ObjectFacts DEF Metadata
<1>5. CASE new = EmptyArray
  <2>1. hp = heap
    BY <1>1, <1>5 DEF AddRef
  <2>2. IsObject(h)' /\ Data(h)' = hp[new].data
    BY <1>2, <1>3, <1>4, <1>5, <2>1, ReplacedShows
  <2> QED
    BY <1>3, <2>1, <2>2
<1>6. CASE new # EmptyArray
  <2>1. hp = [heap EXCEPT ![new].refs = @ + 1]
    BY <1>1, <1>6 DEF AddRef
  <2>2. /\ DOMAIN hp = DOMAIN heap
        /\ hp[new] = [heap[new] EXCEPT !.refs = @ + 1]
        /\ \A x \in DOMAIN heap : x # new => hp[x] = heap[x]
    BY <1>3, <2>1
  <2>3. hp[new].refs # 1 /\ hp[new].data = heap[new].data /\ hp[new] \in Buffer
    BY <1>3, <2>2 DEF Buffer
  <2>4. hp[Elements(h)] \in Buffer /\ Elements(h) \in DOMAIN hp /\ new \in DOMAIN hp
    BY <1>3, <1>4, <2>2, <2>3
  <2>5. new \in Pointer /\ hp[new].refs # 1
    BY <1>3, <2>3
  <2>6. IsObject(h)' /\ Data(h)' = hp[new].data
    BY <1>2, <2>4, <2>5, ReplacedShows
  <2> QED
    BY <1>3, <2>3, <2>6
<1> QED
  BY <1>5, <1>6

\* discard_and_alloc(), and what its caller stores
LEMMA DiscardAndAllocShows ==
    ASSUME IInv, NEW h \in Handle, NEW capacity \in Nat, NEW data \in Seq(Value),
           capacity = 0 => data = << >>,
           DiscardAndAlloc(h, capacity, data)
    PROVE  IsObject(h)' /\ Data(h)' = data
<1>1. CASE \E a \in Address \ DOMAIN Release(heap, Elements(h)) :
              /\ heap' = AllocBuffer(Release(heap, Elements(h)), a, capacity, data)
              /\ elements' = [elements EXCEPT ![h] = a]
  <2>1. PICK a \in Address \ DOMAIN Release(heap, Elements(h)) :
           /\ heap' = AllocBuffer(Release(heap, Elements(h)), a, capacity, data)
           /\ elements' = [elements EXCEPT ![h] = a]
    BY <1>1
  <2>2. heap'[a].data = data
    BY <2>1 DEF AllocBuffer
  <2>3. elements'[h] = a /\ a # NoObject
    BY <2>1, PointerAssumption DEF IInv, TypeOK
  <2> QED
    BY <2>2, <2>3 DEF IsObject, Data, Metadata, Elements
<1>2. CASE capacity = 0 /\ ReplaceBuffer(heap, h, EmptyArray)
  BY <1>2, LosingShows
<1>3. CASE ~IsShared(h) /\ WriteInPlace(h, data)
  BY <1>3, WriteInPlaceShows
<1> QED
  BY <1>1, <1>2, <1>3 DEF DiscardAndAlloc

\* empty() leaves no elements.
LEMMA EmptyShows ==
    ASSUME IInv, NEW h \in Handle, Empty(h)
    PROVE  IsObject(h)' /\ Data(h)' = << >>
BY WriteInPlaceShows, LosingShows DEF Empty

\* assign() from memory outside the array leaves what was there.
LEMMA AssignSequenceShows ==
    ASSUME IInv, NEW h \in Handle, NEW s \in Seq(Value), AssignSequence(h, s)
    PROVE  IsObject(h)' /\ Data(h)' = s
<1>1. CASE s = << >> /\ Empty(h)
  BY <1>1, EmptyShows
<1>2. CASE ~IsShared(h) /\ WriteInPlace(h, s)
  BY <1>2, WriteInPlaceShows
<1>3. CASE DiscardAndAlloc(h, ExtraCapacity(Len(s)), s)
  <2>1. Len(s) \in Nat
    BY LenProperties
  <2>2. ExtraCapacity(Len(s)) \in Nat /\ ExtraCapacity(Len(s)) # 0
    BY <2>1, ExtraCapacityIsMore
  <2> QED
    BY <1>3, <2>2, DiscardAndAllocShows
<1> QED
  BY <1>1, <1>2, <1>3 DEF AssignSequence

\* An array that another is assigned to shows what that one shows.
LEMMA AssignArrayShows ==
    ASSUME IInv, NEW h \in Handle, NEW g \in Handle, IsObject(g), AssignArray(h, g)
    PROVE  IsObject(h)' /\ Data(h)' = Data(g)
<1>1. CASE /\ ~IsLocked(h) /\ ~IsLocked(g)
           /\ ReplaceBuffer(AddRef(heap, elements[g]), h, elements[g])
  BY <1>1, ShareShows
<1>2. CASE AssignSequence(h, Data(g))
  BY <1>2, ObjectFacts, AssignSequenceShows
<1> QED
  BY <1>1, <1>2 DEF AssignArray

\* isolate() and a write show what was written.
LEMMA IsolateAndWriteShows ==
    ASSUME IInv, NEW h \in Handle, NEW data, IsolateAndWrite(h, data)
    PROVE  IsObject(h)' /\ Data(h)' = data
BY ReallocateShows, WriteInPlaceShows DEF IsolateAndWrite

-------------------------------------------------------------------------------
(* Every operation does to the sequences what its counterpart in ArrayValues  *)
(* does.                                                                     *)

\* How long the sequences may be that the array objects stand for
Short    == \A h \in Handle : Length(h) <= MaxLength
VInv     == IInv /\ Short

\* An operation has given the array h the elements s and has touched no other.
Turns(h, s) ==
    IInv' /\ OthersUnchanged(h) /\ IsObject(h)' /\ Data(h)' = s /\ Len(s) <= MaxLength

\* An object stands for what is in its buffer; the absence of one is no sequence.
LEMMA ContentsFacts ==
    ASSUME IInv, NEW h \in Handle
    PROVE  /\ Contents[h] # NoObject <=> IsObject(h)
           /\ IsObject(h) => Contents[h] = Data(h)
           /\ ~IsObject(h) => Contents[h] = NoObject /\ Data(h) = << >>
<1>1. Data(h) \in Seq(Value)
  BY ObjectFacts
<1>2. Contents[h] = IF IsObject(h) THEN Data(h) ELSE NoObject
  BY DEF Contents
<1>3. ~IsObject(h) => Data(h) = << >>
  BY HeapFacts DEF Data, Metadata, Elements, EmptyArrayMetadata
<1> QED
  BY <1>1, <1>2, <1>3, NoObjectAssumption

\* What no operation but the one on h can change.
LEMMA OthersKeep ==
    ASSUME IInv, NEW h \in Handle, OthersUnchanged(h), NEW g \in Handle, g # h
    PROVE  Contents'[g] = Contents[g] /\ Length(g)' = Length(g)
<1>1. elements'[g] = elements[g] /\ Data(g)' = Data(g)
  BY DEF OthersUnchanged
<1>2. IsObject(g)' <=> IsObject(g)
  BY <1>1 DEF IsObject
<1>3. Length(g)' = Length(g)
  BY <1>1 DEF Length, Data
<1>4. Contents'[g] = IF IsObject(g)' THEN Data(g)' ELSE NoObject
  BY DEF Contents
<1>5. Contents[g] = IF IsObject(g) THEN Data(g) ELSE NoObject
  BY DEF Contents
<1> QED
  BY <1>1, <1>2, <1>3, <1>4, <1>5

\* Only what the array h stands for changes, and it stays within the bound.
LEMMA Turning ==
    ASSUME VInv, NEW h \in Handle, NEW s, Turns(h, s)
    PROVE  /\ VInv'
           /\ Contents' = [Contents EXCEPT ![h] = s]
           /\ Values!Becomes(h, s)
           /\ Values!OthersKeepTheirs(h)
<1>1. \A g \in Handle : g # h => Contents'[g] = Contents[g] /\ Length(g)' = Length(g)
  BY OthersKeep DEF VInv, Turns
<1>2. Contents'[h] = s
  BY DEF Turns, Contents
<1>3. Contents' = [Contents EXCEPT ![h] = s]
  <2>1. Contents' = [g \in Handle |-> Contents'[g]] /\ Contents = [g \in Handle |-> Contents[g]]
    BY DEF Contents
  <2> QED
    BY <1>1, <1>2, <2>1
<1>4. Length(h)' <= MaxLength
  BY DEF Turns, Length, Data
<1>5. VInv'
  BY <1>1, <1>4 DEF VInv, Short, Turns
<1>6. Values!Becomes(h, s)
  BY <1>3 DEF Values!Becomes, Contents, Turns
<1>7. Values!OthersKeepTheirs(h)
  BY <1>1 DEF Values!OthersKeepTheirs, Contents
<1> QED
  BY <1>3, <1>5, <1>6, <1>7

\* What the array h stands for is not touched either.
LEMMA NotTurning ==
    ASSUME VInv, NEW h \in Handle, IsObject(h), Turns(h, Data(h))
    PROVE  VInv' /\ UNCHANGED Contents
<1>1. VInv' /\ Contents' = [Contents EXCEPT ![h] = Data(h)]
  BY Turning
<1>2. Contents[h] = Data(h) /\ Contents = [g \in Handle |-> Contents[g]]
  BY ContentsFacts DEF VInv, Contents
<1> QED
  BY <1>1, <1>2

\* Sequences within the bound are operands of ArrayValues.
LEMMA IsSource ==
    ASSUME NEW s \in Seq(Value), Len(s) <= MaxLength
    PROVE  s \in Values!Source
<1>1. Len(s) \in 0..MaxLength
  BY LenProperties
<1>2. s \in [1..Len(s) -> Value]
  BY LenProperties
<1> QED
  BY <1>1, <1>2 DEF Values!Source

\* What is copied from outside is within the bound.
LEMMA SourceIsShort ==
    ASSUME NEW s \in Source
    PROVE  s \in Seq(Value) /\ Len(s) \in 1..MaxLength
<1>1. PICK n \in 1..MaxLength : s \in [1..n -> Value]
  BY DEF Source
<1>2. n \in Nat /\ s \in Seq(Value)
  BY <1>1, BoundAssumption, SourceType
<1>3. Len(s) = n
  BY <1>1, <1>2, LenProperties
<1> QED
  BY <1>1, <1>2, <1>3

\* A new array object is empty.
LEMMA ConstructTurns ==
    ASSUME IInv, NEW h \in Handle, Construct(h)
    PROVE  Turns(h, << >>)
<1>1. Elements(h) = EmptyArray /\ ~IsLocked(h)
  BY NoBufferNoLock, PointerAssumption DEF Construct, IsObject
<1>2. heap' = Release(heap, Elements(h))
  BY <1>1 DEF Construct, Release
<1>3. IInv' /\ OthersUnchanged(h)
  BY <1>1, <1>2, LosingBuffer DEF Construct
<1>4. ReplaceBuffer(heap, h, EmptyArray)
  BY <1>1, <1>2 DEF Construct, ReplaceBuffer
<1>5. IsObject(h)' /\ Data(h)' = << >>
  BY <1>4, LosingShows
<1>6. Len(<< >>) <= MaxLength
  BY BoundAssumption
<1> QED
  BY <1>3, <1>5, <1>6 DEF Turns

\* The destructor takes the object away and nothing else.
LEMMA DestroyImplements ==
    ASSUME VInv, NEW h \in Handle, Destroy(h)
    PROVE  VInv' /\ Values!Destroy(h) /\ Values!OthersKeepTheirs(h)
<1>1. heap' = Release(heap, Elements(h))
  BY DEF Destroy, Elements
<1>2. IInv' /\ OthersUnchanged(h)
  BY <1>1, LosingBuffer DEF Destroy, VInv
<1>3. elements'[h] = NoObject
  BY DEF Destroy, VInv, IInv, TypeOK
<1>4. Contents'[h] = NoObject /\ Length(h)' <= MaxLength
  <2>1. Contents'[h] = NoObject
    BY <1>3 DEF Contents, IsObject
  <2>2. Data(h)' = << >>
    BY <1>2, <1>3 DEF Data, Metadata, Elements, IsObject, EmptyArrayMetadata, IInv, EmptyArrayIntact
  <2> QED
    BY <2>1, <2>2, BoundAssumption DEF Length, Data
<1>5. \A g \in Handle : g # h => Contents'[g] = Contents[g] /\ Length(g)' = Length(g)
  BY <1>2, OthersKeep DEF VInv
<1>6. VInv'
  BY <1>2, <1>4, <1>5 DEF VInv, Short
<1>7. Contents' = [Contents EXCEPT ![h] = NoObject]
  <2>1. Contents' = [g \in Handle |-> Contents'[g]] /\ Contents = [g \in Handle |-> Contents[g]]
    BY DEF Contents
  <2> QED
    BY <1>4, <1>5, <2>1
<1>8. Contents[h] # NoObject
  BY ContentsFacts DEF VInv, Destroy
<1>9. Values!Destroy(h)
  BY <1>7, <1>8 DEF Values!Destroy, Values!IsObject, Contents
<1>10. Values!OthersKeepTheirs(h)
  BY <1>5 DEF Values!OthersKeepTheirs, Contents
<1> QED
  BY <1>6, <1>9, <1>10

\* empty()
LEMMA EmptyTurns ==
    ASSUME IInv, NEW h \in Handle, Empty(h), UNCHANGED locks
    PROVE  Turns(h, << >>)
BY EmptyKeeps, EmptyShows, BoundAssumption DEF Turns

\* assign() from memory outside the array
LEMMA AssignSequenceTurns ==
    ASSUME IInv, NEW h \in Handle, NEW s \in Seq(Value), Len(s) <= MaxLength,
           AssignSequence(h, s), UNCHANGED locks
    PROVE  Turns(h, s)
BY AssignSequenceKeeps, AssignSequenceShows DEF Turns

\* assign() from another array
LEMMA AssignArrayTurns ==
    ASSUME VInv, NEW h \in Handle, NEW g \in Handle, IsObject(g), AssignArray(h, g), UNCHANGED locks
    PROVE  Turns(h, Data(g))
<1>1. Len(Data(g)) <= MaxLength
  BY DEF VInv, Short, Length, Data
<1> QED
  BY <1>1, AssignArrayKeeps, AssignArrayShows DEF Turns, VInv

\* reserve() leaves no elements, but room for them.
LEMMA ReserveTurns ==
    ASSUME IInv, NEW h \in Handle, NEW n \in Nat, Reserve(h, n)
    PROVE  Turns(h, << >>)
<1>1. << >> \in Seq(Value) /\ Len(<< >>) <= n /\ Len(<< >>) <= MaxLength
  BY BoundAssumption
<1>2. IInv' /\ OthersUnchanged(h)
  BY <1>1, DiscardAndAllocKeeps DEF Reserve
<1>3. IsObject(h)' /\ Data(h)' = << >>
  BY <1>1, DiscardAndAllocShows DEF Reserve
<1> QED
  BY <1>1, <1>2, <1>3 DEF Turns

\* lock() may move the elements to a buffer of the array's own.
LEMMA LockTurns ==
    ASSUME VInv, NEW h \in Handle, Lock(h)
    PROVE  Turns(h, Data(h))
<1>1. IInv' /\ OthersUnchanged(h)
  BY LockKeeps DEF VInv
<1>2. Len(Data(h)) <= MaxLength
  BY DEF VInv, Short, Length, Data
<1>3. CASE ~IsShared(h)
  <2>1. Elements(h) = elements[h] /\ elements[h] # NoObject
    BY <1>3, SoleOwner, PointerAssumption DEF VInv
  <2>2. elements' = elements /\ heap' = [heap EXCEPT ![elements[h]].refs = @ - 1]
    BY <1>3, <2>1 DEF Lock
  <2>3. elements[h] \in DOMAIN heap /\ heap[elements[h]] \in Buffer
    BY <2>1, ObjectFacts DEF Metadata, VInv
  <2>4. heap'[elements[h]].data = heap[elements[h]].data
    BY <2>2, <2>3 DEF Buffer
  <2>5. IsObject(h)' /\ Data(h)' = Data(h)
    BY <2>1, <2>2, <2>4 DEF IsObject, Data, Metadata, Elements
  <2> QED
    BY <1>1, <1>2, <2>5 DEF Turns
<1>4. CASE IsShared(h)
  <2>1. PICK a \in Address \ DOMAIN heap :
           ReplaceBuffer([AllocBuffer(heap, a, ExtraCapacity(Length(h)), Data(h)) EXCEPT ![a].refs = @ - 1], h, a)
    BY <1>4 DEF Lock
  <2>2. PICK copied : copied = AllocBuffer(heap, a, ExtraCapacity(Length(h)), Data(h))
    OBVIOUS
  <2>3. /\ DOMAIN copied = DOMAIN heap \cup {a}
        /\ copied[a] = [refs |-> 1, capacity |-> ExtraCapacity(Length(h)), data |-> Data(h)]
        /\ \A x \in DOMAIN heap : x # a => copied[x] = heap[x]
    BY <2>2 DEF AllocBuffer
  <2>4. PICK hp : hp = [copied EXCEPT ![a].refs = @ - 1]
    OBVIOUS
  <2>5. /\ DOMAIN hp = DOMAIN heap \cup {a}
        /\ hp[a].data = Data(h)
        /\ \A x \in DOMAIN heap : x # a => hp[x] = heap[x]
    BY <2>3, <2>4
  <2>6. Elements(h) \in DOMAIN heap /\ heap[Elements(h)] \in Buffer
    BY ObjectFacts DEF Metadata, VInv
  <2>7. a # Elements(h) /\ hp[Elements(h)] \in Buffer /\ Elements(h) \in DOMAIN hp /\ a \in DOMAIN hp
    BY <2>5, <2>6
  <2>8. heap' = Release(hp, Elements(h)) /\ elements' = [elements EXCEPT ![h] = a]
    BY <2>1, <2>2, <2>4 DEF ReplaceBuffer
  <2>9. a \in Pointer /\ IInv
    BY DEF Pointer, VInv
  <2>10. IsObject(h)' /\ Data(h)' = hp[a].data
    BY <2>7, <2>8, <2>9, ReplacedShows
  <2> QED
    BY <1>1, <1>2, <2>5, <2>10 DEF Turns
<1> QED
  BY <1>3, <1>4

\* unlock() does not touch the elements.
LEMMA UnlockTurns ==
    ASSUME VInv, NEW h \in Handle, Unlock(h)
    PROVE  Turns(h, Data(h))
<1>1. IInv' /\ OthersUnchanged(h)
  BY UnlockKeeps DEF VInv
<1>2. Len(Data(h)) <= MaxLength
  BY DEF VInv, Short, Length, Data
<1>3. IsObject(h) /\ Elements(h) = elements[h]
  BY DEF Unlock, Elements
<1>4. elements' = elements /\ heap' = [heap EXCEPT ![elements[h]].refs = @ + 1]
  BY <1>3 DEF Unlock
<1>5. elements[h] \in DOMAIN heap /\ heap[elements[h]] \in Buffer
  BY <1>3, ObjectFacts DEF Metadata, VInv
<1>6. heap'[elements[h]].data = heap[elements[h]].data
  BY <1>4, <1>5 DEF Buffer
<1>7. IsObject(h)' /\ Data(h)' = Data(h)
  BY <1>3, <1>4, <1>6 DEF IsObject, Data, Metadata, Elements
<1> QED
  BY <1>1, <1>2, <1>7 DEF Turns

\* The value that ArrayValues is about
LEMMA ValueOf ==
    ASSUME VInv, NEW h \in Handle
    PROVE  /\ Values!IsObject(h) <=> IsObject(h)
           /\ IsObject(h) => Contents[h] = Data(h)
           /\ Data(h) \in Seq(Value) /\ Len(Data(h)) \in Nat /\ Len(Data(h)) <= MaxLength
           /\ Length(h) = Len(Data(h))
<1>1. IInv /\ Length(h) = Len(Data(h)) /\ Length(h) <= MaxLength
  BY DEF VInv, Short, Length, Data
<1>2. Contents[h] # NoObject <=> IsObject(h)
  BY <1>1, ContentsFacts
<1>3. Values!IsObject(h) <=> Contents[h] # NoObject
  BY DEF Values!IsObject, Contents
<1> QED
  BY <1>1, <1>2, <1>3, ContentsFacts, ObjectFacts

\* overwrite(), whichever buffer it writes to
LEMMA OverwriteImplements ==
    ASSUME VInv, NEW h \in Handle, NEW i \in Nat, NEW s \in Seq(Value), Overwrite(h, i, s)
    PROVE  VInv' /\ Values!Overwrite(h, i, s) /\ Values!OthersKeepTheirs(h)
<1>1. PICK d, result : d = Data(h) /\ result = Overwritten(d, i, s)
  OBVIOUS
<1>2. /\ IInv /\ IsObject(h) /\ d \in Seq(Value) /\ Len(d) \in Nat /\ Len(s) \in Nat
      /\ i \in 0..Len(d) /\ Len(d) <= MaxLength /\ i + Len(s) <= MaxLength
      /\ Contents[h] = d /\ Values!IsObject(h)
  BY <1>1, ValueOf, LenProperties DEF Overwrite, VInv
<1>3. Len(result) <= MaxLength
  BY <1>1, <1>2, OverwrittenType, BoundAssumption DEF Larger
<1>4. IsObject(h)' /\ Data(h)' = result
  BY <1>1, <1>2, ReallocateShows, WriteInPlaceShows DEF Overwrite
<1>5. IInv' /\ OthersUnchanged(h)
  BY <1>2, OverwriteKeeps
<1>6. Turns(h, result)
  BY <1>3, <1>4, <1>5 DEF Turns
<1>7. VInv' /\ Values!Becomes(h, result) /\ Values!OthersKeepTheirs(h)
  BY <1>6, Turning
<1>8. result = Values!Over(Contents[h], i, s) /\ i <= Len(Contents[h])
  BY <1>1, <1>2, OverwrittenElements
<1>9. Values!Overwrite(h, i, s)
  BY <1>2, <1>7, <1>8 DEF Values!Overwrite, Contents
<1> QED
  BY <1>7, <1>9

\* insert()
LEMMA InsertImplements ==
    ASSUME VInv, NEW h \in Handle, NEW i \in Nat, NEW s \in Seq(Value), Insert(h, i, s)
    PROVE  VInv' /\ Values!Insert(h, i, s) /\ Values!OthersKeepTheirs(h)
<1>1. PICK d, result : d = Data(h) /\ result = Inserted(d, i, s)
  OBVIOUS
<1>2. /\ IInv /\ IsObject(h) /\ d \in Seq(Value) /\ Len(d) \in Nat /\ Len(s) \in Nat
      /\ i \in 0..Len(d) /\ Len(d) + Len(s) <= MaxLength
      /\ Contents[h] = d /\ Values!IsObject(h)
  BY <1>1, ValueOf, LenProperties DEF Insert, VInv
<1>3. Len(result) <= MaxLength
  BY <1>1, <1>2, InsertedType
<1>4. IsObject(h)' /\ Data(h)' = result
  BY <1>1, <1>2, ReallocateShows, WriteInPlaceShows DEF Insert
<1>5. IInv' /\ OthersUnchanged(h)
  BY <1>2, InsertKeeps
<1>6. Turns(h, result)
  BY <1>3, <1>4, <1>5 DEF Turns
<1>7. VInv' /\ Values!Becomes(h, result) /\ Values!OthersKeepTheirs(h)
  BY <1>6, Turning
<1>8. result = Values!With(Contents[h], i, s) /\ i <= Len(Contents[h])
  BY <1>1, <1>2, InsertedElements
<1>9. Values!Insert(h, i, s)
  BY <1>2, <1>7, <1>8 DEF Values!Insert, Contents
<1> QED
  BY <1>7, <1>9

\* Putting a sequence at the end of another
LEMMA AppendedElements ==
    ASSUME NEW s \in Seq(Value), NEW t \in Seq(Value)
    PROVE  s \o t = Values!With(s, Len(s), t) /\ Len(s \o t) = Len(s) + Len(t)
<1>1. Len(s) \in Nat /\ Len(t) \in Nat
  BY LenProperties
<1>2. PICK n, f : /\ n = Len(s) + Len(t)
                  /\ f = [k \in 1..n |->
                            IF k <= Len(s) THEN s[k]
                            ELSE IF k <= Len(s) + Len(t) THEN t[k - Len(s)] ELSE s[k - Len(t)]]
  OBVIOUS
<1>3. Values!With(s, Len(s), t) = f
  BY <1>2 DEF Values!With
<1>4. PICK x : x = s \o t
  OBVIOUS
<1>5. /\ x \in Seq(Value) /\ Len(x) = n
      /\ \A k \in 1..n : x[k] = IF k <= Len(s) THEN s[k] ELSE t[k - Len(s)]
  BY <1>1, <1>2, <1>4, ConcatProperties
<1>6. \A k \in 1..n : x[k] = f[k]
  BY <1>1, <1>2, <1>5
<1>7. n \in Nat /\ f = [k \in 1..n |-> f[k]]
  BY <1>1, <1>2
<1>8. x = f
  BY <1>5, <1>6, <1>7, ElementsMakeUp
<1> QED
  BY <1>2, <1>3, <1>4, <1>5, <1>8

\* append() is insert() at the end.
LEMMA ExtendImplements ==
    ASSUME VInv, NEW h \in Handle, NEW s \in Seq(Value), Extend(h, s)
    PROVE  VInv' /\ Values!Insert(h, Length(h), s) /\ Values!OthersKeepTheirs(h)
<1>1. PICK d, result : d = Data(h) /\ result = d \o s
  OBVIOUS
<1>2. /\ IInv /\ IsObject(h) /\ d \in Seq(Value) /\ Len(d) \in Nat /\ Length(h) = Len(d)
      /\ Len(d) + Len(s) <= MaxLength
      /\ Contents[h] = d /\ Values!IsObject(h)
  BY <1>1, ValueOf DEF Extend, VInv
<1>3. Len(result) <= MaxLength /\ result = Values!With(Contents[h], Len(d), s)
  BY <1>1, <1>2, AppendedElements
<1>4. IsObject(h)' /\ Data(h)' = result
  BY <1>1, <1>2, ReallocateShows, WriteInPlaceShows DEF Extend
<1>5. IInv' /\ OthersUnchanged(h)
  BY <1>2, ExtendKeeps
<1>6. Turns(h, result)
  BY <1>3, <1>4, <1>5 DEF Turns
<1>7. VInv' /\ Values!Becomes(h, result) /\ Values!OthersKeepTheirs(h)
  BY <1>6, Turning
<1>8. Length(h) <= Len(Contents[h]) /\ Values!Becomes(h, Values!With(Contents[h], Length(h), s))
  BY <1>2, <1>3, <1>7
<1>9. Values!Insert(h, Length(h), s)
  BY <1>2, <1>8 DEF Values!Insert, Contents
<1> QED
  BY <1>7, <1>9

\* operator+, whose result may share the buffer of its first operand
LEMMA ConcatenateImplements ==
    ASSUME VInv, NEW h \in Handle, NEW a \in Handle, NEW b \in Handle, Concatenate(h, a, b)
    PROVE  VInv' /\ Values!Concatenate(h, a, b) /\ Values!OthersKeepTheirs(h)
<1>1. PICK s, t, result : s = Data(a) /\ t = Data(b) /\ result = s \o t
  OBVIOUS
<1>2. /\ IInv /\ ~IsObject(h) /\ IsObject(a) /\ IsObject(b)
      /\ s \in Seq(Value) /\ Len(s) \in Nat /\ Length(a) = Len(s)
      /\ t \in Seq(Value) /\ Len(t) \in Nat /\ Length(b) = Len(t)
      /\ Len(s) + Len(t) <= MaxLength
      /\ Contents[a] = s /\ Contents[b] = t
      /\ ~Values!IsObject(h) /\ Values!IsObject(a) /\ Values!IsObject(b)
  BY <1>1, ValueOf DEF Concatenate, VInv
<1>3. Len(result) <= MaxLength /\ result = Values!With(Contents[a], Len(Contents[a]), Contents[b])
  BY <1>1, <1>2, AppendedElements
<1>4. IsObject(h)' /\ Data(h)' = result
  <2>1. CASE Length(b) = 0 /\ AssignArray(h, a)
    <3>1. t = << >>
      BY <1>2, <2>1, EmptySeq
    <3>2. result = s
      BY <1>1, <1>2, <3>1, ConcatEmptySeq
    <3> QED
      BY <1>1, <1>2, <2>1, <3>2, AssignArrayShows
  <2>2. CASE \E c : Reallocate(h, c, result)
    BY <1>2, <2>2, ReallocateShows
  <2> QED
    BY <1>1, <2>1, <2>2 DEF Concatenate
<1>5. IInv' /\ OthersUnchanged(h)
  BY <1>2, ConcatenateKeeps
<1>6. Turns(h, result)
  BY <1>3, <1>4, <1>5 DEF Turns
<1>7. VInv' /\ Values!Becomes(h, result) /\ Values!OthersKeepTheirs(h)
  BY <1>6, Turning
<1>8. Values!Concatenate(h, a, b)
  BY <1>2, <1>3, <1>7 DEF Values!Concatenate, Contents
<1> QED
  BY <1>7, <1>8

LEMMA RemoveImplements ==
    ASSUME VInv, NEW h \in Handle, NEW i \in Nat, NEW n \in Nat, Remove(h, i, n)
    PROVE  VInv' /\ Values!Remove(h, i, Cut(h, i, n)) /\ Values!OthersKeepTheirs(h)
<1>1. PICK d, count, result :
         /\ d = Data(h)
         /\ count = IF i + n > Length(h) THEN Length(h) - i ELSE n
         /\ result = Removed(d, i, count)
  OBVIOUS
<1>2. /\ IInv /\ IsObject(h) /\ d \in Seq(Value) /\ Len(d) \in Nat /\ Length(h) = Len(d)
      /\ i \in 0..Len(d) /\ Len(d) <= MaxLength
      /\ Contents[h] = d /\ Values!IsObject(h)
  BY <1>1, ValueOf DEF Remove, VInv
<1>3. count \in 0..Len(d) - i /\ i + count = Cut(h, i, n) /\ i + count <= Len(d)
  BY <1>1, <1>2 DEF Cut
<1>4. Len(result) <= MaxLength /\ result = Values!Without(Contents[h], i, i + count)
  <2>1. Len(result) = Len(d) - count
    BY <1>1, <1>2, <1>3, RemovedType
  <2>2. result = Values!Without(d, i, i + count)
    BY <1>1, <1>2, <1>3, RemovedElements
  <2> QED
    BY <1>2, <1>3, <2>1, <2>2, BoundAssumption
<1>5. IsObject(h)' /\ Data(h)' = result
  BY <1>1, <1>2, ReallocateShows, WriteInPlaceShows DEF Remove
<1>6. IInv' /\ OthersUnchanged(h)
  BY <1>2, RemoveKeeps
<1>7. Turns(h, result)
  BY <1>4, <1>5, <1>6 DEF Turns
<1>8. VInv' /\ Values!Becomes(h, result) /\ Values!OthersKeepTheirs(h)
  BY <1>7, Turning
<1>9. /\ i <= Cut(h, i, n) /\ Cut(h, i, n) <= Len(Contents[h])
      /\ result = Values!Without(Contents[h], i, Cut(h, i, n))
  BY <1>2, <1>3, <1>4
<1>10. Values!Remove(h, i, Cut(h, i, n))
  BY <1>2, <1>8, <1>9 DEF Values!Remove, Contents
<1> QED
  BY <1>8, <1>10

\* A write through at() overwrites one element.
LEMMA SetElementImplements ==
    ASSUME VInv, NEW h \in Handle, NEW i \in Nat, NEW v \in Value, SetElement(h, i, v)
    PROVE  VInv' /\ Values!Overwrite(h, i, << v >>) /\ Values!OthersKeepTheirs(h)
<1>1. PICK d, result : d = Data(h) /\ result = [d EXCEPT ![i + 1] = v]
  OBVIOUS
<1>2. /\ IInv /\ IsObject(h) /\ d \in Seq(Value) /\ Len(d) \in Nat
      /\ i < Len(d) /\ Len(d) <= MaxLength
      /\ Contents[h] = d /\ Values!IsObject(h)
  BY <1>1, ValueOf DEF SetElement, VInv
<1>3. result \in Seq(Value) /\ Len(result) = Len(d)
  BY <1>1, <1>2, ExceptSeq
<1>4. IsObject(h)' /\ Data(h)' = result
  BY <1>1, <1>2, IsolateAndWriteShows DEF SetElement
<1>5. IInv' /\ OthersUnchanged(h)
  BY <1>2, SetElementKeeps
<1>6. Turns(h, result)
  BY <1>2, <1>3, <1>4, <1>5 DEF Turns
<1>7. VInv' /\ Values!Becomes(h, result) /\ Values!OthersKeepTheirs(h)
  BY <1>6, Turning
<1>8. result = Values!Over(d, i, << v >>)
  <2>1. PICK t : t = << v >>
    OBVIOUS
  <2>2. Len(t) = 1 /\ t[1] = v
    BY <2>1
  <2>3. PICK n, f : /\ n = IF i + Len(t) > Len(d) THEN i + Len(t) ELSE Len(d)
                    /\ f = [k \in 1..n |-> IF k \in i + 1 .. i + Len(t) THEN t[k - i] ELSE d[k]]
    OBVIOUS
  <2>4. Values!Over(d, i, t) = f
    BY <2>3 DEF Values!Over
  <2>5. n = Len(d)
    BY <1>2, <2>2, <2>3
  <2>6. f = [k \in 1..n |-> f[k]] /\ \A k \in 1..n : f[k] = IF k = i + 1 THEN v ELSE d[k]
    BY <1>2, <2>2, <2>3, <2>5
  <2>7. \A k \in 1..n : result[k] = IF k = i + 1 THEN v ELSE d[k]
    BY <1>1, <1>2, <2>5, LenProperties
  <2>8. result = f
    BY <1>2, <1>3, <2>5, <2>6, <2>7, ElementsMakeUp
  <2> QED
    BY <2>1, <2>4, <2>8
<1>9. Values!Overwrite(h, i, << v >>)
  <2>1. i <= Len(Contents[h]) /\ Values!Becomes(h, Values!Over(Contents[h], i, << v >>))
    BY <1>2, <1>7, <1>8
  <2> QED
    BY <1>2, <2>1 DEF Values!Overwrite, Contents
<1> QED
  BY <1>7, <1>9

\* shuffle() loses no element and makes none up.
LEMMA ShuffleImplements ==
    ASSUME VInv, NEW h \in Handle, Shuffle(h)
    PROVE  VInv' /\ Values!Permute(h) /\ Values!OthersKeepTheirs(h)
<1>1. PICK d, m : d = Data(h) /\ m = Length(h)
  OBVIOUS
<1>2. /\ IInv /\ IsObject(h) /\ d \in Seq(Value) /\ m \in Nat /\ m = Len(d)
      /\ Len(d) <= MaxLength /\ Contents[h] = d /\ Values!IsObject(h)
  BY <1>1, ValueOf DEF Shuffle, VInv
<1>3. PICK p \in [1..m -> 1..m] :
         /\ \A j, k \in 1..m : p[j] = p[k] => j = k
         /\ IsolateAndWrite(h, [k \in 1..m |-> d[p[k]]])
  BY <1>1 DEF Shuffle
<1>4. PICK result : result = [k \in 1..m |-> d[p[k]]]
  OBVIOUS
<1>5. Len(result) <= MaxLength
  <2>1. result \in [1..m -> Value]
    BY <1>2, <1>4, ElementOfSeq
  <2>2. result \in Seq(Value)
    BY <1>2, <2>1
  <2>3. DOMAIN result = 1..m /\ DOMAIN result = 1..Len(result) /\ Len(result) \in Nat
    BY <2>1, <2>2, LenProperties
  <2> QED
    BY <1>2, <2>3
<1>6. IsObject(h)' /\ Data(h)' = result
  BY <1>2, <1>3, <1>4, IsolateAndWriteShows
<1>7. IInv' /\ OthersUnchanged(h)
  BY <1>2, ShuffleKeeps
<1>8. Turns(h, result)
  BY <1>5, <1>6, <1>7 DEF Turns
<1>9. VInv' /\ Values!Becomes(h, result) /\ Values!OthersKeepTheirs(h)
  BY <1>8, Turning
<1>10. DOMAIN Contents[h] = 1..m
  BY <1>2, LenProperties
<1>11. /\ p \in [DOMAIN Contents[h] -> DOMAIN Contents[h]]
       /\ \A j, k \in DOMAIN Contents[h] : p[j] = p[k] => j = k
       /\ Values!Becomes(h, [k \in DOMAIN Contents[h] |-> Contents[h][p[k]]])
  BY <1>2, <1>3, <1>4, <1>9, <1>10
<1>12. Values!Permute(h)
  BY <1>2, <1>11 DEF Values!Permute, Contents
<1> QED
  BY <1>9, <1>12

\* alloc_and_copy() keeps as many elements as there is room for.
LEMMA AllocAndCopyImplements ==
    ASSUME VInv, NEW h \in Handle, NEW n \in Nat, AllocAndCopy(h, n)
    PROVE  /\ VInv' /\ Values!OthersKeepTheirs(h)
           /\ Values!Remove(h, Smaller(Length(h), n), Length(h))
<1>1. PICK d, m, result : d = Data(h) /\ m = Smaller(Length(h), n) /\ result = Prefix(d, m)
  OBVIOUS
<1>2. /\ IInv /\ IsObject(h) /\ d \in Seq(Value) /\ Len(d) \in Nat /\ Length(h) = Len(d)
      /\ Len(d) <= MaxLength /\ Contents[h] = d /\ Values!IsObject(h)
  BY <1>1, ValueOf DEF AllocAndCopy, VInv
<1>3. m \in 0..Len(d) /\ m <= n
  BY <1>1, <1>2 DEF Smaller
<1>4. result \in Seq(Value) /\ Len(result) = m
  BY <1>1, <1>2, <1>3, PrefixType
<1>5. result = Values!Without(d, m, Len(d))
  <2>1. PICK f : f = [k \in 1..m |-> IF k <= m THEN d[k] ELSE d[k + (Len(d) - m)]]
    OBVIOUS
  <2>2. Len(d) - (Len(d) - m) = m
    BY <1>2, <1>3
  <2>3. Values!Without(d, m, Len(d)) = f
    BY <2>1, <2>2 DEF Values!Without
  <2>4. m \in Nat /\ f = [k \in 1..m |-> f[k]] /\ \A k \in 1..m : f[k] = d[k]
    BY <1>3, <2>1
  <2>5. \A k \in 1..m : result[k] = d[k]
    BY <1>1, <1>2, <1>3, PrefixElements
  <2>6. result = f
    BY <1>4, <2>4, <2>5, ElementsMakeUp
  <2> QED
    BY <2>3, <2>6
<1>6. IsObject(h)' /\ Data(h)' = result
  <2>1. CASE Reallocate(h, n, result)
    BY <1>2, <2>1, ReallocateShows
  <2>2. CASE n = 0 /\ ReplaceBuffer(heap, h, EmptyArray)
    <3>1. m = 0
      BY <1>3, <2>2
    <3>2. result = << >>
      BY <1>4, <3>1, EmptySeq
    <3> QED
      BY <1>2, <2>2, <3>2, LosingShows
  <2> QED
    BY <1>1, <2>1, <2>2 DEF AllocAndCopy
<1>7. IInv' /\ OthersUnchanged(h)
  BY <1>2, AllocAndCopyKeeps
<1>8. Turns(h, result)
  BY <1>2, <1>3, <1>4, <1>6, <1>7, BoundAssumption DEF Turns
<1>9. VInv' /\ Values!Becomes(h, result) /\ Values!OthersKeepTheirs(h)
  BY <1>8, Turning
<1>10. m <= Len(d) /\ Len(d) <= Len(Contents[h]) /\ result = Values!Without(Contents[h], m, Len(d))
  BY <1>2, <1>3, <1>5
<1>11. Values!Remove(h, m, Len(d))
  BY <1>2, <1>9, <1>10 DEF Values!Remove, Contents
<1> QED
  BY <1>1, <1>2, <1>9, <1>11

\* Operations that leave nothing, or everything
LEMMA SmallOperationsImplement ==
    ASSUME VInv, NEW h \in Handle
    PROVE  /\ Construct(h) =>
                 /\ ~Values!IsObject(h) /\ Values!Becomes(h, << >>)
                 /\ VInv' /\ Values!OthersKeepTheirs(h)
           /\ Clear(h) => Values!Assign(h, << >>) /\ VInv' /\ Values!OthersKeepTheirs(h)
           /\ \A n \in Index : Reserve(h, n) =>
                 Values!Assign(h, << >>) /\ VInv' /\ Values!OthersKeepTheirs(h)
           /\ TrimToSize(h) \/ Lock(h) \/ Unlock(h) =>
                 UNCHANGED Contents /\ VInv' /\ Values!OthersKeepTheirs(h)
<1>1. IInv /\ Index \subseteq Nat
  BY BoundAssumption DEF VInv, Index
<1>2. ASSUME Construct(h)
      PROVE  ~Values!IsObject(h) /\ Values!Becomes(h, << >>) /\ VInv' /\ Values!OthersKeepTheirs(h)
  <2>1. Turns(h, << >>)
    BY <1>1, <1>2, ConstructTurns
  <2> QED
    BY <1>2, <2>1, Turning, ValueOf DEF Construct
<1>3. ASSUME Clear(h)
      PROVE  Values!Assign(h, << >>) /\ VInv' /\ Values!OthersKeepTheirs(h)
  <2>1. Turns(h, << >>)
    BY <1>1, <1>3, EmptyTurns DEF Clear
  <2> QED
    BY <1>3, <2>1, Turning, ValueOf DEF Clear, Values!Assign
<1>4. ASSUME NEW n \in Index, Reserve(h, n)
      PROVE  Values!Assign(h, << >>) /\ VInv' /\ Values!OthersKeepTheirs(h)
  <2>1. Turns(h, << >>)
    BY <1>1, <1>4, ReserveTurns
  <2> QED
    BY <1>4, <2>1, Turning, ValueOf DEF Reserve, Values!Assign
<1>5. ASSUME Lock(h) \/ Unlock(h)
      PROVE  UNCHANGED Contents /\ VInv' /\ Values!OthersKeepTheirs(h)
  <2>1. Turns(h, Data(h)) /\ IsObject(h)
    BY <1>5, LockTurns, UnlockTurns DEF Lock, Unlock
  <2> QED
    BY <2>1, Turning, NotTurning
<1>6. ASSUME TrimToSize(h)
      PROVE  UNCHANGED Contents /\ VInv' /\ Values!OthersKeepTheirs(h)
  <2>1. IsObject(h) /\ AllocAndCopy(h, Length(h)) /\ Length(h) \in Nat
    BY <1>1, <1>6, ObjectFacts DEF TrimToSize
  <2>2. /\ VInv' /\ Values!OthersKeepTheirs(h)
        /\ Values!Remove(h, Smaller(Length(h), Length(h)), Length(h))
    BY <2>1, AllocAndCopyImplements
  <2>3. Smaller(Length(h), Length(h)) = Length(h)
    BY DEF Smaller
  <2>4. PICK d, m : d = Data(h) /\ m = Length(h)
    OBVIOUS
  <2>5. Contents[h] = d /\ d \in Seq(Value) /\ m = Len(d) /\ m \in Nat
    BY <2>1, <2>4, ValueOf
  <2>6. Contents' = [Contents EXCEPT ![h] = Values!Without(d, m, m)]
    <3>1. Values!Remove(h, m, m)
      BY <2>2, <2>3, <2>4
    <3> QED
      BY <2>5, <3>1 DEF Values!Remove, Values!Becomes, Contents
  <2>7. Values!Without(d, m, m) = d
    <3>1. Len(d) - (m - m) = m
      BY <2>5
    <3>2. PICK f : f = [k \in 1..m |-> IF k <= m THEN d[k] ELSE d[k + (m - m)]]
      OBVIOUS
    <3>3. Values!Without(d, m, m) = f
      BY <3>1, <3>2 DEF Values!Without
    <3>4. f = [k \in 1..m |-> f[k]] /\ \A k \in 1..m : d[k] = f[k]
      BY <2>5, <3>2
    <3> QED
      BY <2>5, <3>3, <3>4, ElementsMakeUp
  <2>8. Contents = [g \in Handle |-> Contents[g]]
    BY DEF Contents
  <2> QED
    BY <2>2, <2>5, <2>6, <2>7, <2>8
<1> QED
  BY <1>2, <1>3, <1>4, <1>5, <1>6

\* Operations that copy
LEMMA AssignmentsImplement ==
    ASSUME VInv, NEW h \in Handle
    PROVE  /\ \A g \in Handle :
                 /\ CopyConstruct(h, g) => ~Values!IsObject(h) /\ Values!Copy(h, g)
                                           /\ VInv' /\ Values!OthersKeepTheirs(h)
                 /\ Assign(h, g) => Values!IsObject(h) /\ Values!Copy(h, g)
                                    /\ VInv' /\ Values!OthersKeepTheirs(h)
           /\ \A s \in Source :
                 /\ ConstructFrom(h, s) => ~Values!IsObject(h) /\ Values!Becomes(h, s)
                                           /\ VInv' /\ Values!OthersKeepTheirs(h)
                 /\ AssignFrom(h, s) => Values!Assign(h, s) /\ VInv' /\ Values!OthersKeepTheirs(h)
<1>1. Values!IsObject(h) <=> IsObject(h)
  BY ValueOf
<1>2. ASSUME NEW g \in Handle, CopyConstruct(h, g) \/ Assign(h, g)
      PROVE  Values!Copy(h, g) /\ VInv' /\ Values!OthersKeepTheirs(h)
  <2>1. IsObject(g) /\ Turns(h, Data(g))
    BY <1>2, AssignArrayTurns DEF CopyConstruct, Assign
  <2>2. Values!Becomes(h, Contents[g]) /\ VInv' /\ Values!OthersKeepTheirs(h)
    BY <2>1, Turning, ValueOf
  <2> QED
    BY <2>1, <2>2, ValueOf DEF Values!Copy, Contents
<1>3. ASSUME NEW s \in Source, ConstructFrom(h, s) \/ AssignFrom(h, s)
      PROVE  Values!Becomes(h, s) /\ VInv' /\ Values!OthersKeepTheirs(h)
  <2>1. s \in Seq(Value) /\ Len(s) <= MaxLength /\ IInv
    BY SourceIsShort DEF VInv
  <2>2. Turns(h, s)
    BY <1>3, <2>1, AssignSequenceTurns DEF ConstructFrom, AssignFrom
  <2> QED
    BY <2>2, Turning
<1> QED
  BY <1>1, <1>2, <1>3 DEF CopyConstruct, Assign, ConstructFrom, AssignFrom, Values!Assign

\* Operations that change some of the elements
LEMMA EditsImplement ==
    ASSUME VInv, NEW h \in Handle
    PROVE  /\ \A n \in Index : AllocAndCopy(h, n) =>
                 /\ Values!Remove(h, Smaller(Length(h), n), Length(h))
                 /\ VInv' /\ Values!OthersKeepTheirs(h)
           /\ \A s \in Source : Extend(h, s) =>
                 Values!Insert(h, Length(h), s) /\ VInv' /\ Values!OthersKeepTheirs(h)
           /\ \A i \in Index, s \in Source :
                 /\ Overwrite(h, i, s) =>
                       Values!Overwrite(h, i, s) /\ VInv' /\ Values!OthersKeepTheirs(h)
                 /\ Insert(h, i, s) =>
                       Values!Insert(h, i, s) /\ VInv' /\ Values!OthersKeepTheirs(h)
           /\ \A i \in Index, n \in Index : Remove(h, i, n) =>
                 Values!Remove(h, i, Cut(h, i, n)) /\ VInv' /\ Values!OthersKeepTheirs(h)
           /\ \A i \in Index, v \in Value : SetElement(h, i, v) =>
                 Values!Overwrite(h, i, << v >>) /\ VInv' /\ Values!OthersKeepTheirs(h)
<1>1. Index \subseteq Nat
  BY BoundAssumption DEF Index
<1>2. Source \subseteq Seq(Value)
  BY SourceType
<1> QED
  BY <1>1, <1>2, AllocAndCopyImplements, ExtendImplements, OverwriteImplements, InsertImplements,
     RemoveImplements, SetElementImplements

\* The operations together
LEMMA AllPromises ==
    ASSUME VInv
    PROVE  OperationsPromise
BY SmallOperationsImplement, AssignmentsImplement, EditsImplement, DestroyImplements,
   ShuffleImplements, ConcatenateImplements DEF OperationsPromise

\* No step makes an array longer than the bound.
LEMMA StepStaysShort ==
    ASSUME VInv, [Next]_vars
    PROVE  VInv'
<1>1. CASE UNCHANGED vars
  <2>1. elements' = elements /\ heap' = heap /\ locks' = locks
    BY <1>1 DEF vars
  <2>2. IInv'
    BY <1>1, StutterKeeps DEF VInv
  <2>3. \A h \in Handle : Length(h)' = Length(h)
    BY <2>1 DEF Length, Metadata, Elements, IsObject
  <2> QED
    BY <2>2, <2>3 DEF VInv, Short
<1>2. CASE Next
  BY <1>2, SmallOperationsImplement, AssignmentsImplement, EditsImplement, DestroyImplements,
     ShuffleImplements, ConcatenateImplements DEF Next
<1> QED
  BY <1>1, <1>2

\* There are no arrays when the program starts.
LEMMA ShortInitially == Init => VInv
<1> SUFFICES ASSUME Init PROVE VInv
  OBVIOUS
<1>1. IInv
  BY InitKeeps
<1>2. \A h \in Handle : ~IsObject(h)
  BY DEF Init, IsObject
<1>3. \A h \in Handle : Length(h) = 0
  BY <1>1, <1>2, ContentsFacts DEF Length, Data
<1> QED
  BY <1>1, <1>3, BoundAssumption DEF VInv, Short

\* No array ever grows beyond the bound.
LEMMA ShortInvariance == Spec => []VInv
<1>1. VInv /\ [Next]_vars => VInv'
  BY StepStaysShort
<1> QED
  BY <1>1, ShortInitially, PTL DEF Spec

-------------------------------------------------------------------------------
(* Theorems *)

\* The inductive invariant holds in every state.
LEMMA Invariance == Spec => []IInv
<1>1. IInv /\ [Next]_vars => IInv'
  BY StepKeeps, StutterKeeps
<1> QED
  BY <1>1, InitKeeps, PTL DEF Spec

\* The pointer of every array object leads to a buffer that exists.
THEOREM TypeCorrect == Spec => []TypeOK
<1>1. IInv => TypeOK
  BY DEF IInv
<1> QED
  BY <1>1, Invariance, PTL

\* Reference counts are exact: nothing leaks and nothing is freed too early.
THEOREM RefsAreExact == Spec => []RefsCountOwners
<1>1. IInv => RefsCountOwners
  BY DEF IInv
<1> QED
  BY <1>1, Invariance, PTL

\* An array is locked if and only if its own user has locked it.
THEOREM LocksAreOwn == Spec => []LockIsOwn
<1>1. IInv => LockIsOwn
  BY DEF IInv
<1> QED
  BY <1>1, Invariance, PTL

\* No buffer overflows.
THEOREM NothingOverflows == Spec => []FitsCapacity
<1>1. IInv => FitsCapacity
  BY DEF IInv
<1> QED
  BY <1>1, Invariance, PTL

\* The static buffer of the empty array is never written to.
THEOREM EmptyArrayIsConstant == Spec => []EmptyArrayIntact
<1>1. IInv => EmptyArrayIntact
  BY DEF IInv
<1> QED
  BY <1>1, Invariance, PTL

\* A locked buffer is not moved, resized or freed by anything.
THEOREM LockedBuffersStay == Spec => LockedBufferStays
<1>1. IInv /\ [Next]_vars => [LockedStay]_vars
  BY StepKeeps
<1> QED
  BY <1>1, Invariance, PTL DEF Spec, LockedBufferStays

\* No operation on one array is visible through another.
THEOREM SharingIsInvisible == Spec => OneArrayChanges
<1>1. IInv /\ [Next]_vars => [\E h \in Handle : OthersUnchanged(h)]_vars
  BY StepKeeps
<1> QED
  BY <1>1, Invariance, PTL DEF Spec, OneArrayChanges

\* Every operation does to the sequences that the arrays stand for what its
\* counterpart without shared buffers does, and to no other array anything.
THEOREM OperationsKeepTheirPromises == Spec => OperationsAsPromised
<1>1. VInv /\ [Next]_vars => [OperationsPromise]_vars
  BY AllPromises
<1> QED
  BY <1>1, ShortInvariance, PTL DEF Spec, OperationsAsPromised

=============================================================================
