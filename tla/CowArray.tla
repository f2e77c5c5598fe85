------------------------------- MODULE CowArray -------------------------------
(* The copy-on-write array of include/b/array.h.                             *)
(*                                                                           *)
(* An array object is a single pointer, "elements", to the elements of a     *)
(* buffer; in front of the elements lies the buffer's metadata: the number   *)
(* of array objects that share the buffer (refs), the number of elements it  *)
(* has room for (capacity) and the number it holds (length, here the length  *)
(* of the sequence "data").  All empty arrays share one static buffer that   *)
(* is never counted.  lock() pins a buffer by taking refs to zero or below.  *)
(*                                                                           *)
(* Preconditions that the code states with B_ASSERT are guards: the model    *)
(* is of callers that honour them.  Source sequences come from memory that   *)
(* does not overlap the array (B_ASSERT at lines 463, 540, 676 and 750), so  *)
(* the overloads that take another array, a pointer or a repeated element    *)
(* are one action over the sequence they copy.  Calls with no elements to    *)
(* copy change nothing and are left out.  An allocation that fails before    *)
(* anything was changed is a step that changes nothing; the one place where  *)
(* it is not is modelled in CowArrayAllocFailure.                            *)
EXTENDS Integers, Sequences, FiniteSets

CONSTANTS Handle,       \* variables that may hold an array<T> object
          Address,      \* where memory::alloc may place a buffer
          EmptyArray,   \* the address of the static buffer, empty_array()
          NoObject,     \* the pointer of a variable that holds no object
          Value,        \* the elements
          MaxLength,    \* bound: no array grows beyond this length
          MaxLocks      \* bound: lock() is nested at most this deep

ASSUME HandleAssumption  == IsFiniteSet(Handle)
ASSUME PointerAssumption == /\ EmptyArray \notin Address
                            /\ NoObject \notin Address \cup {EmptyArray}
ASSUME BoundAssumption   == MaxLength \in Nat /\ MaxLocks \in Nat
ASSUME NoObjectAssumption == NoObject \notin Seq(Value)

VARIABLES elements,     \* the pointer of every variable
          heap,         \* the buffers that exist, by address
          locks         \* history: lock() calls not yet undone, by variable
vars == <<elements, heap, locks>>

Buffer  == [refs : Int, capacity : Nat, data : Seq(Value)]
Pointer == Address \cup {EmptyArray}
Source  == UNION {[1..n -> Value] : n \in 1..MaxLength}
Index   == 0..MaxLength

\* extra_capacity() of include/b/fn.h
ExtraCapacity(size) ==
    LET extra == size \div 8
    IN  size + (IF extra <= 4 THEN 4 ELSE IF extra <= 1024 THEN extra ELSE 1024)

(***************************************************************************)
(* Queries.  Every constructor starts from empty_array(), so a variable    *)
(* without an object is read as one that points there.                     *)
(***************************************************************************)
IsObject(h)    == elements[h] # NoObject
Elements(h)    == IF IsObject(h) THEN elements[h] ELSE EmptyArray
Metadata(h)    == heap[Elements(h)]
Data(h)        == Metadata(h).data
Length(h)      == Len(Metadata(h).data)
Capacity(h)    == Metadata(h).capacity
IsShared(h)    == Metadata(h).refs > 1
IsLocked(h)    == Metadata(h).refs <= 0

(***************************************************************************)
(* Buffers                                                                 *)
(***************************************************************************)
EmptyArrayMetadata == [refs |-> 2, capacity |-> 0, data |-> << >>]

AllocBuffer(hp, a, capacity, data) ==
    [x \in DOMAIN hp \cup {a} |->
        IF x = a THEN [refs |-> 1, capacity |-> capacity, data |-> data] ELSE hp[x]]

\* Mutant of Release: the count drops to zero and nothing is freed.
ReleaseWithoutFree(hp, a) ==
    IF a = EmptyArray THEN hp ELSE [hp EXCEPT ![a].refs = @ - 1]

Release(hp, a) ==
    IF a = EmptyArray THEN hp
    ELSE IF hp[a].refs = 1 THEN [x \in DOMAIN hp \ {a} |-> hp[x]]
    ELSE [hp EXCEPT ![a].refs = @ - 1]

\* Mutants of AddRef: the new owner is not counted; the static buffer is.
AddRefForgotten(hp, a) == hp
AddRefAlways(hp, a)    == [hp EXCEPT ![a].refs = @ + 1]

AddRef(hp, a) == IF a = EmptyArray THEN hp ELSE [hp EXCEPT ![a].refs = @ + 1]

\* Mutant of ReplaceBuffer: a locked buffer can be replaced.
ReplaceLockedBuffer(hp, h, a) ==
    /\ elements' = [elements EXCEPT ![h] = a]
    /\ heap' = Release(hp, Elements(h))

\* hp is the heap as the operation has left it before the replacement
ReplaceBuffer(hp, h, a) ==
    /\ ~IsLocked(h)
    /\ elements' = [elements EXCEPT ![h] = a]
    /\ heap' = Release(hp, Elements(h))

Reallocate(h, capacity, data) ==
    \E a \in Address \ DOMAIN heap :
        ReplaceBuffer(AllocBuffer(heap, a, capacity, data), h, a)

WriteInPlace(h, data) ==
    /\ UNCHANGED elements
    /\ heap' = [heap EXCEPT ![Elements(h)].data = data]

\* Mutant of IsolateAndWrite: other owners of the buffer see the write.
WriteWithoutIsolation(h, data) == Elements(h) # EmptyArray /\ WriteInPlace(h, data)

\* isolate(), and then the contents become data
IsolateAndWrite(h, data) ==
    \/ IsShared(h) /\ Reallocate(h, ExtraCapacity(Length(h)), data)
    \/ ~IsShared(h) /\ WriteInPlace(h, data)

(***************************************************************************)
(* What the copying and moving of elements amounts to, index i being the   *)
(* code's, counted from 0                                                  *)
(***************************************************************************)
Prefix(s, i)         == SubSeq(s, 1, i)
Rest(s, i)          == SubSeq(s, i + 1, Len(s))
\* Mutant of Overwritten: the elements after the overwritten ones are lost.
OverwrittenToTheEnd(s, i, t) == Prefix(s, i) \o t

Overwritten(s, i, t) == Prefix(s, i) \o t \o Rest(s, i + Len(t))
Inserted(s, i, t)    == Prefix(s, i) \o t \o Rest(s, i)
Removed(s, i, n)     == Prefix(s, i) \o Rest(s, i + n)
Larger(m, n)         == IF m > n THEN m ELSE n
Smaller(m, n)        == IF m < n THEN m ELSE n

(***************************************************************************)
(* Memory management                                                       *)
(***************************************************************************)
AllocAndCopy(h, capacity) ==
    /\ IsObject(h) /\ ~IsLocked(h)
    /\ Capacity(h) # capacity \/ IsShared(h)
    /\ \/ /\ capacity > 0
          /\ Reallocate(h, capacity, Prefix(Data(h), Smaller(Length(h), capacity)))
       \/ /\ capacity = 0
          /\ ReplaceBuffer(heap, h, EmptyArray)
    /\ UNCHANGED locks

TrimToSize(h) == IsObject(h) /\ AllocAndCopy(h, Length(h))

\* discard_and_alloc(capacity); its caller then stores data in the buffer.
\* The old buffer goes first: the allocator may hand out its memory again.
DiscardAndAlloc(h, capacity, data) ==
    /\ ~IsLocked(h)
    /\ \/ /\ Capacity(h) # capacity \/ IsShared(h)
          /\ capacity > 0
          /\ LET released == Release(heap, Elements(h))
             IN  \E a \in Address \ DOMAIN released :
                     /\ elements' = [elements EXCEPT ![h] = a]
                     /\ heap' = AllocBuffer(released, a, capacity, data)
       \/ /\ Capacity(h) # capacity \/ IsShared(h)
          /\ capacity = 0
          /\ ReplaceBuffer(heap, h, EmptyArray)
       \/ /\ Capacity(h) = capacity /\ ~IsShared(h)
          /\ WriteInPlace(h, data)

Reserve(h, capacity) ==
    /\ IsObject(h)
    /\ DiscardAndAlloc(h, capacity, << >>)
    /\ UNCHANGED locks

\* Mutant of Lock: a shared buffer is locked for all who share it.
LockWithoutIsolation(h) ==
    /\ IsObject(h) /\ elements[h] # EmptyArray
    /\ locks[h] < MaxLocks
    /\ heap' = [heap EXCEPT ![Elements(h)].refs = @ - 1]
    /\ locks' = [locks EXCEPT ![h] = @ + 1]
    /\ UNCHANGED elements

\* The pointer that lock() returns is used through SetElement.
Lock(h) ==
    /\ IsObject(h)
    /\ locks[h] < MaxLocks
    /\ \/ /\ IsShared(h)
          /\ \E a \in Address \ DOMAIN heap :
                LET copied == AllocBuffer(heap, a, ExtraCapacity(Length(h)), Data(h))
                IN  ReplaceBuffer([copied EXCEPT ![a].refs = @ - 1], h, a)
       \/ /\ ~IsShared(h)
          /\ heap' = [heap EXCEPT ![Elements(h)].refs = @ - 1]
          /\ UNCHANGED elements
    /\ locks' = [locks EXCEPT ![h] = @ + 1]

Unlock(h) ==
    /\ IsObject(h)
    /\ IsLocked(h)
    /\ heap' = [heap EXCEPT ![Elements(h)].refs = @ + 1]
    /\ locks' = [locks EXCEPT ![h] = @ - 1]
    /\ UNCHANGED elements

(***************************************************************************)
(* Assignment, also as the second half of the constructors                 *)
(***************************************************************************)
Empty(h) ==
    \/ ~IsShared(h) /\ WriteInPlace(h, << >>)
    \/ IsShared(h) /\ ReplaceBuffer(heap, h, EmptyArray)

AssignSequence(h, s) ==
    \/ s = << >> /\ Empty(h)
    \/ /\ s # << >>
       /\ \/ ~IsShared(h) /\ Len(s) <= Capacity(h) /\ WriteInPlace(h, s)
          \/ /\ IsShared(h) \/ Len(s) > Capacity(h)
             /\ DiscardAndAlloc(h, ExtraCapacity(Len(s)), s)

AssignArray(h, g) ==
    \/ /\ ~IsLocked(h) /\ ~IsLocked(g)
       /\ ReplaceBuffer(AddRef(heap, elements[g]), h, elements[g])
    \/ /\ IsLocked(h) \/ IsLocked(g)
       /\ Elements(h) # Elements(g)
       /\ AssignSequence(h, Data(g))

(***************************************************************************)
(* The operations of the class                                             *)
(***************************************************************************)
Construct(h) ==
    /\ ~IsObject(h)
    /\ elements' = [elements EXCEPT ![h] = EmptyArray]
    /\ UNCHANGED <<heap, locks>>

CopyConstruct(h, g) == ~IsObject(h) /\ IsObject(g) /\ AssignArray(h, g) /\ UNCHANGED locks

ConstructFrom(h, s) == ~IsObject(h) /\ AssignSequence(h, s) /\ UNCHANGED locks

Destroy(h) ==
    /\ IsObject(h)
    /\ ~IsLocked(h)
    /\ heap' = Release(heap, elements[h])
    /\ elements' = [elements EXCEPT ![h] = NoObject]
    /\ UNCHANGED locks

Assign(h, g) == IsObject(h) /\ IsObject(g) /\ AssignArray(h, g) /\ UNCHANGED locks

AssignFrom(h, s) == IsObject(h) /\ AssignSequence(h, s) /\ UNCHANGED locks

Clear(h) == IsObject(h) /\ Empty(h) /\ UNCHANGED locks

\* at(index), operator[], first() and last(), and the caller's write
\* through the reference that they return
SetElement(h, i, v) ==
    /\ IsObject(h)
    /\ i < Length(h)
    /\ IsolateAndWrite(h, [Data(h) EXCEPT ![i + 1] = v])
    /\ UNCHANGED locks

Overwrite(h, i, s) ==
    /\ IsObject(h)
    /\ i <= Length(h)
    /\ LET tail   == i + Len(s)
           result == Overwritten(Data(h), i, s)
       IN  /\ tail <= MaxLength
           /\ \/ /\ ~IsShared(h)
                 /\ tail <= Length(h) \/ tail <= Capacity(h)
                 /\ WriteInPlace(h, result)
              \/ /\ IsShared(h) \/ (tail > Length(h) /\ tail > Capacity(h))
                 /\ Reallocate(h, ExtraCapacity(Larger(tail, Length(h))), result)
    /\ UNCHANGED locks

Insert(h, i, s) ==
    /\ IsObject(h)
    /\ i <= Length(h)
    /\ LET size   == Length(h) + Len(s)
           result == Inserted(Data(h), i, s)
       IN  /\ size <= MaxLength
           /\ \/ /\ size > Capacity(h) \/ IsShared(h)
                 /\ Reallocate(h, ExtraCapacity(size), result)
              \/ /\ size <= Capacity(h) /\ ~IsShared(h)
                 /\ WriteInPlace(h, result)
    /\ UNCHANGED locks

\* Mutant of Extend: room for one element fewer than there will be.
ExtendOffByOne(h, s) ==
    /\ IsObject(h)
    /\ LET size == Length(h) + Len(s)
       IN  /\ size <= MaxLength
           /\ \/ /\ IsShared(h) \/ size > Capacity(h) + 1
                 /\ Reallocate(h, ExtraCapacity(size), Data(h) \o s)
              \/ /\ ~IsShared(h) /\ size <= Capacity(h) + 1
                 /\ WriteInPlace(h, Data(h) \o s)
    /\ UNCHANGED locks

\* alloc_and_copy() always finds a capacity other than the one it is asked for
Extend(h, s) ==
    /\ IsObject(h)
    /\ LET size == Length(h) + Len(s)
       IN  /\ size <= MaxLength
           /\ \/ /\ IsShared(h) \/ size > Capacity(h)
                 /\ Reallocate(h, ExtraCapacity(size), Data(h) \o s)
              \/ /\ ~IsShared(h) /\ size <= Capacity(h)
                 /\ WriteInPlace(h, Data(h) \o s)
    /\ UNCHANGED locks

\* operator+: a copy of a, to which b is appended.  The copy shares a's buffer
\* unless that is locked; a copy of a locked array is a buffer of its own, with
\* room to spare.  append() asserts that b lies outside the buffer of the copy.
\* The object returned takes over the buffer of "result".
Concatenate(r, a, b) ==
    /\ ~IsObject(r) /\ IsObject(a) /\ IsObject(b)
    /\ LET size == Length(a) + Length(b)
           room == ExtraCapacity(Length(a))
       IN  /\ size <= MaxLength
           /\ ~IsLocked(a) /\ Elements(a) = Elements(b) => Capacity(a) = 0
           /\ \/ Length(b) = 0 /\ AssignArray(r, a)
              \/ /\ Length(b) > 0
                 /\ IsLocked(a) /\ Length(a) > 0 /\ size <= room
                 /\ Reallocate(r, room, Data(a) \o Data(b))
              \/ /\ Length(b) > 0
                 /\ ~IsLocked(a) \/ Length(a) = 0 \/ size > room
                 /\ Reallocate(r, ExtraCapacity(size), Data(a) \o Data(b))
    /\ UNCHANGED locks

\* A count that reaches beyond the end is cut down to what is there.
Remove(h, i, n) ==
    /\ IsObject(h)
    /\ i <= Length(h)
    /\ LET count  == IF i + n > Length(h) THEN Length(h) - i ELSE n
           result == Removed(Data(h), i, count)
       IN  /\ count > 0
           /\ \/ ~IsShared(h) /\ WriteInPlace(h, result)
              \/ IsShared(h) /\ Reallocate(h, ExtraCapacity(Len(result)), result)
    /\ UNCHANGED locks

\* The order shuffle_array() leaves depends on the random numbers it is given.
Shuffle(h) ==
    /\ IsObject(h)
    /\ \E p \in [1..Length(h) -> 1..Length(h)] :
          /\ \A j, k \in 1..Length(h) : p[j] = p[k] => j = k
          /\ IsolateAndWrite(h, [k \in 1..Length(h) |-> Data(h)[p[k]]])
    /\ UNCHANGED locks

(***************************************************************************)
(* The specification                                                       *)
(***************************************************************************)
Init ==
    /\ elements = [h \in Handle |-> NoObject]
    /\ heap = [a \in {EmptyArray} |-> EmptyArrayMetadata]
    /\ locks = [h \in Handle |-> 0]

Next ==
    \E h \in Handle :
        \/ Construct(h)
        \/ Destroy(h)
        \/ Clear(h)
        \/ TrimToSize(h)
        \/ Lock(h)
        \/ Unlock(h)
        \/ Shuffle(h)
        \/ \E g \in Handle : CopyConstruct(h, g) \/ Assign(h, g)
        \/ \E a, b \in Handle : Concatenate(h, a, b)
        \/ \E n \in Index : AllocAndCopy(h, n) \/ Reserve(h, n)
        \/ \E s \in Source : ConstructFrom(h, s) \/ AssignFrom(h, s) \/ Extend(h, s)
        \/ \E i \in Index, s \in Source : Overwrite(h, i, s) \/ Insert(h, i, s)
        \/ \E i \in Index, n \in Index : Remove(h, i, n)
        \/ \E i \in Index, v \in Value : SetElement(h, i, v)

Spec == Init /\ [][Next]_vars

(***************************************************************************)
(* Properties                                                              *)
(***************************************************************************)
Sharing(a) == {h \in Handle : elements[h] = a}

\* The variables have the types their declarations give them, and the pointer
\* of every array object leads to a buffer that has not been freed.
TypeOK ==
    /\ DOMAIN heap \subseteq Pointer
    /\ \A a \in DOMAIN heap : heap[a] \in Buffer
    /\ elements \in [Handle -> DOMAIN heap \cup {NoObject}]
    /\ locks \in [Handle -> 0..MaxLocks]

\* A buffer belongs to as many array objects as its reference count says, or,
\* while it is locked, to the one object that locked it (release, lock, unlock,
\* assign).  In particular no buffer outlives the last object that uses it.
RefsCountOwners ==
    \A a \in DOMAIN heap \ {EmptyArray} :
        /\ Sharing(a) # {}
        /\ \/ /\ heap[a].refs = Cardinality(Sharing(a))
              /\ \A h \in Sharing(a) : locks[h] = 0
           \/ \E h \in Sharing(a) : /\ Sharing(a) = {h}
                                    /\ heap[a].refs = 1 - locks[h]

\* is_locked() answers for the object it is asked of: locking one array never
\* makes another one appear locked, whatever they shared before.
LockIsOwn == \A h \in Handle : IsLocked(h) <=> locks[h] > 0

\* No operation stores more elements in a buffer than memory was allocated for.
FitsCapacity == \A a \in DOMAIN heap : Len(heap[a].data) <= heap[a].capacity

\* The static buffer that all empty arrays share is never written to, though
\* the code casts its constness away to point at it.
EmptyArrayIntact == EmptyArray \in DOMAIN heap /\ heap[EmptyArray] = EmptyArrayMetadata

\* From lock() to the last unlock() the buffer stays where it is and keeps its
\* size ("fixes the buffer in memory"), whatever is done to any array.
LockedStay ==
    \A h \in Handle : locks[h] > 0 /\ locks'[h] > 0 =>
        /\ elements'[h] = elements[h]
        /\ heap'[elements[h]].capacity = heap[elements[h]].capacity
LockedBufferStays == [][LockedStay]_vars

\* An operation has an effect on one array only, however many share its buffer.
OthersUnchanged(h) ==
    \A g \in Handle : g # h => elements'[g] = elements[g] /\ Data(g)' = Data(g)
OneArrayChanges == [][\E h \in Handle : OthersUnchanged(h)]_vars

(***************************************************************************)
(* What each operation promises is an operation of ArrayValues, given      *)
(* element by element and without buffers.                                 *)
(***************************************************************************)
Contents == [h \in Handle |-> IF IsObject(h) THEN Data(h) ELSE NoObject]
Values   == INSTANCE ArrayValues WITH value <- Contents

\* The index behind the last of n elements from i on, as far as there are so many
Cut(h, i, n) == IF i + n > Length(h) THEN Length(h) ELSE i + n

\* Whichever branch an operation takes, because of sharing, locks or room, it
\* leaves the same contents; moving the elements to another buffer, and locking,
\* do nothing that can be told.
OperationsPromise ==
    \A h \in Handle :
        /\ Construct(h) => ~Values!IsObject(h) /\ Values!Becomes(h, << >>)
        /\ Destroy(h) => Values!Destroy(h)
        /\ Clear(h) => Values!Assign(h, << >>)
        /\ Shuffle(h) => Values!Permute(h)
        /\ TrimToSize(h) \/ Lock(h) \/ Unlock(h) => UNCHANGED Contents
        /\ \A g \in Handle :
              /\ CopyConstruct(h, g) => ~Values!IsObject(h) /\ Values!Copy(h, g)
              /\ Assign(h, g) => Values!IsObject(h) /\ Values!Copy(h, g)
        /\ \A a, b \in Handle : Concatenate(h, a, b) => Values!Concatenate(h, a, b)
        /\ \A n \in Index :
              /\ AllocAndCopy(h, n) => Values!Remove(h, Smaller(Length(h), n), Length(h))
              /\ Reserve(h, n) => Values!Assign(h, << >>)
        /\ \A s \in Source :
              /\ ConstructFrom(h, s) => ~Values!IsObject(h) /\ Values!Becomes(h, s)
              /\ AssignFrom(h, s) => Values!Assign(h, s)
              /\ Extend(h, s) => Values!Insert(h, Length(h), s)
        /\ \A i \in Index, s \in Source :
              /\ Overwrite(h, i, s) => Values!Overwrite(h, i, s)
              /\ Insert(h, i, s) => Values!Insert(h, i, s)
        /\ \A i \in Index, n \in Index : Remove(h, i, n) => Values!Remove(h, i, Cut(h, i, n))
        /\ \A i \in Index, v \in Value : SetElement(h, i, v) => Values!Overwrite(h, i, << v >>)
OperationsAsPromised == [][OperationsPromise]_vars
=============================================================================
