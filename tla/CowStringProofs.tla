---------------------------- MODULE CowStringProofs ----------------------------
(* Theorems about CowString, for any number of strings, characters and       *)
(* addresses, any literal and any bounds.                                    *)
(*                                                                           *)
(* A string shares its buffer as an array does: without the NULs and the     *)
(* literal's buffer, what CowString keeps in "heap" is what CowArray keeps   *)
(* in its own (Buffers).  The module Array below is CowArrayProofs under     *)
(* this mapping, and its lemmas about the private functions are used as they *)
(* are; ArrayAssumptions shows that the assumptions under which they have    *)
(* been proved hold of strings.  What is proved here is that every private   *)
(* function of a string is that of an array under the mapping, what becomes  *)
(* of the NULs, and what strings do that arrays do not: destroying a locked  *)
(* string, unlocking to another length, literals.                            *)
EXTENDS CowString, FiniteSetTheorems, SequenceTheorems, TLAPS

-------------------------------------------------------------------------------
(* A string as an array *)

\* What an array knows of a buffer: not whether there is a NUL.
Plain(b) == [refs |-> b.refs, capacity |-> b.capacity, data |-> b.data]

\* The buffers that string objects can have
PlainHeap(hp) == [a \in DOMAIN hp \ {LiteralBuffer} |-> Plain(hp[a])]
Buffers == PlainHeap(heap)

Array == INSTANCE CowArrayProofs
           WITH EmptyArray <- EmptyString, Value <- Char, elements <- chars, heap <- Buffers

\* The assumptions of CowArray hold of strings.
LEMMA ArrayAssumptions ==
    /\ Array!IsFiniteSet(Handle)
    /\ EmptyString \notin Address /\ NoObject \notin Address \cup {EmptyString}
    /\ MaxLength \in Nat /\ MaxLocks \in Nat
    /\ NoObject \notin Seq(Char)
<1>1. Array!IsFiniteSet(Handle)
  BY HandleAssumption DEF IsFiniteSet, Array!IsFiniteSet
<1> QED
  BY <1>1, PointerAssumption, BoundAssumption, NoObjectAssumption

\* Both modules count in the same way.
LEMMA SameCardinality ==
    ASSUME NEW S
    PROVE  Array!Cardinality(S) = Cardinality(S)
BY DEF Cardinality, Array!Cardinality, IsFiniteSet, Array!IsFiniteSet

-------------------------------------------------------------------------------
(* Heaps *)

\* What is true of the heap beside what an array knows of it
Sound(hp) ==
    /\ Static \subseteq DOMAIN hp /\ DOMAIN hp \subseteq Address \cup Static
    /\ \A a \in DOMAIN hp : hp[a] \in Buffer
    /\ hp[EmptyString] = EmptyStringMetadata
    /\ hp[LiteralBuffer] = LiteralMetadata

\* Two heaps agree on the NUL of a buffer that both have.
SameNul(hp, kp, a) == a \in DOMAIN hp /\ a \in DOMAIN kp => kp[a].terminated = hp[a].terminated

\* In the heap kp, another buffer has taken the place of the one at c.
Stored(hp, kp, c, b) ==
    DOMAIN kp = DOMAIN hp /\ kp[c] = b /\ \A x \in DOMAIN hp : x # c => kp[x] = hp[x]

\* A buffer that is written to, if it is not one of the static ones
LEMMA UpdateFacts ==
    ASSUME NEW hp, Sound(hp), NEW c \in DOMAIN hp, c # LiteralBuffer, c # EmptyString, NEW b \in Buffer,
           NEW kp, Stored(hp, kp, c, b)
    PROVE  /\ PlainHeap(kp) = [PlainHeap(hp) EXCEPT ![c] = Plain(b)]
           /\ Sound(kp)
           /\ \A x : x # c \/ b.terminated = hp[c].terminated => SameNul(hp, kp, x)
<1>1. Sound(kp)
  BY DEF Stored, Sound, Static
<1>2. PlainHeap(kp) = [PlainHeap(hp) EXCEPT ![c] = Plain(b)]
  BY DEF Stored, PlainHeap
<1>3. \A x : x # c \/ b.terminated = hp[c].terminated => SameNul(hp, kp, x)
  BY DEF Stored, SameNul
<1> QED
  BY <1>1, <1>2, <1>3

\* A buffer whose owners are counted anew
LEMMA CountFacts ==
    ASSUME NEW hp, Sound(hp), NEW c \in DOMAIN hp, c # LiteralBuffer, c # EmptyString,
           NEW n \in Int, NEW kp, Stored(hp, kp, c, [hp[c] EXCEPT !.refs = n])
    PROVE  /\ PlainHeap(kp) = [PlainHeap(hp) EXCEPT ![c].refs = n]
           /\ Sound(kp)
           /\ \A x : SameNul(hp, kp, x)
<1>1. hp[c] \in Buffer /\ PlainHeap(hp)[c] = Plain(hp[c])
  BY DEF Sound, PlainHeap
<1>2. PICK b : b = [hp[c] EXCEPT !.refs = n]
  OBVIOUS
<1>3. Stored(hp, kp, c, b)
  BY <1>2
<1>4. b \in Buffer /\ b.terminated = hp[c].terminated
  BY <1>1, <1>2 DEF Buffer
<1>5. Plain(b) = [PlainHeap(hp)[c] EXCEPT !.refs = n]
  BY <1>1, <1>2 DEF Buffer, Plain
<1>6. /\ PlainHeap(kp) = [PlainHeap(hp) EXCEPT ![c] = Plain(b)]
      /\ Sound(kp)
      /\ \A x : x # c \/ b.terminated = hp[c].terminated => SameNul(hp, kp, x)
  BY <1>3, <1>4, UpdateFacts
<1>7. \A x : SameNul(hp, kp, x)
  BY <1>4, <1>6
<1> QED
  BY <1>5, <1>6, <1>7

\* release(), but for the buffer of a literal, is that of an array.
LEMMA DropRefFacts ==
    ASSUME NEW hp, Sound(hp), NEW c \in DOMAIN hp, c # LiteralBuffer
    PROVE  /\ PlainHeap(DropRef(hp, c)) = Array!Release(PlainHeap(hp), c)
           /\ Sound(DropRef(hp, c))
           /\ DOMAIN DropRef(hp, c) \subseteq DOMAIN hp
           /\ \A x : SameNul(hp, DropRef(hp, c), x)
           /\ c # EmptyString /\ hp[c].refs = 1 => c \notin DOMAIN DropRef(hp, c)
<1>1. hp[c] \in Buffer /\ EmptyString # LiteralBuffer
  BY PointerAssumption DEF Sound
<1>2. CASE c = EmptyString
  BY <1>2 DEF DropRef, Array!Release, SameNul
<1>3. CASE c # EmptyString /\ hp[c].refs = 1
  <2>1. DropRef(hp, c) = [x \in DOMAIN hp \ {c} |-> hp[x]]
    BY <1>3 DEF DropRef, Free
  <2>2. Array!Release(PlainHeap(hp), c) = [x \in DOMAIN PlainHeap(hp) \ {c} |-> PlainHeap(hp)[x]]
    BY <1>3 DEF Array!Release, PlainHeap, Plain
  <2>3. PlainHeap(DropRef(hp, c)) = [x \in DOMAIN PlainHeap(hp) \ {c} |-> PlainHeap(hp)[x]]
    BY <2>1 DEF PlainHeap
  <2>4. Sound(DropRef(hp, c)) /\ \A x : SameNul(hp, DropRef(hp, c), x)
    BY <1>1, <1>3, <2>1 DEF Sound, SameNul, Static
  <2> QED
    BY <2>1, <2>2, <2>3, <2>4
<1>4. CASE c # EmptyString /\ hp[c].refs # 1
  <2>1. DropRef(hp, c) = [hp EXCEPT ![c].refs = @ - 1]
    BY <1>4 DEF DropRef
  <2>2. Array!Release(PlainHeap(hp), c) = [PlainHeap(hp) EXCEPT ![c].refs = @ - 1]
    BY <1>4 DEF Array!Release, PlainHeap, Plain
  <2>3. /\ PlainHeap(DropRef(hp, c)) = [PlainHeap(hp) EXCEPT ![c].refs = @ - 1]
        /\ Sound(DropRef(hp, c)) /\ \A x : SameNul(hp, DropRef(hp, c), x)
    <3>1. PICK n \in Int : n = hp[c].refs - 1
      BY <1>1 DEF Buffer
    <3>2. Stored(hp, DropRef(hp, c), c, [hp[c] EXCEPT !.refs = n])
      BY <2>1, <3>1 DEF Stored
    <3>3. /\ PlainHeap(DropRef(hp, c)) = [PlainHeap(hp) EXCEPT ![c].refs = n]
          /\ Sound(DropRef(hp, c)) /\ \A x : SameNul(hp, DropRef(hp, c), x)
      BY <1>4, <3>2, CountFacts
    <3>4. PlainHeap(hp)[c].refs = hp[c].refs
      BY DEF PlainHeap, Plain
    <3> QED
      BY <3>1, <3>3, <3>4
  <2> QED
    BY <1>4, <2>1, <2>2, <2>3
<1> QED
  BY <1>2, <1>3, <1>4

\* alloc_buffer() adds a buffer to the heap...
LEMMA AllocBufferFacts ==
    ASSUME NEW hp, Sound(hp), NEW a \in Address, a \notin DOMAIN hp, NEW b \in Buffer,
           NEW kp, kp = AllocBuffer(hp, a, b)
    PROVE  /\ Sound(kp)
           /\ DOMAIN hp \subseteq DOMAIN kp /\ a \in DOMAIN kp
           /\ kp[a] = b
           /\ \A x \in DOMAIN kp : x # a => x \in DOMAIN hp /\ kp[x] = hp[x]
<1>1. a # EmptyString /\ a # LiteralBuffer
  BY PointerAssumption
<1>2. /\ DOMAIN kp = DOMAIN hp \cup {a}
      /\ kp[a] = b
      /\ \A x \in DOMAIN hp : kp[x] = hp[x]
  BY DEF AllocBuffer
<1>3. Sound(kp)
  BY <1>1, <1>2 DEF Sound, Static
<1> QED
  BY <1>2, <1>3

\* ... as that of an array does.
LEMMA AllocIsArrays ==
    ASSUME NEW hp, NEW a \in Address, NEW b \in Buffer, b.refs = 1,
           NEW capacity, NEW data, b.capacity = capacity, b.data = data
    PROVE  PlainHeap(AllocBuffer(hp, a, b)) = Array!AllocBuffer(PlainHeap(hp), a, capacity, data)
<1>1. a # LiteralBuffer
  BY PointerAssumption
<1> QED
  BY <1>1 DEF AllocBuffer, PlainHeap, Plain, Array!AllocBuffer

\* add_ref() is that of an array.
LEMMA AddRefFacts ==
    ASSUME NEW hp, Sound(hp), NEW c \in DOMAIN hp, c # LiteralBuffer
    PROVE  /\ PlainHeap(AddRef(hp, c)) = Array!AddRef(PlainHeap(hp), c)
           /\ Sound(AddRef(hp, c))
           /\ DOMAIN AddRef(hp, c) = DOMAIN hp
           /\ \A x : SameNul(hp, AddRef(hp, c), x)
<1>1. hp[c] \in Buffer
  BY DEF Sound
<1>2. CASE c = EmptyString
  BY <1>2 DEF AddRef, Array!AddRef, SameNul
<1>3. CASE c # EmptyString
  <2>1. AddRef(hp, c) = [hp EXCEPT ![c].refs = @ + 1]
    BY <1>3 DEF AddRef
  <2>2. /\ PlainHeap(AddRef(hp, c)) = [PlainHeap(hp) EXCEPT ![c].refs = @ + 1]
        /\ Sound(AddRef(hp, c)) /\ \A x : SameNul(hp, AddRef(hp, c), x)
    <3>1. PICK n \in Int : n = hp[c].refs + 1
      BY <1>1 DEF Buffer
    <3>2. Stored(hp, AddRef(hp, c), c, [hp[c] EXCEPT !.refs = n])
      BY <2>1, <3>1 DEF Stored
    <3>3. /\ PlainHeap(AddRef(hp, c)) = [PlainHeap(hp) EXCEPT ![c].refs = n]
          /\ Sound(AddRef(hp, c)) /\ \A x : SameNul(hp, AddRef(hp, c), x)
      BY <1>3, <3>2, CountFacts
    <3>4. PlainHeap(hp)[c].refs = hp[c].refs
      BY DEF PlainHeap, Plain
    <3> QED
      BY <3>1, <3>3, <3>4
  <2> QED
    BY <1>3, <2>1, <2>2 DEF Array!AddRef
<1> QED
  BY <1>2, <1>3

-------------------------------------------------------------------------------
(* The inductive invariant: that of arrays, and what is true of the heap.     *)

SInv == Array!VInv /\ Sound(heap)

\* What strings and arrays say of a string object is the same.
LEMMA ObjectFacts ==
    ASSUME SInv, NEW h \in Handle
    PROVE  /\ IsObject(h) <=> Array!IsObject(h)
           /\ IsObject(h) => Chars(h) = chars[h]
           /\ ~IsObject(h) => Chars(h) = EmptyString
           /\ Chars(h) = Array!Elements(h)
           /\ Chars(h) \in DOMAIN heap /\ Chars(h) # LiteralBuffer /\ Chars(h) \in DOMAIN Buffers
           /\ Metadata(h) \in Buffer /\ Metadata(h) = heap[Chars(h)]
           /\ Data(h) = Array!Data(h) /\ Length(h) = Array!Length(h) /\ Capacity(h) = Array!Capacity(h)
           /\ IsShared(h) <=> Array!IsShared(h)
           /\ IsLocked(h) <=> Array!IsLocked(h)
<1>1. Literal \notin Handle
  BY HandleAssumption
<1>2. IsObject(h) <=> Array!IsObject(h)
  BY DEF IsObject, Array!IsObject
<1>3. Chars(h) = Array!Elements(h)
  BY <1>1, <1>2 DEF Chars, Array!Elements, IsObject
<1>4. Array!Elements(h) \in DOMAIN Buffers
  BY ArrayAssumptions, Array!ObjectFacts DEF SInv, Array!VInv
<1>5. Chars(h) \in DOMAIN heap /\ Chars(h) # LiteralBuffer /\ Buffers[Chars(h)] = Plain(heap[Chars(h)])
  BY <1>3, <1>4 DEF Buffers, PlainHeap
<1>6. Array!Metadata(h) = Plain(Metadata(h))
  BY <1>3, <1>5 DEF Metadata, Array!Metadata
<1>7. /\ Data(h) = Array!Data(h) /\ Length(h) = Array!Length(h) /\ Capacity(h) = Array!Capacity(h)
      /\ IsShared(h) <=> Array!IsShared(h)
      /\ IsLocked(h) <=> Array!IsLocked(h)
  BY <1>6 DEF Plain, Data, Array!Data, Length, Array!Length, Capacity, Array!Capacity,
              IsShared, Array!IsShared, IsLocked, Array!IsLocked
<1>8. Metadata(h) \in Buffer /\ Metadata(h) = heap[Chars(h)]
  BY <1>5 DEF SInv, Sound, Metadata
<1>9. (IsObject(h) => Chars(h) = chars[h]) /\ (~IsObject(h) => Chars(h) = EmptyString)
  BY <1>1 DEF Chars
<1> QED
  BY <1>2, <1>3, <1>4, <1>5, <1>7, <1>8, <1>9

\* What an operand holds
LEMMA OperandFacts ==
    ASSUME SInv, NEW g \in Operand
    PROVE  /\ Data(g) \in Seq(Char) /\ Length(g) \in Nat /\ Length(g) = Len(Data(g))
           /\ Length(g) <= MaxLength
           /\ Capacity(g) \in Nat /\ Length(g) <= Capacity(g)
           /\ Terminated(g) \in BOOLEAN
           /\ g = Literal => IsLocked(g) /\ Terminated(g)
<1>1. CASE g = Literal
  <2>1. Metadata(g) = LiteralMetadata
    BY <1>1 DEF SInv, Sound, Metadata, Chars
  <2> QED
    BY <1>1, <2>1, LiteralAssumption, LenProperties
       DEF LiteralMetadata, Data, Length, Capacity, Terminated, IsLocked
<1>2. CASE g \in Handle
  <2>1. /\ Array!Data(g) \in Seq(Char) /\ Array!Length(g) \in Nat /\ Array!Capacity(g) \in Nat
        /\ Array!Length(g) <= Array!Capacity(g) /\ Array!Length(g) <= MaxLength
    BY <1>2, ArrayAssumptions, Array!ObjectFacts DEF SInv, Array!VInv, Array!Short
  <2>2. Length(g) = Len(Data(g))
    BY DEF Length, Data
  <2>3. Terminated(g) \in BOOLEAN
    BY <1>2, ObjectFacts DEF Terminated, Buffer
  <2> QED
    BY <1>2, <2>1, <2>2, <2>3, ObjectFacts, HandleAssumption
<1> QED
  BY <1>1, <1>2 DEF Operand

-------------------------------------------------------------------------------
(* What the private functions give a string.  The lemmas of CowArrayProofs    *)
(* say what becomes of the array; what is added is the NUL.                   *)

OthersKeepNul(h) == \A g \in Handle : g # h => Terminated(g)' = Terminated(g)

\* An operation has given the string h the characters s, and a NUL after them if
\* t, and has touched no other string.
Gives(h, s, t) ==
    /\ Array!Turns(h, s) /\ Array!LockedStay
    /\ Sound(heap)'
    /\ Terminated(h)' = t
    /\ OthersKeepNul(h)

\* A string that does not share its buffer has one, and it is nobody else's.
LEMMA OnlyOwner ==
    ASSUME SInv, NEW h \in Handle, ~IsShared(h)
    PROVE  /\ Chars(h) \in Address /\ IsObject(h)
           /\ \A g \in Handle : g # h => Chars(g) # Chars(h)
<1>1. ~Array!IsShared(h) /\ Chars(h) = Array!Elements(h) /\ (~IsObject(h) => Chars(h) = EmptyString)
  BY ObjectFacts
<1>2. /\ Array!Elements(h) \in Address
      /\ Array!Elements(h) = chars[h]
      /\ Array!Sharing(chars[h]) = {h}
  BY <1>1, ArrayAssumptions, Array!SoleOwner DEF SInv, Array!VInv
<1>3. Chars(h) # EmptyString
  BY <1>1, <1>2, PointerAssumption
<1>4. ASSUME NEW g \in Handle, g # h
      PROVE  Chars(g) # Chars(h)
  <2>1. chars[g] # chars[h]
    BY <1>2, <1>4 DEF Array!Sharing
  <2>2. Chars(g) = chars[g] \/ Chars(g) = EmptyString
    BY ObjectFacts
  <2> QED
    BY <1>1, <1>2, <1>3, <2>1, <2>2
<1> QED
  BY <1>1, <1>2, <1>3, <1>4

\* Where the pointers lead after a step
LEMMA PointersAfter ==
    ASSUME Array!IInv', NEW h \in Handle
    PROVE  /\ Chars(h)' = IF chars'[h] = NoObject THEN EmptyString ELSE chars'[h]
           /\ Chars(h)' \in DOMAIN heap' /\ Chars(h)' # LiteralBuffer
<1>1. Chars(h)' = IF chars'[h] = NoObject THEN EmptyString ELSE chars'[h]
  BY HandleAssumption DEF Chars, IsObject
<1>2. EmptyString \in DOMAIN Buffers' /\ chars' \in [Handle -> DOMAIN Buffers' \cup {NoObject}]
  BY DEF Array!IInv, Array!TypeOK, Array!EmptyArrayIntact
<1>3. DOMAIN Buffers' = DOMAIN heap' \ {LiteralBuffer}
  BY DEF Buffers, PlainHeap
<1> QED
  BY <1>1, <1>2, <1>3

\* Whose buffers have been left alone keep their NULs.
LEMMA NulsStay ==
    ASSUME SInv, NEW h \in Handle, Array!IInv', Array!OthersUnchanged(h),
           \A g \in Handle : g # h => SameNul(heap, heap', Chars(g))
    PROVE  OthersKeepNul(h)
<1> SUFFICES ASSUME NEW g \in Handle, g # h
             PROVE  Terminated(g)' = Terminated(g)
  BY DEF OthersKeepNul
<1>1. chars'[g] = chars[g]
  BY DEF Array!OthersUnchanged
<1>2. Chars(g)' = Chars(g)
  BY <1>1, PointersAfter, ObjectFacts DEF IsObject
<1>3. Chars(g) \in DOMAIN heap /\ Chars(g) \in DOMAIN heap'
  BY <1>2, PointersAfter, ObjectFacts
<1> QED
  BY <1>2, <1>3 DEF SameNul, Terminated, Metadata

\* A write to a buffer that is not shared
LEMMA WriteGives ==
    ASSUME SInv, NEW h \in Handle, ~IsShared(h), NEW data \in Seq(Char), NEW t \in BOOLEAN,
           Len(data) <= Capacity(h), Len(data) <= MaxLength,
           WriteInPlace(h, data, t), UNCHANGED locks
    PROVE  Gives(h, data, t)
<1>1. PICK c, b : c = Chars(h) /\ b = [heap[c] EXCEPT !.data = data, !.terminated = t]
  OBVIOUS
<1>2. /\ c \in DOMAIN heap /\ c \in DOMAIN Buffers /\ c = Array!Elements(h) /\ heap[c] \in Buffer
      /\ c # LiteralBuffer /\ c # EmptyString /\ c # NoObject /\ chars[h] = c
      /\ ~Array!IsShared(h) /\ Len(data) <= Array!Capacity(h)
  BY <1>1, ObjectFacts, OnlyOwner, PointerAssumption
<1>3. /\ b \in Buffer /\ b.terminated = t
      /\ Plain(b) = [Plain(heap[c]) EXCEPT !.data = data]
  <2>1. PICK d : d = heap[c]
    OBVIOUS
  <2>2. d = [refs |-> d.refs, capacity |-> d.capacity, data |-> d.data, terminated |-> d.terminated]
    BY <1>2, <2>1 DEF Buffer
  <2>3. b = [refs |-> d.refs, capacity |-> d.capacity, data |-> data, terminated |-> t]
    BY <1>1, <2>1, <2>2
  <2> QED
    BY <1>2, <2>1, <2>3 DEF Buffer, Plain
<1>4. Stored(heap, heap', c, b) /\ chars' = chars
  BY <1>1, <1>2 DEF WriteInPlace, Stored
<1>5. Sound(heap) /\ Array!IInv
  BY DEF SInv, Array!VInv
<1>6. /\ Buffers' = [Buffers EXCEPT ![c] = Plain(b)]
      /\ Sound(heap)' /\ \A x : x # c => SameNul(heap, heap', x)
  BY <1>2, <1>3, <1>4, <1>5, UpdateFacts DEF Buffers
<1>7. Array!WriteInPlace(h, data)
  <2>1. Buffers[c] = Plain(heap[c])
    BY <1>2 DEF Buffers, PlainHeap
  <2> QED
    BY <1>2, <1>3, <1>4, <1>6, <2>1 DEF Array!WriteInPlace
<1>8. Array!IInv' /\ Array!LockedStay /\ Array!OthersUnchanged(h)
  BY <1>2, <1>5, <1>7, ArrayAssumptions, Array!WriteInPlaceKeeps
<1>9. Array!IsObject(h)' /\ Array!Data(h)' = data
  BY <1>2, <1>5, <1>7, ArrayAssumptions, Array!WriteInPlaceShows
<1>10. OthersKeepNul(h)
  BY <1>1, <1>6, <1>8, OnlyOwner, NulsStay
<1>11. Terminated(h)' = t
  BY <1>2, <1>3, <1>4, <1>8, PointersAfter DEF Terminated, Metadata, Stored
<1> QED
  BY <1>6, <1>8, <1>9, <1>10, <1>11 DEF Gives, Array!Turns

\* The string h turns from its buffer in the heap hp to the one at a.
Turned(hp, h, a) ==
    ~IsLocked(h) /\ heap' = DropRef(hp, Chars(h)) /\ chars' = [chars EXCEPT ![h] = a]

\* replace_buffer(), whatever the heap hp was made ready for it, is that of an
\* array, and no buffer but a new one is without the NUL that it had.
LEMMA ReplaceIsArrays ==
    ASSUME SInv, NEW h \in Handle, NEW hp, NEW a,
           Sound(hp), DOMAIN heap \subseteq DOMAIN hp,
           Turned(hp, h, a)
    PROVE  /\ Array!ReplaceBuffer(PlainHeap(hp), h, a)
           /\ Sound(heap)'
           /\ chars' = [chars EXCEPT ![h] = a]
           /\ \A x : SameNul(hp, heap', x)
<1>1. /\ Chars(h) \in DOMAIN hp /\ Chars(h) # LiteralBuffer /\ Chars(h) = Array!Elements(h)
      /\ ~Array!IsLocked(h)
  BY ObjectFacts DEF Turned
<1>2. /\ PlainHeap(heap') = Array!Release(PlainHeap(hp), Array!Elements(h))
      /\ Sound(heap') /\ \A x : SameNul(hp, heap', x)
  BY <1>1, DropRefFacts DEF Turned
<1>3. Buffers' = PlainHeap(heap')
  BY DEF Buffers
<1> QED
  BY <1>1, <1>2, <1>3 DEF Turned, Array!ReplaceBuffer

\* What has a NUL before an allocation has one after it.
LEMMA NulsAfterAlloc ==
    ASSUME NEW a, NEW b, a \notin DOMAIN heap,
           \A x : SameNul(AllocBuffer(heap, a, b), heap', x)
    PROVE  \A x : SameNul(heap, heap', x)
BY DEF AllocBuffer, SameNul

\* A string that has been given a new buffer
LEMMA ReallocateGives ==
    ASSUME SInv, NEW h \in Handle, NEW data \in Seq(Char), NEW capacity \in Nat, NEW t \in BOOLEAN,
           Len(data) <= capacity, Len(data) <= MaxLength,
           Reallocate(h, NewBuffer(capacity, data, t)), UNCHANGED locks
    PROVE  Gives(h, data, t)
<1>1. PICK b : b = NewBuffer(capacity, data, t)
  OBVIOUS
<1>2. b \in Buffer /\ b.refs = 1 /\ b.capacity = capacity /\ b.data = data /\ b.terminated = t
  BY <1>1 DEF NewBuffer, Buffer
<1>3. PICK a \in Address \ DOMAIN heap : ReplaceBuffer(AllocBuffer(heap, a, b), h, a)
  BY <1>1 DEF Reallocate
<1>4. PICK hp : hp = AllocBuffer(heap, a, b)
  OBVIOUS
<1>5. Sound(heap) /\ Array!IInv
  BY DEF SInv, Array!VInv
<1>6. /\ PlainHeap(hp) = Array!AllocBuffer(Buffers, a, capacity, data)
      /\ Sound(hp) /\ DOMAIN heap \subseteq DOMAIN hp
      /\ a \in DOMAIN hp /\ hp[a] = b
  <2>1. a \in Address /\ a \notin DOMAIN heap
    BY <1>3
  <2>2. PlainHeap(AllocBuffer(heap, a, b)) = Array!AllocBuffer(PlainHeap(heap), a, capacity, data)
    BY <1>2, <2>1, AllocIsArrays
  <2>3. /\ Sound(hp) /\ DOMAIN heap \subseteq DOMAIN hp
        /\ a \in DOMAIN hp /\ hp[a] = b
    BY <1>2, <1>4, <1>5, <2>1, AllocBufferFacts
  <2> QED
    BY <1>4, <2>2, <2>3 DEF Buffers
<1>7. /\ Array!ReplaceBuffer(PlainHeap(hp), h, a)
      /\ Sound(heap)'
      /\ chars' = [chars EXCEPT ![h] = a]
      /\ \A x : SameNul(hp, heap', x)
  BY <1>3, <1>4, <1>6, ReplaceIsArrays DEF Turned, ReplaceBuffer
<1>8. Array!Reallocate(h, capacity, data)
  <2>1. a \in Address \ DOMAIN Buffers
    BY <1>3 DEF Buffers, PlainHeap
  <2> QED
    BY <1>6, <1>7, <2>1 DEF Array!Reallocate
<1>9. Array!IInv' /\ Array!LockedStay /\ Array!OthersUnchanged(h)
  BY <1>5, <1>8, ArrayAssumptions, Array!ReallocateKeeps
<1>10. Array!IsObject(h)' /\ Array!Data(h)' = data
  BY <1>5, <1>8, ArrayAssumptions, Array!ReallocateShows
<1>11. OthersKeepNul(h)
  BY <1>3, <1>4, <1>7, <1>9, NulsAfterAlloc, NulsStay
<1>12. Terminated(h)' = t
  <2>1. chars'[h] = a /\ a # NoObject
    BY <1>3, <1>5, <1>7, PointerAssumption DEF Array!IInv, Array!TypeOK
  <2>2. Chars(h)' = a /\ a \in DOMAIN heap'
    BY <1>9, <2>1, PointersAfter
  <2> QED
    BY <1>2, <1>6, <1>7, <2>2 DEF Terminated, Metadata, SameNul
<1> QED
  BY <1>7, <1>9, <1>10, <1>11, <1>12 DEF Gives, Array!Turns

\* A string that points at the static buffer
LEMMA LosingGives ==
    ASSUME SInv, NEW h \in Handle, Turned(heap, h, EmptyString), UNCHANGED locks
    PROVE  Gives(h, << >>, TRUE)
<1>1. Sound(heap) /\ Array!IInv
  BY DEF SInv, Array!VInv
<1>2. /\ Array!ReplaceBuffer(Buffers, h, EmptyString)
      /\ Sound(heap)'
      /\ chars' = [chars EXCEPT ![h] = EmptyString]
      /\ \A x : SameNul(heap, heap', x)
  BY <1>1, ReplaceIsArrays DEF Buffers
<1>3. Array!IInv' /\ Array!LockedStay /\ Array!OthersUnchanged(h)
  BY <1>1, <1>2, ArrayAssumptions, Array!LosingBuffer DEF Array!ReplaceBuffer
<1>4. Array!IsObject(h)' /\ Array!Data(h)' = << >>
  BY <1>1, <1>2, ArrayAssumptions, Array!LosingShows
<1>5. OthersKeepNul(h)
  BY <1>2, <1>3, NulsStay
<1>6. Terminated(h)' = TRUE
  <2>1. chars'[h] = EmptyString /\ EmptyString # NoObject
    BY <1>1, <1>2, PointerAssumption DEF Array!IInv, Array!TypeOK
  <2>2. Chars(h)' = EmptyString
    BY <1>3, <2>1, PointersAfter
  <2> QED
    BY <1>2, <2>2 DEF Terminated, Metadata, Sound, EmptyStringMetadata
<1>7. Len(<< >>) <= MaxLength
  BY BoundAssumption
<1> QED
  BY <1>2, <1>3, <1>4, <1>5, <1>6, <1>7 DEF Gives, Array!Turns

\* A string whose old buffer has gone before it is given a new one, perhaps at
\* the same address
LEMMA DiscardGives ==
    ASSUME SInv, NEW h \in Handle, NEW data \in Seq(Char), NEW capacity \in Nat,
           Len(data) <= capacity, Len(data) <= MaxLength,
           DiscardAndAlloc(h, capacity, data), UNCHANGED locks
    PROVE  Gives(h, data, TRUE)
<1>1. Sound(heap) /\ Array!IInv
  BY DEF SInv, Array!VInv
<1>2. CASE ~IsShared(h) /\ Capacity(h) = capacity /\ WriteInPlace(h, data, TRUE)
  BY <1>2, WriteGives
<1>3. CASE capacity = 0 /\ Turned(heap, h, EmptyString)
  <2>1. data = << >>
    BY <1>3, LenProperties, EmptySeq
  <2> QED
    BY <1>3, <2>1, LosingGives
<1>4. CASE /\ Capacity(h) # capacity \/ IsShared(h)
           /\ capacity > 0
           /\ \E a \in Address \ DOMAIN DropRef(heap, Chars(h)) :
                 /\ heap' = AllocBuffer(DropRef(heap, Chars(h)), a, NewBuffer(capacity, data, TRUE))
                 /\ chars' = [chars EXCEPT ![h] = a]
  <2>1. PICK hp, b : hp = DropRef(heap, Chars(h)) /\ b = NewBuffer(capacity, data, TRUE)
    OBVIOUS
  <2>2. PICK a \in Address \ DOMAIN hp :
           heap' = AllocBuffer(hp, a, b) /\ chars' = [chars EXCEPT ![h] = a]
    BY <1>4, <2>1
  <2>3. b \in Buffer /\ b.refs = 1 /\ b.capacity = capacity /\ b.data = data /\ b.terminated = TRUE
    BY <2>1 DEF NewBuffer, Buffer
  <2>4. /\ PlainHeap(hp) = Array!Release(Buffers, Array!Elements(h))
        /\ Sound(hp) /\ DOMAIN hp \subseteq DOMAIN heap
        /\ \A x : SameNul(heap, hp, x)
    BY <1>1, <2>1, ObjectFacts, DropRefFacts DEF Buffers
  <2>5. /\ PlainHeap(heap') = Array!AllocBuffer(PlainHeap(hp), a, capacity, data)
        /\ Sound(heap') /\ DOMAIN hp \subseteq DOMAIN heap'
        /\ heap'[a] = b /\ \A x \in DOMAIN heap' : x # a => x \in DOMAIN hp /\ heap'[x] = hp[x]
    <3>1. a \in Address /\ a \notin DOMAIN hp
      BY <2>2
    <3>2. PlainHeap(AllocBuffer(hp, a, b)) = Array!AllocBuffer(PlainHeap(hp), a, capacity, data)
      BY <2>3, <3>1, AllocIsArrays
    <3>3. /\ Sound(heap') /\ DOMAIN hp \subseteq DOMAIN heap'
          /\ heap'[a] = b /\ \A x \in DOMAIN heap' : x # a => x \in DOMAIN hp /\ heap'[x] = hp[x]
      BY <2>2, <2>3, <2>4, <3>1, AllocBufferFacts
    <3> QED
      BY <2>2, <3>2, <3>3
  <2>6. Array!DiscardAndAlloc(h, capacity, data)
    <3>1. /\ ~Array!IsLocked(h)
          /\ Array!Capacity(h) # capacity \/ Array!IsShared(h)
      BY <1>4, ObjectFacts DEF DiscardAndAlloc
    <3>2. a \in Address \ DOMAIN Array!Release(Buffers, Array!Elements(h))
      BY <2>2, <2>4 DEF PlainHeap
    <3>3. Buffers' = Array!AllocBuffer(Array!Release(Buffers, Array!Elements(h)), a, capacity, data)
      BY <2>4, <2>5 DEF Buffers
    <3> QED
      BY <1>4, <2>2, <3>1, <3>2, <3>3 DEF Array!DiscardAndAlloc
  <2>7. Array!IInv' /\ Array!LockedStay /\ Array!OthersUnchanged(h)
    BY <1>1, <2>6, ArrayAssumptions, Array!DiscardAndAllocKeeps
  <2>8. Array!IsObject(h)' /\ Array!Data(h)' = data
    BY <1>1, <1>4, <2>6, ArrayAssumptions, Array!DiscardAndAllocShows
  <2>9. OthersKeepNul(h)
    <3>1. ASSUME NEW g \in Handle, g # h
          PROVE  SameNul(heap, heap', Chars(g))
      <4>1. CASE Chars(g) # a
        BY <2>4, <2>5, <4>1 DEF SameNul
      <4>2. CASE Chars(g) = a
        <5>1. a \in DOMAIN heap /\ a \notin DOMAIN hp /\ a # EmptyString
          BY <2>2, <4>2, ObjectFacts, PointerAssumption
        <5>2. a = Chars(h) /\ heap[Chars(h)].refs = 1
          BY <2>1, <5>1 DEF DropRef, Free
        <5>3. ~IsShared(h)
          BY <5>2 DEF IsShared, Metadata
        <5> QED
          BY <3>1, <4>2, <5>2, <5>3, OnlyOwner
      <4> QED
        BY <4>1, <4>2
    <3> QED
      BY <2>7, <3>1, NulsStay
  <2>10. Terminated(h)' = TRUE
    <3>1. chars'[h] = a /\ a # NoObject
      BY <1>1, <2>2, PointerAssumption DEF Array!IInv, Array!TypeOK
    <3>2. Chars(h)' = a
      BY <2>7, <3>1, PointersAfter
    <3> QED
      BY <2>3, <2>5, <3>2 DEF Terminated, Metadata
  <2> QED
    BY <2>5, <2>7, <2>8, <2>9, <2>10 DEF Gives, Array!Turns
<1> QED
  BY <1>2, <1>3, <1>4 DEF DiscardAndAlloc, Turned

\* A string that comes to share the buffer of another shares its NUL as well.
LEMMA ShareGives ==
    ASSUME SInv, NEW h \in Handle, NEW g \in Handle, IsObject(g), ~IsLocked(h), ~IsLocked(g),
           ReplaceBuffer(AddRef(heap, Chars(g)), h, Chars(g)), UNCHANGED locks
    PROVE  Gives(h, Data(g), Terminated(g)) /\ chars'[h] = chars[g]
<1>1. PICK c, hp : c = Chars(g) /\ hp = AddRef(heap, c)
  OBVIOUS
<1>2. Sound(heap) /\ Array!IInv
  BY DEF SInv, Array!VInv
<1>3. /\ c = chars[g] /\ c # NoObject /\ c \in DOMAIN heap /\ c # LiteralBuffer
      /\ Array!IsObject(g) /\ ~Array!IsLocked(h) /\ ~Array!IsLocked(g)
      /\ Data(g) = Array!Data(g)
  BY <1>1, ObjectFacts DEF IsObject
<1>4. /\ PlainHeap(hp) = Array!AddRef(Buffers, c)
      /\ Sound(hp) /\ DOMAIN hp = DOMAIN heap
      /\ \A x : SameNul(heap, hp, x)
  BY <1>1, <1>2, <1>3, AddRefFacts DEF Buffers
<1>5. /\ Array!ReplaceBuffer(PlainHeap(hp), h, c)
      /\ Sound(heap)'
      /\ chars' = [chars EXCEPT ![h] = c]
      /\ \A x : SameNul(hp, heap', x)
  BY <1>1, <1>4, ReplaceIsArrays DEF Turned, ReplaceBuffer
<1>6. Array!ReplaceBuffer(Array!AddRef(Buffers, chars[g]), h, chars[g])
  BY <1>3, <1>4, <1>5
<1>7. Array!IInv' /\ Array!LockedStay /\ Array!OthersUnchanged(h)
  BY <1>2, <1>3, <1>6, ArrayAssumptions, Array!ShareKeeps
<1>8. Array!IsObject(h)' /\ Array!Data(h)' = Data(g)
  BY <1>2, <1>3, <1>6, ArrayAssumptions, Array!ShareShows
<1>9. \A x : SameNul(heap, heap', x)
  BY <1>4, <1>5 DEF SameNul
<1>10. OthersKeepNul(h)
  BY <1>7, <1>9, NulsStay
<1>11. chars'[h] = c
  BY <1>2, <1>5 DEF Array!IInv, Array!TypeOK
<1>12. Terminated(h)' = Terminated(g)
  <2>1. Chars(h)' = c /\ c \in DOMAIN heap'
    BY <1>3, <1>7, <1>11, PointersAfter
  <2> QED
    BY <1>1, <1>3, <1>9, <2>1 DEF Terminated, Metadata, SameNul
<1>13. Len(Data(g)) <= MaxLength
  BY OperandFacts DEF Operand
<1> QED
  BY <1>3, <1>5, <1>7, <1>8, <1>10, <1>11, <1>12, <1>13 DEF Gives, Array!Turns

\* lock() moves the characters and the NUL together, if at all.
LEMMA LockGives ==
    ASSUME SInv, NEW h \in Handle, Lock(h)
    PROVE  Gives(h, Data(h), Terminated(h))
<1>1. Sound(heap) /\ Array!IInv /\ Array!VInv
  BY DEF SInv, Array!VInv
<1>2. /\ Chars(h) \in DOMAIN heap /\ Chars(h) = Array!Elements(h) /\ Chars(h) = chars[h]
      /\ Array!IsObject(h) /\ chars[h] # NoObject /\ Metadata(h) = heap[Chars(h)] /\ Metadata(h) \in Buffer
      /\ IsShared(h) <=> Array!IsShared(h)
      /\ Data(h) = Array!Data(h) /\ Length(h) = Array!Length(h)
  BY ObjectFacts DEF Lock, IsObject
<1>3. /\ locks[h] < MaxLocks
      /\ locks' = [locks EXCEPT ![h] = @ + 1]
  BY DEF Lock
<1>4. CASE /\ ~IsShared(h)
           /\ heap' = [heap EXCEPT ![Chars(h)].refs = @ - 1]
           /\ UNCHANGED chars
  <2>1. PICK c, b : c = Chars(h) /\ b = [heap[c] EXCEPT !.refs = @ - 1]
    OBVIOUS
  <2>2. /\ b \in Buffer /\ b.terminated = heap[c].terminated
        /\ Plain(b) = [Plain(heap[c]) EXCEPT !.refs = @ - 1]
    BY <1>2, <2>1 DEF Buffer, Plain
  <2>3. c # EmptyString /\ c # LiteralBuffer /\ c \in DOMAIN heap /\ Stored(heap, heap', c, b)
    BY <1>2, <1>4, <2>1, OnlyOwner, PointerAssumption DEF Stored
  <2>4. /\ Buffers' = [Buffers EXCEPT ![c] = Plain(b)]
        /\ Sound(heap') /\ \A x : SameNul(heap, heap', x)
    BY <1>1, <2>2, <2>3, UpdateFacts DEF Buffers
  <2>5. Buffers[c] = Plain(heap[c])
    BY <2>3 DEF Buffers, PlainHeap
  <2>6. Array!Lock(h)
    BY <1>2, <1>3, <1>4, <2>1, <2>2, <2>4, <2>5 DEF Array!Lock
  <2>7. Array!Turns(h, Data(h)) /\ Array!LockedStay
    BY <1>1, <1>2, <2>6, ArrayAssumptions, Array!LockTurns, Array!LockKeeps
  <2>8. OthersKeepNul(h)
    BY <2>4, <2>7, NulsStay DEF Array!Turns
  <2>9. Terminated(h)' = Terminated(h)
    <3>1. Chars(h)' = c
      BY <1>2, <1>4, <2>1, <2>7, PointersAfter DEF Array!Turns
    <3> QED
      BY <1>2, <2>1, <2>2, <2>3, <3>1 DEF Terminated, Metadata, Stored
  <2> QED
    BY <2>4, <2>7, <2>8, <2>9 DEF Gives
<1>5. CASE /\ IsShared(h)
           /\ Reallocate(h, [NewBuffer(ExtraCapacity(Length(h)), Data(h), Terminated(h)) EXCEPT !.refs = 0])
  <2>1. PICK n, s, b : /\ n = ExtraCapacity(Length(h)) /\ s = Data(h)
                       /\ b = [NewBuffer(n, s, Terminated(h)) EXCEPT !.refs = 0]
    OBVIOUS
  <2>2. PICK a \in Address \ DOMAIN heap : ReplaceBuffer(AllocBuffer(heap, a, b), h, a)
    BY <1>5, <2>1 DEF Reallocate
  <2>3. PICK hp : hp = AllocBuffer(heap, a, b)
    OBVIOUS
  <2>4. /\ n = Array!ExtraCapacity(Array!Length(h)) /\ n \in Nat
        /\ s \in Seq(Char) /\ Terminated(h) \in BOOLEAN
    <3>1. \A k \in Nat : Array!ExtraCapacity(k) = ExtraCapacity(k)
      BY DEF Array!ExtraCapacity, ExtraCapacity
    <3>2. /\ Length(h) \in Nat /\ Data(h) \in Seq(Char) /\ Terminated(h) \in BOOLEAN
      BY OperandFacts DEF Operand
    <3>3. Array!ExtraCapacity(Length(h)) \in Nat
      BY <3>2, ArrayAssumptions, Array!ExtraCapacityIsMore
    <3> QED
      BY <1>2, <2>1, <3>1, <3>2, <3>3
  <2>5. b = [refs |-> 0, capacity |-> n, data |-> s, terminated |-> Terminated(h)] /\ b \in Buffer
    BY <2>1, <2>4 DEF NewBuffer, Buffer
  <2>6. /\ Sound(hp) /\ DOMAIN heap \subseteq DOMAIN hp
        /\ a \in DOMAIN hp /\ hp[a] = b
    BY <1>1, <2>2, <2>3, <2>5, AllocBufferFacts
  <2>7. /\ Array!ReplaceBuffer(PlainHeap(hp), h, a)
        /\ Sound(heap)'
        /\ chars' = [chars EXCEPT ![h] = a]
        /\ \A x : SameNul(hp, heap', x)
    BY <2>2, <2>3, <2>6, ReplaceIsArrays DEF Turned, ReplaceBuffer
  <2>8. PICK copied : copied = Array!AllocBuffer(Buffers, a, n, s)
    OBVIOUS
  <2>9. PlainHeap(hp) = [copied EXCEPT ![a].refs = @ - 1]
    <3>1. a # LiteralBuffer /\ a \notin DOMAIN heap
      BY <2>2, PointerAssumption
    <3>2. copied = [x \in DOMAIN Buffers \cup {a} |->
                       IF x = a THEN [refs |-> 1, capacity |-> n, data |-> s] ELSE Buffers[x]]
      BY <2>8 DEF Array!AllocBuffer
    <3>3. PlainHeap(hp) = [x \in DOMAIN Buffers \cup {a} |->
                              IF x = a THEN [refs |-> 0, capacity |-> n, data |-> s] ELSE Buffers[x]]
      BY <2>3, <2>5, <3>1 DEF PlainHeap, Plain, Buffers, AllocBuffer
    <3> QED
      BY <3>2, <3>3
  <2>10. Array!Lock(h)
    <3>1. a \in Address \ DOMAIN Buffers
      BY <2>2 DEF Buffers, PlainHeap
    <3>2. n = Array!ExtraCapacity(Array!Length(h)) /\ s = Array!Data(h) /\ Array!IsShared(h)
      BY <1>2, <1>5, <2>1, <2>4
    <3>3. Array!ReplaceBuffer([copied EXCEPT ![a].refs = @ - 1], h, a)
      BY <2>7, <2>9
    <3> QED
      BY <1>2, <1>3, <2>8, <3>1, <3>2, <3>3 DEF Array!Lock
  <2>11. Array!Turns(h, Data(h)) /\ Array!LockedStay
    BY <1>1, <1>2, <2>10, ArrayAssumptions, Array!LockTurns, Array!LockKeeps
  <2>12. OthersKeepNul(h)
    BY <2>2, <2>3, <2>7, <2>11, NulsAfterAlloc, NulsStay DEF Array!Turns
  <2>13. Terminated(h)' = Terminated(h)
    <3>1. chars'[h] = a /\ a # NoObject
      BY <1>1, <2>2, <2>7, PointerAssumption DEF Array!IInv, Array!TypeOK
    <3>2. Chars(h)' = a /\ a \in DOMAIN heap'
      BY <2>11, <3>1, PointersAfter DEF Array!Turns
    <3>3. Metadata(h)'.terminated = hp[a].terminated
      BY <2>6, <2>7, <3>2 DEF Metadata, SameNul
    <3> QED
      BY <2>5, <2>6, <3>3 DEF Terminated
  <2> QED
    BY <2>7, <2>11, <2>12, <2>13 DEF Gives
<1> QED
  BY <1>4, <1>5 DEF Lock

\* A string that keeps its buffer, with other contents or another count in it
LEMMA BufferGives ==
    ASSUME SInv, NEW h \in Handle, ~IsShared(h), NEW b \in Buffer,
           Len(b.data) <= b.capacity, b.capacity = Capacity(h), Len(b.data) <= MaxLength,
           b.refs = 1 - locks'[h],
           Stored(heap, heap', Chars(h), b), chars' = chars,
           locks' \in [Handle -> 0..MaxLocks],
           \A g \in Handle : g # h => locks'[g] = locks[g]
    PROVE  Gives(h, b.data, b.terminated)
<1>1. PICK c : c = Chars(h)
  OBVIOUS
<1>2. /\ c \in DOMAIN heap /\ c \in DOMAIN Buffers /\ c = Array!Elements(h)
      /\ c # LiteralBuffer /\ c # EmptyString /\ c # NoObject /\ chars[h] = c
      /\ ~Array!IsShared(h) /\ b.capacity = Array!Capacity(h)
  BY <1>1, ObjectFacts, OnlyOwner, PointerAssumption
<1>3. Sound(heap) /\ Array!IInv
  BY DEF SInv, Array!VInv
<1>4. /\ Buffers' = [Buffers EXCEPT ![c] = Plain(b)]
      /\ Sound(heap') /\ \A x : x # c => SameNul(heap, heap', x)
  BY <1>1, <1>2, <1>3, UpdateFacts DEF Buffers
<1>5. /\ Plain(b) \in Array!Buffer
      /\ Plain(b).data = b.data /\ Plain(b).capacity = b.capacity /\ Plain(b).refs = b.refs
  BY DEF Plain, Buffer, Array!Buffer
<1>6. Array!IInv' /\ Array!LockedStay /\ Array!OthersUnchanged(h)
  <2>1. PICK p : p = Plain(b)
    OBVIOUS
  <2>2. /\ p \in Array!Buffer /\ Len(p.data) <= p.capacity
        /\ p.capacity = Array!Capacity(h) /\ p.refs = 1 - locks'[h]
        /\ Buffers' = [Buffers EXCEPT ![Array!Elements(h)] = p]
    BY <1>2, <1>4, <1>5, <2>1
  <2> QED
    BY <1>2, <1>3, <2>2, ArrayAssumptions, Array!BufferChanges
<1>7. Chars(h)' = c
  BY <1>2, <1>6, PointersAfter
<1>8. Array!IsObject(h)' /\ Array!Data(h)' = b.data
  <2>1. Array!IsObject(h)' /\ Array!Elements(h)' = c
    BY <1>2 DEF Array!IsObject, Array!Elements
  <2>2. Buffers'[c] = Plain(b)
    BY <1>2, <1>4
  <2> QED
    BY <1>5, <2>1, <2>2 DEF Array!Data, Array!Metadata
<1>9. Terminated(h)' = b.terminated
  BY <1>1, <1>2, <1>7 DEF Terminated, Metadata, Stored
<1>10. OthersKeepNul(h)
  BY <1>1, <1>4, <1>6, OnlyOwner, NulsStay
<1> QED
  BY <1>4, <1>6, <1>8, <1>9, <1>10 DEF Gives, Array!Turns

\* The count of a locked string
LEMMA LockedFacts ==
    ASSUME SInv, NEW h \in Handle, IsLocked(h)
    PROVE  /\ ~IsShared(h)
           /\ Metadata(h).refs = 1 - locks[h] /\ locks[h] > 0
           /\ Array!Sharing(chars[h]) = {h}
           /\ Metadata(h) \in Buffer /\ heap[Chars(h)] = Metadata(h)
           /\ locks \in [Handle -> 0..MaxLocks]
<1>1. /\ Metadata(h) \in Buffer /\ Metadata(h) = heap[Chars(h)] /\ Chars(h) = Array!Elements(h)
      /\ Chars(h) \in DOMAIN Buffers
      /\ IsShared(h) <=> Array!IsShared(h)
      /\ IsLocked(h) <=> Array!IsLocked(h)
  BY ObjectFacts
<1>2. ~IsShared(h)
  BY <1>1 DEF IsShared, IsLocked, Buffer
<1>3. /\ Array!Elements(h) = chars[h]
      /\ Array!Sharing(chars[h]) = {h}
      /\ Buffers[chars[h]].refs = 1 - locks[h]
  BY <1>1, <1>2, ArrayAssumptions, Array!SoleOwner DEF SInv, Array!VInv
<1>4. Buffers[chars[h]].refs = Metadata(h).refs
  BY <1>1, <1>3 DEF Buffers, PlainHeap, Plain
<1>5. locks \in [Handle -> 0..MaxLocks] /\ locks[h] > 0
  BY <1>1 DEF SInv, Array!VInv, Array!IInv, Array!TypeOK, Array!LockIsOwn
<1> QED
  BY <1>1, <1>2, <1>3, <1>4, <1>5

\* unlock() changes nothing but the count...
LEMMA UnlockGives ==
    ASSUME SInv, NEW h \in Handle, Unlock(h)
    PROVE  Gives(h, Data(h), Terminated(h))
<1>1. PICK d : d = Metadata(h)
  OBVIOUS
<1>2. PICK b : b = [d EXCEPT !.refs = @ + 1]
  OBVIOUS
<1>3. /\ ~IsShared(h) /\ d \in Buffer /\ d.refs = 1 - locks[h] /\ locks[h] > 0
      /\ heap[Chars(h)] = d /\ locks \in [Handle -> 0..MaxLocks]
  BY <1>1, LockedFacts DEF Unlock
<1>4. /\ b \in Buffer /\ b.refs = d.refs + 1
      /\ b.data = d.data /\ b.capacity = d.capacity /\ b.terminated = d.terminated
  BY <1>2, <1>3 DEF Buffer
<1>5. /\ Stored(heap, heap', Chars(h), b) /\ chars' = chars
      /\ locks' = [locks EXCEPT ![h] = @ - 1]
  <2>1. heap' = [heap EXCEPT ![Chars(h)] = b]
    BY <1>2, <1>3 DEF Unlock
  <2>2. Chars(h) \in DOMAIN heap
    BY ObjectFacts
  <2> QED
    BY <2>1, <2>2 DEF Unlock, Stored
<1>6. locks[h] \in 0..MaxLocks /\ MaxLocks \in Nat
  BY <1>3, BoundAssumption
<1>7. /\ locks' \in [Handle -> 0..MaxLocks] /\ b.refs = 1 - locks'[h]
      /\ \A g \in Handle : g # h => locks'[g] = locks[g]
  BY <1>3, <1>4, <1>5, <1>6
<1>8. /\ Data(h) = b.data /\ Terminated(h) = b.terminated /\ Capacity(h) = b.capacity
      /\ Len(b.data) <= b.capacity /\ Len(b.data) <= MaxLength
  BY <1>1, <1>4, OperandFacts DEF Operand, Data, Terminated, Capacity
<1> QED
  BY <1>3, <1>4, <1>5, <1>7, <1>8, BufferGives

\* ... and unlock(length) accepts what has been put in the buffer.
LEMMA UnlockWithLengthGives ==
    ASSUME SInv, NEW h \in Handle, NEW s \in Seq(Char), Len(s) <= MaxLength, UnlockWithLength(h, s)
    PROVE  Gives(h, s, TRUE)
<1>1. PICK d : d = Metadata(h)
  OBVIOUS
<1>2. PICK b : b = [NewBuffer(Capacity(h), s, TRUE) EXCEPT !.refs = d.refs + 1]
  OBVIOUS
<1>3. /\ ~IsShared(h) /\ d \in Buffer /\ d.refs = 1 - locks[h] /\ locks[h] > 0
      /\ heap[Chars(h)] = d /\ locks \in [Handle -> 0..MaxLocks]
  BY <1>1, LockedFacts DEF UnlockWithLength
<1>4. /\ b \in Buffer /\ b.refs = d.refs + 1
      /\ b.data = s /\ b.capacity = Capacity(h) /\ b.terminated = TRUE
  <2>1. Capacity(h) \in Nat
    BY OperandFacts DEF Operand
  <2>2. b = [refs |-> d.refs + 1, capacity |-> Capacity(h), data |-> s, terminated |-> TRUE]
    BY <1>2 DEF NewBuffer
  <2> QED
    BY <1>3, <2>1, <2>2 DEF Buffer
<1>5. /\ Stored(heap, heap', Chars(h), b) /\ chars' = chars
      /\ locks' = [locks EXCEPT ![h] = @ - 1]
      /\ Len(s) <= Capacity(h)
  <2>1. heap' = [heap EXCEPT ![Chars(h)] = b]
    BY <1>1, <1>2 DEF UnlockWithLength
  <2>2. Chars(h) \in DOMAIN heap
    BY ObjectFacts
  <2> QED
    BY <2>1, <2>2 DEF UnlockWithLength, Stored
<1>6. locks[h] \in 0..MaxLocks /\ MaxLocks \in Nat
  BY <1>3, BoundAssumption
<1>7. /\ locks' \in [Handle -> 0..MaxLocks] /\ b.refs = 1 - locks'[h]
      /\ \A g \in Handle : g # h => locks'[g] = locks[g]
  BY <1>3, <1>4, <1>5, <1>6
<1> QED
  BY <1>3, <1>4, <1>5, <1>7, BufferGives

\* A new object is an empty string.
LEMMA ConstructGives ==
    ASSUME SInv, NEW h \in Handle, ~IsObject(h),
           chars' = [chars EXCEPT ![h] = EmptyString], UNCHANGED <<heap, locks>>
    PROVE  Gives(h, << >>, TRUE)
<1>1. Sound(heap) /\ Sound(heap)' /\ Array!IInv /\ Buffers' = Buffers
  BY DEF SInv, Array!VInv, Sound, Static, Buffers, PlainHeap
<1>2. Array!Construct(h)
  BY <1>1, ObjectFacts DEF Array!Construct
<1>3. Array!Turns(h, << >>)
  BY <1>1, <1>2, ArrayAssumptions, Array!ConstructTurns
<1>4. Array!LockedStay
  <2> SUFFICES ASSUME NEW g \in Handle, locks[g] > 0
               PROVE  chars'[g] = chars[g] /\ Buffers'[chars[g]].capacity = Buffers[chars[g]].capacity
    BY DEF Array!LockedStay
  <2>1. g # h
    <3>1. chars[h] \notin Address
      BY PointerAssumption, HandleAssumption DEF IsObject
    <3>2. locks[h] = 0
      BY <1>1, <3>1, ArrayAssumptions, Array!NoBufferNoLock
    <3> QED
      BY <3>2
  <2> QED
    BY <1>1, <2>1
<1>5. OthersKeepNul(h)
  <2>1. \A x : SameNul(heap, heap', x)
    BY DEF SameNul
  <2> QED
    BY <1>3, <2>1, NulsStay DEF Array!Turns
<1>6. Terminated(h)' = TRUE
  <2>1. chars'[h] = EmptyString /\ EmptyString # NoObject
    BY <1>1, PointerAssumption DEF Array!IInv, Array!TypeOK
  <2>2. Chars(h)' = EmptyString
    BY <1>3, <2>1, PointersAfter DEF Array!Turns
  <2> QED
    BY <1>1, <2>2 DEF Terminated, Metadata, Sound, EmptyStringMetadata
<1> QED
  BY <1>1, <1>3, <1>4, <1>5, <1>6 DEF Gives


-------------------------------------------------------------------------------
(* The destructor, which an array has as well unless it is locked             *)

\* The string h is no more, and no other string has been touched.
Gone(h) ==
    /\ Array!VInv' /\ Array!LockedStay /\ Array!OthersUnchanged(h)
    /\ Sound(heap)'
    /\ chars'[h] = NoObject /\ Terminated(h)'
    /\ OthersKeepNul(h)

\* A buffer that has one owner, locked or not, can go with it.
LEMMA LosingLockedBuffer ==
    ASSUME Array!IInv, NEW h \in Handle, NEW c \in Address, c = chars[h],
           c \in DOMAIN Buffers, Array!Sharing(c) = {h},
           Buffers' = [x \in DOMAIN Buffers \ {c} |-> Buffers[x]],
           chars' = [chars EXCEPT ![h] = NoObject],
           locks' = [locks EXCEPT ![h] = 0]
    PROVE  Array!IInv' /\ Array!LockedStay /\ Array!OthersUnchanged(h)
<1>1. /\ DOMAIN Buffers \subseteq Address \cup {EmptyString}
      /\ \A a \in DOMAIN Buffers : Buffers[a] \in Array!Buffer
      /\ chars \in [Handle -> DOMAIN Buffers \cup {NoObject}]
      /\ locks \in [Handle -> 0..MaxLocks]
  BY DEF Array!IInv, Array!TypeOK, Array!Pointer
<1>2. /\ EmptyString \notin Address /\ NoObject # EmptyString /\ NoObject \notin Address
      /\ 0 \in 0..MaxLocks
  BY PointerAssumption, BoundAssumption
<1>3. EmptyString \in DOMAIN Buffers /\ Buffers[EmptyString] = Array!EmptyArrayMetadata
  BY DEF Array!IInv, Array!EmptyArrayIntact
<1>4. \A g \in Handle : g # h => chars[g] # c /\ chars'[g] = chars[g] /\ locks'[g] = locks[g]
  BY <1>1 DEF Array!Sharing
<1>5. chars'[h] = NoObject /\ locks'[h] = 0
  BY <1>1
<1>6. /\ DOMAIN Buffers' = DOMAIN Buffers \ {c}
      /\ \A x \in DOMAIN Buffers : x # c => Buffers'[x] = Buffers[x]
  OBVIOUS
<1>7. ASSUME NEW g \in Handle, g # h
      PROVE  /\ Array!Elements(g)' = Array!Elements(g)
             /\ Array!Elements(g) \in DOMAIN Buffers /\ Array!Elements(g) # c
             /\ Array!Metadata(g)' = Array!Metadata(g)
  <2>1. Array!Elements(g)' = Array!Elements(g)
    BY <1>4, <1>7 DEF Array!Elements, Array!IsObject
  <2>2. Array!Elements(g) \in DOMAIN Buffers /\ Array!Elements(g) # c
    BY <1>1, <1>2, <1>3, <1>4, <1>7 DEF Array!Elements, Array!IsObject
  <2>3. Array!Metadata(g)' = Buffers'[Array!Elements(g)]
    BY <2>1 DEF Array!Metadata
  <2> QED
    BY <1>6, <2>1, <2>2, <2>3 DEF Array!Metadata
<1>8. Array!Elements(h)' = EmptyString /\ Array!Metadata(h)' = Array!EmptyArrayMetadata
  <2>1. Array!Elements(h)' = EmptyString
    BY <1>5 DEF Array!Elements, Array!IsObject
  <2> QED
    BY <1>2, <1>3, <1>6, <2>1 DEF Array!Metadata
<1>9. Array!TypeOK'
  <2>1. chars' \in [Handle -> (DOMAIN Buffers' \cup {NoObject})]
    BY <1>1, <1>4, <1>6
  <2>2. locks' \in [Handle -> 0..MaxLocks]
    BY <1>1, <1>2
  <2>3. DOMAIN Buffers' \subseteq Array!Pointer /\ \A a \in DOMAIN Buffers' : Buffers'[a] \in Array!Buffer
    BY <1>1, <1>6 DEF Array!Pointer
  <2> QED
    BY <2>1, <2>2, <2>3 DEF Array!TypeOK
<1>10. Array!RefsCountOwners'
  <2> SUFFICES ASSUME NEW a \in DOMAIN Buffers', a # EmptyString
               PROVE  /\ Array!Sharing(a)' # {}
                      /\ \/ /\ Buffers'[a].refs = Array!Cardinality(Array!Sharing(a)')
                            /\ \A g \in Array!Sharing(a)' : locks'[g] = 0
                         \/ \E g \in Array!Sharing(a)' : /\ Array!Sharing(a)' = {g}
                                                         /\ Buffers'[a].refs = 1 - locks'[g]
    BY DEF Array!RefsCountOwners
  <2>1. a \in DOMAIN Buffers /\ a # c /\ a \in Address /\ Buffers'[a] = Buffers[a]
    BY <1>1, <1>6
  <2>2. Array!Sharing(a)' = Array!Sharing(a) /\ h \notin Array!Sharing(a)
    BY <1>2, <1>4, <1>5, <2>1 DEF Array!Sharing
  <2>3. \A g \in Array!Sharing(a) : locks'[g] = locks[g]
    BY <1>4, <2>2 DEF Array!Sharing
  <2>4. /\ Array!Sharing(a) # {}
        /\ \/ /\ Buffers[a].refs = Array!Cardinality(Array!Sharing(a))
              /\ \A g \in Array!Sharing(a) : locks[g] = 0
           \/ \E g \in Array!Sharing(a) : /\ Array!Sharing(a) = {g}
                                          /\ Buffers[a].refs = 1 - locks[g]
    BY <2>1 DEF Array!IInv, Array!RefsCountOwners
  <2> QED
    BY <2>1, <2>2, <2>3, <2>4
<1>11. Array!LockIsOwn'
  <2> SUFFICES ASSUME NEW g \in Handle
               PROVE  Array!IsLocked(g)' <=> locks'[g] > 0
    BY DEF Array!LockIsOwn
  <2>1. CASE g = h
    BY <1>5, <1>8, <2>1 DEF Array!IsLocked, Array!EmptyArrayMetadata
  <2>2. CASE g # h
    BY <1>4, <1>7, <2>2 DEF Array!IsLocked, Array!IInv, Array!LockIsOwn
  <2> QED
    BY <2>1, <2>2
<1>12. Array!FitsCapacity' /\ Array!EmptyArrayIntact'
  BY <1>2, <1>3, <1>6 DEF Array!IInv, Array!FitsCapacity, Array!EmptyArrayIntact
<1>13. Array!LockedStay
  <2> SUFFICES ASSUME NEW g \in Handle, locks[g] > 0, locks'[g] > 0
               PROVE  chars'[g] = chars[g] /\ Buffers'[chars[g]].capacity = Buffers[chars[g]].capacity
    BY DEF Array!LockedStay
  <2>1. g # h
    BY <1>5
  <2>2. chars[g] \in Address
    BY ArrayAssumptions, Array!NoBufferNoLock
  <2> QED
    BY <1>1, <1>2, <1>4, <1>6, <2>1, <2>2
<1>14. Array!OthersUnchanged(h)
  BY <1>4, <1>7 DEF Array!OthersUnchanged, Array!Data
<1> QED
  BY <1>9, <1>10, <1>11, <1>12, <1>13, <1>14 DEF Array!IInv


\* The destructor of a string that is not locked is that of an array; the
\* destructor of one that is locked frees a buffer that only the string has.
LEMMA DestroyGoes ==
    ASSUME SInv, NEW h \in Handle, Destroy(h)
    PROVE  Gone(h)
<1>1. /\ Sound(heap) /\ Array!IInv /\ Array!VInv
      /\ chars \in [Handle -> DOMAIN Buffers \cup {NoObject}]
      /\ locks \in [Handle -> 0..MaxLocks]
  BY DEF SInv, Array!VInv, Array!IInv, Array!TypeOK
<1>2. PICK c : c = Chars(h)
  OBVIOUS
<1>3. /\ IsObject(h) /\ chars' = [chars EXCEPT ![h] = NoObject]
      /\ locks' = [locks EXCEPT ![h] = 0]
      /\ c = chars[h] /\ c = Array!Elements(h) /\ c \in DOMAIN heap /\ c \in DOMAIN Buffers
      /\ c # LiteralBuffer /\ Array!IsObject(h)
      /\ IsLocked(h) <=> Array!IsLocked(h)
  BY <1>2, ObjectFacts DEF Destroy
<1>4. chars'[h] = NoObject
  BY <1>1, <1>3
<1>5. /\ Array!VInv' /\ Array!LockedStay /\ Array!OthersUnchanged(h)
      /\ Sound(heap)' /\ \A x : SameNul(heap, heap', x)
  <2>1. CASE ~IsLocked(h)
    <3>1. heap' = DropRef(heap, c)
      BY <1>2, <2>1 DEF Destroy
    <3>2. /\ Buffers' = Array!Release(Buffers, c)
          /\ Sound(heap)' /\ \A x : SameNul(heap, heap', x)
      BY <1>1, <1>3, <3>1, DropRefFacts DEF Buffers
    <3>3. UNCHANGED locks
      <4>1. locks[h] = 0
        BY <1>1, <1>3, <2>1 DEF Array!IInv, Array!LockIsOwn
      <4> QED
        BY <1>1, <1>3, <4>1
    <3>4. Array!Destroy(h)
      BY <1>3, <2>1, <3>2, <3>3 DEF Array!Destroy
    <3>5. Array!VInv'
      BY <1>1, <3>4, ArrayAssumptions, Array!DestroyImplements
    <3>6. Array!LockedStay /\ Array!OthersUnchanged(h)
      BY <1>1, <1>3, <2>1, <3>2, <3>3, ArrayAssumptions, Array!LosingBuffer
    <3> QED
      BY <3>2, <3>5, <3>6
  <2>2. CASE IsLocked(h)
    <3>1. heap' = [x \in DOMAIN heap \ {c} |-> heap[x]]
      BY <1>2, <2>2 DEF Destroy, Free
    <3>2. Array!Sharing(c) = {h} /\ ~IsShared(h)
      BY <1>3, <2>2, LockedFacts
    <3>3. c \in Address /\ c # EmptyString
      BY <1>2, <3>2, OnlyOwner, PointerAssumption
    <3>4. Buffers' = [x \in DOMAIN Buffers \ {c} |-> Buffers[x]]
      BY <3>1 DEF Buffers, PlainHeap
    <3>5. Sound(heap)' /\ \A x : SameNul(heap, heap', x)
      BY <1>1, <1>3, <3>1, <3>3 DEF Sound, Static, SameNul
    <3>6. Array!IInv' /\ Array!LockedStay /\ Array!OthersUnchanged(h)
      BY <1>1, <1>3, <3>2, <3>3, <3>4, LosingLockedBuffer
    <3>7. Array!Short'
      <4> SUFFICES ASSUME NEW g \in Handle
                   PROVE  Array!Length(g)' <= MaxLength
        BY DEF Array!Short
      <4>1. CASE g = h
        <5>1. Array!Elements(g)' = EmptyString
          BY <1>4, <4>1 DEF Array!Elements, Array!IsObject
        <5>2. Buffers'[EmptyString] = Array!EmptyArrayMetadata
          BY <3>6 DEF Array!IInv, Array!EmptyArrayIntact
        <5>3. Array!Length(g)' = 0
          BY <5>1, <5>2 DEF Array!Length, Array!Metadata, Array!EmptyArrayMetadata
        <5> QED
          BY <5>3, BoundAssumption
      <4>2. CASE g # h
        <5>1. Array!Data(g)' = Array!Data(g)
          BY <3>6, <4>2 DEF Array!OthersUnchanged
        <5> QED
          BY <1>1, <5>1 DEF Array!VInv, Array!Short, Array!Length, Array!Data
      <4> QED
        BY <4>1, <4>2
    <3> QED
      BY <3>5, <3>6, <3>7 DEF Array!VInv
  <2> QED
    BY <2>1, <2>2
<1>6. Array!IInv'
  BY <1>5 DEF Array!VInv
<1>7. OthersKeepNul(h)
  BY <1>5, <1>6, NulsStay
<1>8. Terminated(h)'
  <2>1. Chars(h)' = EmptyString
    BY <1>4, <1>6, PointersAfter
  <2> QED
    BY <1>5, <2>1 DEF Terminated, Metadata, Sound, EmptyStringMetadata
<1> QED
  BY <1>4, <1>5, <1>7, <1>8 DEF Gone


-------------------------------------------------------------------------------
(* The sequences that the operations put together                            *)

\* extra_capacity() always leaves room to spare.
LEMMA ExtraCapacityIsMore ==
    ASSUME NEW n \in Nat
    PROVE  ExtraCapacity(n) \in Nat /\ ExtraCapacity(n) > n
<1>1. ExtraCapacity(n) = Array!ExtraCapacity(n)
  BY DEF ExtraCapacity, Array!ExtraCapacity
<1> QED
  BY <1>1, ArrayAssumptions, Array!ExtraCapacityIsMore

\* Their lengths are those of the sequences that arrays put together.
LEMMA EditedType ==
    ASSUME NEW s \in Seq(Char), NEW i \in 0..Len(s)
    PROVE  /\ Prefix(s, i) \in Seq(Char) /\ Len(Prefix(s, i)) = i
           /\ Rest(s, i) \in Seq(Char) /\ Len(Rest(s, i)) = Len(s) - i
           /\ \A t \in Seq(Char) :
                 /\ Replaced(s, i, t) \in Seq(Char)
                 /\ Len(Replaced(s, i, t)) = Larger(i + Len(t), Len(s))
                 /\ Inserted(s, i, t) \in Seq(Char)
                 /\ Len(Inserted(s, i, t)) = Len(s) + Len(t)
           /\ \A n \in 0..Len(s) - i :
                 Removed(s, i, n) \in Seq(Char) /\ Len(Removed(s, i, n)) = Len(s) - n
<1>1. /\ Prefix(s, i) \in Seq(Char) /\ Len(Prefix(s, i)) = i
      /\ Rest(s, i) \in Seq(Char) /\ Len(Rest(s, i)) = Len(s) - i
  <2>1. Prefix(s, i) = Array!Prefix(s, i) /\ Rest(s, i) = Array!Rest(s, i)
    BY DEF Prefix, Array!Prefix, Rest, Array!Rest
  <2> QED
    BY <2>1, ArrayAssumptions, Array!PrefixType, Array!RestType
<1>2. ASSUME NEW t \in Seq(Char)
      PROVE  /\ Replaced(s, i, t) \in Seq(Char)
             /\ Len(Replaced(s, i, t)) = Larger(i + Len(t), Len(s))
  <2>1. Replaced(s, i, t) = Array!Overwritten(s, i, t)
    BY DEF Replaced, Prefix, Rest, Array!Overwritten, Array!Prefix, Array!Rest
  <2>2. Larger(i + Len(t), Len(s)) = Array!Larger(i + Len(t), Len(s))
    BY DEF Larger, Array!Larger
  <2> QED
    BY <2>1, <2>2, ArrayAssumptions, Array!OverwrittenType
<1>3. ASSUME NEW t \in Seq(Char)
      PROVE  Inserted(s, i, t) \in Seq(Char) /\ Len(Inserted(s, i, t)) = Len(s) + Len(t)
  <2>1. Inserted(s, i, t) = Array!Inserted(s, i, t)
    BY DEF Inserted, Prefix, Rest, Array!Inserted, Array!Prefix, Array!Rest
  <2> QED
    BY <2>1, ArrayAssumptions, Array!InsertedType
<1>4. ASSUME NEW n \in 0..Len(s) - i
      PROVE  Removed(s, i, n) \in Seq(Char) /\ Len(Removed(s, i, n)) = Len(s) - n
  <2>1. Removed(s, i, n) = Array!Removed(s, i, n)
    BY DEF Removed, Prefix, Rest, Array!Removed, Array!Prefix, Array!Rest
  <2> QED
    BY <2>1, ArrayAssumptions, Array!RemovedType
<1> QED
  BY <1>1, <1>2, <1>3, <1>4

\* What is copied from outside has some characters, and no more than the bound.
LEMMA SourceFacts ==
    /\ \A s \in Source : s \in Seq(Char) /\ Len(s) \in 1..MaxLength
    /\ \A s \in Seq(Char) : Len(s) > 0 /\ Len(s) <= MaxLength => s \in Source
<1>1. ASSUME NEW s \in Source
      PROVE  s \in Seq(Char) /\ Len(s) \in 1..MaxLength
  <2>1. PICK n \in 1..MaxLength : s \in [1..n -> Char]
    BY DEF Source
  <2>2. n \in Nat
    BY <2>1, BoundAssumption
  <2>3. s \in Seq(Char)
    BY <2>1, <2>2
  <2>4. Len(s) = n
    BY <2>1, <2>2, <2>3, LenProperties
  <2> QED
    BY <2>3, <2>4
<1>2. ASSUME NEW s \in Seq(Char), Len(s) > 0, Len(s) <= MaxLength
      PROVE  s \in Source
  <2>1. s \in [1..Len(s) -> Char] /\ Len(s) \in Nat
    BY LenProperties
  <2>2. Len(s) \in 1..MaxLength
    BY <1>2, <2>1, BoundAssumption
  <2> QED
    BY <2>1, <2>2 DEF Source
<1> QED
  BY <1>1, <1>2

\* A string joined to another
LEMMA JoinedType ==
    ASSUME NEW s \in Seq(Char), NEW t \in Seq(Char)
    PROVE  s \o t \in Seq(Char) /\ Len(s \o t) = Len(s) + Len(t)
BY ConcatProperties

-------------------------------------------------------------------------------
(* The operations.  Each gives one string what it should, and leaves a NUL    *)
(* after it unless it is one of those that may lose it.                       *)

Changes(h) ==
    \E s, t : Gives(h, s, t) /\ (Terminated(h) /\ ~t => MayLoseTerminator(h))

\* It is enough that there is a NUL, or that it has not been touched.
LEMMA KeepsNul ==
    ASSUME NEW h, NEW s, Gives(h, s, TRUE) \/ Gives(h, s, Terminated(h))
    PROVE  Changes(h)
BY DEF Changes

\* clear()
LEMMA EmptyGives ==
    ASSUME SInv, NEW h \in Handle, Empty(h), UNCHANGED locks
    PROVE  Gives(h, << >>, TRUE)
<1>1. CASE ~IsShared(h) /\ WriteInPlace(h, << >>, TRUE)
  <2>1. PICK s : s = << >>
    OBVIOUS
  <2>2. s \in Seq(Char) /\ Len(s) = 0
    BY <2>1, EmptySeq
  <2>3. Len(s) <= Capacity(h) /\ Len(s) <= MaxLength
    BY <2>2, OperandFacts, BoundAssumption DEF Operand
  <2>4. Gives(h, s, TRUE)
    BY <1>1, <2>1, <2>2, <2>3, WriteGives
  <2> QED
    BY <2>1, <2>4
<1>2. CASE ReplaceBuffer(heap, h, EmptyString)
  BY <1>2, LosingGives DEF Turned, ReplaceBuffer
<1> QED
  BY <1>1, <1>2 DEF Empty

\* assign() from memory outside the string
LEMMA AssignSequenceGives ==
    ASSUME SInv, NEW h \in Handle, NEW s \in Seq(Char), Len(s) <= MaxLength,
           AssignSequence(h, s), UNCHANGED locks
    PROVE  Gives(h, s, TRUE)
<1>1. Len(s) \in Nat
  BY LenProperties
<1>2. PICK n : n = ExtraCapacity(Len(s))
  OBVIOUS
<1>3. n \in Nat /\ Len(s) <= n
  BY <1>1, <1>2, ExtraCapacityIsMore
<1>4. CASE s = << >> /\ Empty(h)
  BY <1>4, EmptyGives
<1>5. CASE ~IsShared(h) /\ Len(s) <= Capacity(h) /\ WriteInPlace(h, s, TRUE)
  BY <1>5, WriteGives
<1>6. CASE DiscardAndAlloc(h, n, s)
  BY <1>3, <1>6, DiscardGives
<1> QED
  BY <1>2, <1>4, <1>5, <1>6 DEF AssignSequence

\* assign() from another string or a literal
LEMMA AssignStringChanges ==
    ASSUME SInv, NEW h \in Handle, NEW g \in Operand, IsObject(g), AssignString(h, g), UNCHANGED locks
    PROVE  Changes(h)
<1>1. CASE /\ ~IsLocked(h) /\ ~IsLocked(g)
           /\ ReplaceBuffer(AddRef(heap, Chars(g)), h, Chars(g))
  <2>1. g \in Handle
    BY <1>1, OperandFacts DEF Operand
  <2>2. Gives(h, Data(g), Terminated(g)) /\ chars'[h] = chars[g]
    BY <1>1, <2>1, ShareGives
  <2>3. ~Terminated(g) => MayLoseTerminator(h)
    BY <2>1, <2>2 DEF MayLoseTerminator
  <2> QED
    BY <2>2, <2>3 DEF Changes
<1>2. CASE AssignSequence(h, Data(g))
  BY <1>2, OperandFacts, AssignSequenceGives, KeepsNul
<1> QED
  BY <1>1, <1>2 DEF AssignString

\* Constructors and assignments
LEMMA AssignmentsChange ==
    ASSUME SInv, NEW h \in Handle
    PROVE  /\ Construct(h) \/ Clear(h) => Changes(h)
           /\ \A g \in Operand : CopyConstruct(h, g) \/ Assign(h, g) => Changes(h)
           /\ \A s \in Source : ConstructFrom(h, s) \/ AssignFrom(h, s) => Changes(h)
<1>1. Construct(h) => Changes(h)
  BY ConstructGives, KeepsNul DEF Construct
<1>2. Clear(h) => Changes(h)
  BY EmptyGives, KeepsNul DEF Clear
<1>3. \A g \in Operand : CopyConstruct(h, g) \/ Assign(h, g) => Changes(h)
  BY AssignStringChanges DEF CopyConstruct, Assign
<1>4. ASSUME NEW s \in Source
      PROVE  ConstructFrom(h, s) \/ AssignFrom(h, s) => Changes(h)
  <2>1. s \in Seq(Char) /\ Len(s) <= MaxLength
    BY SourceFacts, BoundAssumption
  <2> QED
    BY <2>1, AssignSequenceGives, KeepsNul DEF ConstructFrom, AssignFrom
<1> QED
  BY <1>1, <1>2, <1>3, <1>4


\* isolate(), and a write of no more than there was
LEMMA IsolateGives ==
    ASSUME SInv, NEW h \in Handle, NEW s \in Seq(Char), Len(s) = Length(h), NEW t \in BOOLEAN,
           IsolateAndWrite(h, s, t), UNCHANGED locks
    PROVE  Gives(h, s, t)
<1>1. PICK n : n = ExtraCapacity(Length(h))
  OBVIOUS
<1>2. /\ Len(s) \in Nat /\ Len(s) <= MaxLength /\ Len(s) <= Capacity(h)
  BY OperandFacts DEF Operand
<1>3. n \in Nat /\ Len(s) <= n
  BY <1>1, <1>2, ExtraCapacityIsMore
<1>4. CASE IsShared(h) /\ Reallocate(h, NewBuffer(n, s, t))
  BY <1>2, <1>3, <1>4, ReallocateGives
<1>5. CASE ~IsShared(h) /\ WriteInPlace(h, s, t)
  BY <1>2, <1>5, WriteGives
<1> QED
  BY <1>1, <1>4, <1>5 DEF IsolateAndWrite

\* A write through a reference, or in a locked string where there is room
LEMMA SetCharChanges ==
    ASSUME SInv, NEW h \in Handle, NEW i \in Nat, NEW c \in Char, SetChar(h, i, c)
    PROVE  Changes(h)
<1>1. PICK s, d : d = Data(h) /\ s = [d EXCEPT ![i + 1] = c]
  OBVIOUS
<1>2. /\ d \in Seq(Char) /\ Length(h) = Len(d) /\ Len(d) \in Nat /\ Terminated(h) \in BOOLEAN
      /\ Len(d) <= Capacity(h) /\ Len(d) <= MaxLength
  BY <1>1, OperandFacts DEF Operand
<1>3. UNCHANGED locks
  BY DEF SetChar
<1>4. CASE i < Length(h) /\ IsolateAndWrite(h, s, Terminated(h))
  <2>1. i + 1 \in 1..Len(d)
    BY <1>2, <1>4
  <2>2. s \in Seq(Char) /\ Len(s) = Len(d)
    BY <1>1, <1>2, <2>1, ExceptSeq
  <2> QED
    BY <1>2, <1>3, <1>4, <2>2, IsolateGives, KeepsNul
<1>5. CASE IsLocked(h) /\ WriteInPlace(h, d, Terminated(h) /\ i # Length(h))
  <2>1. PICK t \in BOOLEAN : t = (Terminated(h) /\ i # Length(h))
    OBVIOUS
  <2>2. ~IsShared(h) /\ Metadata(h) \in Buffer /\ Metadata(h) = heap[Chars(h)]
    BY <1>5, LockedFacts
  <2>3. Gives(h, d, t)
    BY <1>2, <1>3, <1>5, <2>1, <2>2, WriteGives
  <2>4. IsLocked(h)'
    <3>1. chars' = chars /\ heap' = [heap EXCEPT ![Chars(h)].data = d, ![Chars(h)].terminated = t]
      BY <1>5, <2>1 DEF WriteInPlace
    <3>2. Chars(h)' = Chars(h) /\ Chars(h) \in DOMAIN heap
      BY <3>1, ObjectFacts DEF Chars, IsObject
    <3>3. heap'[Chars(h)].refs = heap[Chars(h)].refs
      BY <2>2, <3>1, <3>2 DEF Buffer
    <3> QED
      BY <1>5, <3>2, <3>3 DEF IsLocked, Metadata
  <2> QED
    BY <1>5, <2>3, <2>4 DEF Changes, MayLoseTerminator
<1> QED
  BY <1>1, <1>4, <1>5 DEF SetChar

\* lock() and unlock()
LEMMA LocksChange ==
    ASSUME SInv, NEW h \in Handle
    PROVE  /\ Lock(h) \/ Unlock(h) \/ UnlockWithLength(h, << >>) => Changes(h)
           /\ \A s \in Source : UnlockWithLength(h, s) => Changes(h)
<1>1. Lock(h) => Changes(h)
  BY LockGives, KeepsNul
<1>2. Unlock(h) => Changes(h)
  BY UnlockGives, KeepsNul
<1>3. UnlockWithLength(h, << >>) => Changes(h)
  <2>1. PICK s : s = << >>
    OBVIOUS
  <2>2. s \in Seq(Char) /\ Len(s) <= MaxLength
    BY <2>1, EmptySeq, BoundAssumption
  <2> QED
    BY <2>1, <2>2, UnlockWithLengthGives, KeepsNul
<1>4. ASSUME NEW s \in Source, UnlockWithLength(h, s)
      PROVE  Changes(h)
  <2>1. s \in Seq(Char) /\ Len(s) <= MaxLength
    BY SourceFacts, BoundAssumption
  <2> QED
    BY <1>4, <2>1, UnlockWithLengthGives, KeepsNul
<1> QED
  BY <1>1, <1>2, <1>3, <1>4

\* The characters of a string that is repeated
LEMMA RepeatedType ==
    ASSUME NEW s \in Seq(Char), NEW times \in Nat, Len(s) * times > 0, NEW r,
           r = [k \in 1..(Len(s) * times) |-> s[((k - 1) % Len(s)) + 1]]
    PROVE  r \in Seq(Char) /\ Len(r) = Len(s) * times
<1>1. PICK m, n : m = Len(s) /\ n = m * times
  OBVIOUS
<1>2. m \in Nat /\ n > 0
  BY <1>1
<1>3. m > 0
  <2>1. m = 0 => m * times = 0
    OBVIOUS
  <2> QED
    BY <1>1, <1>2, <2>1
<1>4. n \in Nat
  BY <1>1, <1>2
<1>5. \A k \in 1..n : ((k - 1) % m) + 1 \in 1..m
  BY <1>2, <1>3, <1>4
<1>6. \A k \in 1..m : s[k] \in Char
  BY <1>1, ElementOfSeq
<1>7. r \in [1..n -> Char]
  BY <1>1, <1>5, <1>6
<1>8. r \in Seq(Char) /\ Len(r) = n
  BY <1>4, <1>7, LenProperties
<1> QED
  BY <1>1, <1>8

\* repeat() shares the buffer, or fills one of its own.
LEMMA RepeatChanges ==
    ASSUME SInv, NEW h \in Handle, NEW g \in Operand, NEW times \in Nat, Repeat(h, g, times)
    PROVE  Changes(h)
<1>1. PICK s, n, r : /\ s = Data(g) /\ n = Len(s) * times
                     /\ r = [k \in 1..(Len(s) * times) |-> s[((k - 1) % Len(s)) + 1]]
  OBVIOUS
<1>2. s \in Seq(Char) /\ Length(g) = Len(s) /\ Len(s) \in Nat /\ n \in Nat /\ n <= MaxLength
  BY <1>1, OperandFacts DEF Repeat
<1>3. ~IsObject(h) /\ IsObject(g) /\ UNCHANGED locks
  BY DEF Repeat
<1>4. CASE AssignString(h, g)
  BY <1>3, <1>4, AssignStringChanges
<1>5. CASE chars' = [chars EXCEPT ![h] = EmptyString] /\ UNCHANGED heap
  BY <1>3, <1>5, ConstructGives, KeepsNul
<1>6. CASE n > 0 /\ Reallocate(h, NewBuffer(ExtraCapacity(n), r, TRUE))
  <2>1. r \in Seq(Char) /\ Len(r) = n
    BY <1>1, <1>2, <1>6, RepeatedType
  <2>2. ExtraCapacity(n) \in Nat /\ ExtraCapacity(n) > n
    BY <1>2, ExtraCapacityIsMore
  <2>3. Gives(h, r, TRUE)
    <3>1. PICK room : room = ExtraCapacity(n)
      OBVIOUS
    <3>2. room \in Nat /\ Len(r) <= room /\ Len(r) <= MaxLength
      BY <1>2, <2>1, <2>2, <3>1
    <3> QED
      BY <1>3, <1>6, <2>1, <3>1, <3>2, ReallocateGives
  <2> QED
    BY <2>3, KeepsNul
<1> QED
  BY <1>1, <1>2, <1>4, <1>5, <1>6 DEF Repeat


\* replace() may lose the NUL, and is named among the operations that do.
LEMMA ReplaceChanges ==
    ASSUME SInv, NEW h \in Handle, NEW i \in Index, NEW s \in Source, Replace(h, i, s)
    PROVE  Changes(h)
<1>1. PICK d, r, end, room : /\ d = Data(h) /\ r = Replaced(d, i, s)
                             /\ end = i + Len(s)
                             /\ room = ExtraCapacity(Larger(end, Length(h)))
  OBVIOUS
<1>2. /\ d \in Seq(Char) /\ Length(h) = Len(d) /\ Len(d) \in Nat /\ Terminated(h) \in BOOLEAN
      /\ Len(d) <= Capacity(h) /\ Len(d) <= MaxLength
      /\ i \in 0..Len(d) /\ s \in Seq(Char) /\ Len(s) \in Nat
  BY <1>1, OperandFacts, SourceFacts, BoundAssumption DEF Operand, Index, Replace
<1>3. /\ r \in Seq(Char) /\ Len(r) = Larger(end, Len(d))
      /\ Larger(end, Len(d)) \in Nat
  <2>1. r \in Seq(Char) /\ Len(r) = Larger(i + Len(s), Len(d))
    BY <1>1, <1>2, EditedType
  <2>2. Larger(end, Len(d)) \in Nat
    BY <1>1, <1>2 DEF Larger
  <2> QED
    BY <1>1, <2>1, <2>2
<1>4. room \in Nat /\ Len(r) <= room
  BY <1>1, <1>2, <1>3, ExtraCapacityIsMore
<1>5. /\ UNCHANGED locks /\ end <= MaxLength
      /\ \/ \E nul \in BOOLEAN : Reallocate(h, NewBuffer(room, r, nul))
         \/ end <= Capacity(h) /\ ~IsShared(h) /\ WriteInPlace(h, r, end > Length(h) \/ Terminated(h))
  BY <1>1 DEF Replace
<1>6. Len(r) <= MaxLength
  BY <1>2, <1>3, <1>5 DEF Larger
<1>7. \E t : Gives(h, r, t)
  <2>1. CASE \E nul \in BOOLEAN : Reallocate(h, NewBuffer(room, r, nul))
    BY <1>3, <1>4, <1>5, <1>6, <2>1, ReallocateGives
  <2>2. CASE end <= Capacity(h) /\ ~IsShared(h) /\ WriteInPlace(h, r, end > Length(h) \/ Terminated(h))
    <3>1. PICK t \in BOOLEAN : t = (end > Length(h) \/ Terminated(h))
      OBVIOUS
    <3>2. Len(r) <= Capacity(h)
      BY <1>2, <1>3, <2>2 DEF Larger
    <3> QED
      BY <1>3, <1>5, <1>6, <2>2, <3>1, <3>2, WriteGives
  <2> QED
    BY <1>5, <2>1, <2>2
<1> QED
  BY <1>7 DEF Changes, MayLoseTerminator

\* insert() as well
LEMMA InsertChanges ==
    ASSUME SInv, NEW h \in Handle, NEW i \in Index, NEW s \in Source, Insert(h, i, s)
    PROVE  Changes(h)
<1>1. PICK d, r, size, room : /\ d = Data(h) /\ r = Inserted(d, i, s)
                              /\ size = Length(h) + Len(s)
                              /\ room = ExtraCapacity(size)
  OBVIOUS
<1>2. /\ d \in Seq(Char) /\ Length(h) = Len(d) /\ Len(d) \in Nat /\ Terminated(h) \in BOOLEAN
      /\ i \in 0..Len(d) /\ s \in Seq(Char) /\ Len(s) \in Nat
  BY <1>1, OperandFacts, SourceFacts, BoundAssumption DEF Operand, Index, Insert
<1>3. r \in Seq(Char) /\ Len(r) = size /\ size \in Nat
  BY <1>1, <1>2, EditedType
<1>4. room \in Nat /\ Len(r) <= room
  BY <1>1, <1>3, ExtraCapacityIsMore
<1>5. /\ UNCHANGED locks /\ size <= MaxLength
      /\ \/ Reallocate(h, NewBuffer(room, r, Terminated(h)))
         \/ /\ size <= Capacity(h) /\ ~IsShared(h)
            /\ \E nul \in BOOLEAN : WriteInPlace(h, r, nul)
  BY <1>1 DEF Insert
<1>6. \E t : Gives(h, r, t)
  <2>1. CASE Reallocate(h, NewBuffer(room, r, Terminated(h)))
    BY <1>2, <1>3, <1>4, <1>5, <2>1, ReallocateGives
  <2>2. CASE /\ size <= Capacity(h) /\ ~IsShared(h)
             /\ \E nul \in BOOLEAN : WriteInPlace(h, r, nul)
    BY <1>3, <1>5, <2>2, WriteGives
  <2> QED
    BY <1>5, <2>1, <2>2
<1> QED
  BY <1>6 DEF Changes, MayLoseTerminator

\* insert() of another string is that of its characters.
LEMMA InsertStringChanges ==
    ASSUME SInv, NEW h \in Handle, NEW i \in Index, NEW g \in Operand, InsertString(h, i, g)
    PROVE  Changes(h)
<1>1. Data(g) \in Source
  BY OperandFacts, SourceFacts DEF InsertString
<1> QED
  BY <1>1, InsertChanges DEF InsertString

\* What is appended or written anew is followed by a NUL.
LEMMA StoreGives ==
    ASSUME SInv, NEW h \in Handle, NEW s \in Seq(Char), Len(s) <= MaxLength, UNCHANGED locks,
           NEW room \in Nat, Len(s) <= room, NEW t \in BOOLEAN,
           \/ Reallocate(h, NewBuffer(room, s, t))
           \/ ~IsShared(h) /\ Len(s) <= Capacity(h) /\ WriteInPlace(h, s, t)
    PROVE  Gives(h, s, t)
BY ReallocateGives, WriteGives

\* append() leaves the old characters and the new ones.
LEMMA GrowGives ==
    ASSUME SInv, NEW h \in Handle, NEW s \in Seq(Char), Grow(h, s), UNCHANGED locks
    PROVE  Gives(h, Data(h) \o s, TRUE)
<1>1. PICK d, r, size, room : /\ d = Data(h) /\ r = d \o s
                              /\ size = Length(h) + Len(s)
                              /\ room = ExtraCapacity(size)
  OBVIOUS
<1>2. d \in Seq(Char) /\ Length(h) = Len(d) /\ Len(d) \in Nat /\ Len(s) \in Nat
  BY <1>1, OperandFacts, LenProperties DEF Operand
<1>3. r \in Seq(Char) /\ Len(r) = size /\ size \in Nat
  BY <1>1, <1>2, JoinedType
<1>4. room \in Nat /\ Len(r) <= room
  BY <1>1, <1>3, ExtraCapacityIsMore
<1>5. /\ size <= MaxLength
      /\ \/ Reallocate(h, NewBuffer(room, r, TRUE))
         \/ ~IsShared(h) /\ size <= Capacity(h) /\ WriteInPlace(h, r, TRUE)
  BY <1>1 DEF Grow
<1>6. Gives(h, r, TRUE)
  BY <1>3, <1>4, <1>5, StoreGives
<1> QED
  BY <1>1, <1>6

\* append(), and operator+ with a character in front
LEMMA AppendingChanges ==
    ASSUME SInv, NEW h \in Handle
    PROVE  /\ \A s \in Source : AppendChars(h, s) => Changes(h)
           /\ \A g \in Operand : AppendString(h, g) => Changes(h)
           /\ \A g \in Operand, c \in Char : Prepend(h, c, g) => Changes(h)
<1>1. ASSUME NEW s \in Source, AppendChars(h, s)
      PROVE  Changes(h)
  BY <1>1, SourceFacts, GrowGives, KeepsNul DEF AppendChars
<1>2. ASSUME NEW g \in Operand, AppendString(h, g)
      PROVE  Changes(h)
  BY <1>2, OperandFacts, GrowGives, KeepsNul DEF AppendString
<1>3. ASSUME NEW g \in Operand, NEW c \in Char, Prepend(h, c, g)
      PROVE  Changes(h)
  <2>1. PICK d, r, room : d = Data(g) /\ r = << c >> \o d /\ room = ExtraCapacity(Length(g) + 1)
    OBVIOUS
  <2>2. d \in Seq(Char) /\ Length(g) = Len(d) /\ Len(d) \in Nat
    BY <2>1, OperandFacts
  <2>3. << c >> \in Seq(Char) /\ Len(<< c >>) = 1
    OBVIOUS
  <2>4. r \in Seq(Char) /\ Len(r) = Len(d) + 1
    <3>1. PICK t : t = << c >>
      OBVIOUS
    <3>2. t \in Seq(Char) /\ Len(t) = 1 /\ r = t \o d
      BY <2>1, <2>3, <3>1
    <3>3. t \o d \in Seq(Char) /\ Len(t \o d) = Len(t) + Len(d)
      BY <2>2, <3>2, JoinedType
    <3> QED
      BY <2>2, <3>2, <3>3
  <2>5. room \in Nat /\ Len(r) <= room
    BY <2>1, <2>2, <2>4, ExtraCapacityIsMore
  <2>6. UNCHANGED locks /\ Reallocate(h, NewBuffer(room, r, TRUE))
    BY <1>3, <2>1 DEF Prepend
  <2>7. Len(r) <= MaxLength
    BY <1>3, <2>2, <2>4, BoundAssumption DEF Prepend
  <2>8. Gives(h, r, TRUE)
    BY <2>4, <2>5, <2>6, <2>7, ReallocateGives
  <2> QED
    BY <2>8, KeepsNul
<1> QED
  BY <1>1, <1>2, <1>3


\* operator+ makes a new string, whichever buffer it takes.
LEMMA ConcatenateChanges ==
    ASSUME SInv, NEW h \in Handle, NEW a \in Operand, NEW b \in Operand, Concatenate(h, a, b)
    PROVE  Changes(h)
<1>1. PICK r, size, room, extra : /\ r = Data(a) \o Data(b)
                                  /\ size = Length(a) + Length(b)
                                  /\ room = ExtraCapacity(Length(a))
                                  /\ extra = ExtraCapacity(size)
  OBVIOUS
<1>2. /\ Data(a) \in Seq(Char) /\ Length(a) = Len(Data(a)) /\ Len(Data(a)) \in Nat
      /\ Data(b) \in Seq(Char) /\ Length(b) = Len(Data(b)) /\ Len(Data(b)) \in Nat
  BY OperandFacts
<1>3. r \in Seq(Char) /\ Len(r) = size /\ size \in Nat
  <2>1. Data(a) \o Data(b) \in Seq(Char) /\ Len(Data(a) \o Data(b)) = Len(Data(a)) + Len(Data(b))
    BY <1>2, JoinedType
  <2> QED
    BY <1>1, <1>2, <2>1
<1>4. room \in Nat /\ extra \in Nat /\ size <= extra
  BY <1>1, <1>2, <1>3, ExtraCapacityIsMore
<1>5. /\ UNCHANGED locks /\ size <= MaxLength /\ IsObject(a)
      /\ \/ AssignString(h, a)
         \/ size <= room /\ Reallocate(h, NewBuffer(room, r, TRUE))
         \/ Reallocate(h, NewBuffer(extra, r, TRUE))
  BY <1>1 DEF Concatenate
<1>6. CASE AssignString(h, a)
  BY <1>5, <1>6, AssignStringChanges
<1>7. CASE size <= room /\ Reallocate(h, NewBuffer(room, r, TRUE))
  BY <1>3, <1>4, <1>5, <1>7, ReallocateGives, KeepsNul
<1>8. CASE Reallocate(h, NewBuffer(extra, r, TRUE))
  BY <1>3, <1>4, <1>5, <1>8, ReallocateGives, KeepsNul
<1> QED
  BY <1>5, <1>6, <1>7, <1>8

\* append_formatted() and format()
LEMMA FormattingChanges ==
    ASSUME SInv, NEW h \in Handle, NEW s \in Source
    PROVE  AppendFormatted(h, s) \/ Format(h, s) => Changes(h)
<1>1. s \in Seq(Char) /\ Len(s) \in Nat /\ Len(s) <= MaxLength
  BY SourceFacts, BoundAssumption
<1>2. ASSUME AppendFormatted(h, s)
      PROVE  Changes(h)
  <2>1. PICK d, r, size, room : /\ d = Data(h) /\ r = d \o s
                                /\ size = Length(h) + Len(s)
                                /\ room = ExtraCapacity(size)
    OBVIOUS
  <2>2. d \in Seq(Char) /\ Length(h) = Len(d) /\ Len(d) \in Nat
    BY <2>1, OperandFacts DEF Operand
  <2>3. r \in Seq(Char) /\ Len(r) = size /\ size \in Nat
    BY <1>1, <2>1, <2>2, JoinedType
  <2>4. room \in Nat /\ Len(r) <= room
    BY <2>1, <2>3, ExtraCapacityIsMore
  <2>5. /\ UNCHANGED locks /\ size <= MaxLength
        /\ \/ Reallocate(h, NewBuffer(room, r, TRUE))
           \/ Capacity(h) = room /\ ~IsShared(h) /\ WriteInPlace(h, r, TRUE)
    BY <1>2, <2>1 DEF AppendFormatted
  <2>6. Gives(h, r, TRUE)
    BY <2>3, <2>4, <2>5, StoreGives
  <2> QED
    BY <2>6, KeepsNul
<1>3. ASSUME Format(h, s)
      PROVE  Changes(h)
  <2>1. PICK room : room = ExtraCapacity(Len(s))
    OBVIOUS
  <2>2. room \in Nat /\ Len(s) <= room
    BY <1>1, <2>1, ExtraCapacityIsMore
  <2>3. /\ UNCHANGED locks
        /\ \/ Reallocate(h, NewBuffer(room, s, TRUE))
           \/ Capacity(h) = room /\ ~IsShared(h) /\ WriteInPlace(h, s, TRUE)
    BY <1>3, <2>1 DEF Format
  <2>4. Gives(h, s, TRUE)
    BY <1>1, <2>2, <2>3, StoreGives
  <2> QED
    BY <2>4, KeepsNul
<1> QED
  BY <1>2, <1>3

\* A string that is shortened gets a new buffer or keeps the one it has.
LEMMA ShortenedGives ==
    ASSUME SInv, NEW h \in Handle, NEW s \in Seq(Char), Len(s) <= Length(h), UNCHANGED locks,
           NEW room, room = ExtraCapacity(Len(s)), NEW t \in BOOLEAN,
           \/ Reallocate(h, NewBuffer(room, s, t))
           \/ ~IsShared(h) /\ WriteInPlace(h, s, t)
    PROVE  Gives(h, s, t)
<1>1. Len(s) \in Nat /\ Length(h) \in Nat /\ Length(h) <= Capacity(h) /\ Length(h) <= MaxLength
      /\ Capacity(h) \in Nat
  BY OperandFacts, LenProperties DEF Operand
<1>2. room \in Nat /\ Len(s) <= room
  <2>1. ExtraCapacity(Len(s)) \in Nat /\ ExtraCapacity(Len(s)) > Len(s)
    BY <1>1, ExtraCapacityIsMore
  <2> QED
    BY <1>1, <2>1
<1>3. Len(s) <= MaxLength /\ Len(s) <= Capacity(h)
  BY <1>1, BoundAssumption
<1> QED
  BY <1>2, <1>3, StoreGives

\* remove()
LEMMA RemoveChanges ==
    ASSUME SInv, NEW h \in Handle, NEW i \in Index, NEW n \in Index, Remove(h, i, n)
    PROVE  Changes(h)
<1>1. PICK d, count, r : /\ d = Data(h)
                         /\ count = IF i + n > Length(h) THEN Length(h) - i ELSE n
                         /\ r = Removed(d, i, count)
  OBVIOUS
<1>2. /\ d \in Seq(Char) /\ Length(h) = Len(d) /\ Len(d) \in Nat /\ Terminated(h) \in BOOLEAN
      /\ i \in 0..Len(d) /\ n \in Nat
  BY <1>1, OperandFacts, BoundAssumption DEF Operand, Index, Remove
<1>3. count \in 0..Len(d) - i
  BY <1>1, <1>2
<1>4. r \in Seq(Char) /\ Len(r) = Len(d) - count
  BY <1>1, <1>2, <1>3, EditedType
<1>5. Len(r) <= Length(h)
  BY <1>2, <1>3, <1>4
<1>6. PICK room : room = ExtraCapacity(Len(r))
  OBVIOUS
<1>7. /\ UNCHANGED locks
      /\ \/ Reallocate(h, NewBuffer(room, r, Terminated(h)))
         \/ ~IsShared(h) /\ WriteInPlace(h, r, Terminated(h))
  BY <1>1, <1>6 DEF Remove
<1>8. Gives(h, r, Terminated(h))
  BY <1>2, <1>4, <1>5, <1>6, <1>7, ShortenedGives
<1> QED
  BY <1>8, KeepsNul

\* truncate() and the functions that trim a string
LEMMA TrimmingChanges ==
    ASSUME SInv, NEW h \in Handle, NEW i \in Index
    PROVE  Truncate(h, i) \/ TrimRight(h, i) \/ TrimLeft(h, i) => Changes(h)
<1>1. PICK d : d = Data(h)
  OBVIOUS
<1>2. /\ d \in Seq(Char) /\ Length(h) = Len(d) /\ Len(d) \in Nat /\ Terminated(h) \in BOOLEAN
      /\ i \in Nat
  BY <1>1, OperandFacts, BoundAssumption DEF Operand, Index
<1>3. ASSUME Truncate(h, i)
      PROVE  Changes(h)
  <2>1. PICK r, room : r = Prefix(d, i) /\ room = ExtraCapacity(i)
    OBVIOUS
  <2>2. i < Length(h) /\ i \in 0..Len(d)
    BY <1>2, <1>3 DEF Truncate
  <2>3. r \in Seq(Char) /\ Len(r) = i
    BY <1>2, <2>1, <2>2, EditedType
  <2>4. /\ UNCHANGED locks
        /\ \/ Reallocate(h, NewBuffer(room, r, TRUE))
           \/ ~IsShared(h) /\ WriteInPlace(h, r, TRUE)
    BY <1>1, <1>3, <2>1 DEF Truncate
  <2>5. room = ExtraCapacity(Len(r)) /\ Len(r) <= Length(h)
    BY <1>2, <2>1, <2>2, <2>3
  <2>6. Gives(h, r, TRUE)
    BY <2>3, <2>4, <2>5, ShortenedGives
  <2> QED
    BY <2>6, KeepsNul
<1>4. ASSUME TrimLeft(h, i)
      PROVE  Changes(h)
  <2>1. PICK r : r = Rest(d, i)
    OBVIOUS
  <2>2. PICK room : room = ExtraCapacity(Len(r))
    OBVIOUS
  <2>3. i \in 0..Len(d)
    BY <1>2, <1>4 DEF TrimLeft
  <2>4. r \in Seq(Char) /\ Len(r) = Len(d) - i
    BY <1>2, <2>1, <2>3, EditedType
  <2>5. Len(r) <= Length(h)
    BY <1>2, <2>4
  <2>6. /\ UNCHANGED locks
        /\ \/ Reallocate(h, NewBuffer(room, r, TRUE))
           \/ ~IsShared(h) /\ WriteInPlace(h, r, Terminated(h))
    BY <1>1, <1>4, <2>1, <2>2 DEF TrimLeft
  <2>7. Gives(h, r, TRUE) \/ Gives(h, r, Terminated(h))
    BY <1>2, <2>2, <2>4, <2>5, <2>6, ShortenedGives
  <2> QED
    BY <2>7, KeepsNul
<1> QED
  BY <1>3, <1>4 DEF TrimRight


\* A copy that takes fewer characters than there are leaves the NUL behind.
LEMMA AllocAndCopyChanges ==
    ASSUME SInv, NEW h \in Handle, NEW n \in Nat, AllocAndCopy(h, n)
    PROVE  Changes(h)
<1>1. PICK d, length : d = Data(h) /\ length = Smaller(Length(h), n)
  OBVIOUS
<1>2. PICK r, t : r = Prefix(d, length) /\ t = (Terminated(h) /\ length = Length(h))
  OBVIOUS
<1>3. /\ d \in Seq(Char) /\ Length(h) = Len(d) /\ Len(d) \in Nat /\ Len(d) <= MaxLength
      /\ Terminated(h) \in BOOLEAN
  BY <1>1, OperandFacts DEF Operand
<1>4. length \in 0..Len(d) /\ length <= n /\ (length # Len(d) => n < Len(d))
  BY <1>1, <1>3 DEF Smaller
<1>5. r \in Seq(Char) /\ Len(r) = length /\ t \in BOOLEAN
  BY <1>2, <1>3, <1>4, EditedType
<1>6. /\ UNCHANGED locks
      /\ \/ Reallocate(h, NewBuffer(n, r, t))
         \/ ReplaceBuffer(heap, h, EmptyString)
  BY <1>1, <1>2 DEF AllocAndCopy
<1>7. CASE ReplaceBuffer(heap, h, EmptyString)
  BY <1>6, <1>7, LosingGives, KeepsNul DEF Turned, ReplaceBuffer
<1>8. CASE Reallocate(h, NewBuffer(n, r, t))
  <2>1. Len(r) <= n /\ Len(r) <= MaxLength
    BY <1>3, <1>4, <1>5, BoundAssumption
  <2>2. Gives(h, r, t)
    BY <1>5, <1>6, <1>8, <2>1, ReallocateGives
  <2>3. Terminated(h) /\ ~t => MayLoseTerminator(h)
    <3> SUFFICES ASSUME Terminated(h), ~t
                 PROVE  MayLoseTerminator(h)
      OBVIOUS
    <3>1. n < Length(h)
      BY <1>2, <1>3, <1>4
    <3>2. n \in Index
      BY <1>3, <3>1, BoundAssumption DEF Index
    <3> QED
      BY <3>1, <3>2 DEF MayLoseTerminator
  <2> QED
    BY <2>2, <2>3 DEF Changes
<1> QED
  BY <1>6, <1>7, <1>8

\* Memory management
LEMMA MemoryChanges ==
    ASSUME SInv, NEW h \in Handle
    PROVE  /\ \A n \in Index : AllocAndCopy(h, n) \/ Reserve(h, n) \/ Discard(h, n) => Changes(h)
           /\ TrimToSize(h) => Changes(h)
<1>1. ASSUME NEW n \in Index
      PROVE  AllocAndCopy(h, n) \/ Reserve(h, n) \/ Discard(h, n) => Changes(h)
  <2>1. n \in Nat
    BY BoundAssumption DEF Index
  <2>2. AllocAndCopy(h, n) => Changes(h)
    BY <2>1, AllocAndCopyChanges
  <2>3. Reserve(h, n) => Changes(h)
    BY <2>1, ExtraCapacityIsMore, AllocAndCopyChanges DEF Reserve
  <2>4. ASSUME Discard(h, n)
        PROVE  Changes(h)
    <3>1. PICK s : s = << >>
      OBVIOUS
    <3>2. s \in Seq(Char) /\ Len(s) = 0
      BY <3>1, EmptySeq
    <3>3. Len(s) <= n /\ Len(s) <= MaxLength
      BY <2>1, <3>2, BoundAssumption
    <3>4. DiscardAndAlloc(h, n, s) /\ UNCHANGED locks
      BY <2>4, <3>1 DEF Discard
    <3>5. Gives(h, s, TRUE)
      BY <2>1, <3>2, <3>3, <3>4, DiscardGives
    <3> QED
      BY <3>5, KeepsNul
  <2> QED
    BY <2>2, <2>3, <2>4
<1>2. ASSUME TrimToSize(h)
      PROVE  Changes(h)
  <2>1. PICK d, n : d = Data(h) /\ n = Length(h)
    OBVIOUS
  <2>2. /\ d \in Seq(Char) /\ n = Len(d) /\ n \in Nat /\ n <= MaxLength
        /\ Terminated(h) \in BOOLEAN
    BY <2>1, OperandFacts DEF Operand
  <2>3. UNCHANGED locks /\ Reallocate(h, NewBuffer(n, d, Terminated(h)))
    BY <1>2, <2>1 DEF TrimToSize
  <2>4. Len(d) <= n /\ Len(d) <= MaxLength
    BY <2>2
  <2>5. Gives(h, d, Terminated(h))
    BY <2>2, <2>3, <2>4, ReallocateGives
  <2> QED
    BY <2>5, KeepsNul
<1> QED
  BY <1>1, <1>2

-------------------------------------------------------------------------------
(* Steps and behaviours *)

\* Every step is the destruction of one string, or gives one string a value.
LEMMA StepFacts ==
    ASSUME SInv, Next
    PROVE  \E h \in Handle : Changes(h) \/ (IsObject(h) /\ Gone(h))
<1>1. PICK h \in Handle :
        \/ Construct(h)
        \/ Destroy(h)
        \/ Clear(h)
        \/ TrimToSize(h)
        \/ Lock(h)
        \/ Unlock(h)
        \/ UnlockWithLength(h, << >>)
        \/ \E g \in Operand : CopyConstruct(h, g) \/ Assign(h, g) \/ AppendString(h, g)
        \/ \E a, b \in Operand : Concatenate(h, a, b)
        \/ \E g \in Operand, c \in Char : Prepend(h, c, g)
        \/ \E g \in Operand, n \in Index : Repeat(h, g, n) \/ InsertString(h, n, g)
        \/ \E n \in Index : AllocAndCopy(h, n) \/ Reserve(h, n) \/ Discard(h, n)
        \/ \E s \in Source : ConstructFrom(h, s) \/ AssignFrom(h, s) \/ UnlockWithLength(h, s)
        \/ \E s \in Source : AppendChars(h, s) \/ AppendFormatted(h, s) \/ Format(h, s)
        \/ \E i \in Index, s \in Source : Replace(h, i, s) \/ Insert(h, i, s)
        \/ \E i, n \in Index : Remove(h, i, n)
        \/ \E i \in Index, c \in Char : SetChar(h, i, c)
        \/ \E i \in Index : Truncate(h, i) \/ TrimRight(h, i) \/ TrimLeft(h, i)
  BY DEF Next
<1>2. Index \subseteq Nat
  BY BoundAssumption DEF Index
<1> SUFFICES Changes(h) \/ (IsObject(h) /\ Gone(h))
  OBVIOUS
<1>3. CASE Destroy(h)
  BY <1>3, DestroyGoes DEF Destroy
<1>4. CASE \/ Construct(h) \/ Clear(h)
           \/ \E g \in Operand : CopyConstruct(h, g) \/ Assign(h, g)
           \/ \E s \in Source : ConstructFrom(h, s) \/ AssignFrom(h, s)
  BY <1>4, AssignmentsChange
<1>5. CASE \/ Lock(h) \/ Unlock(h) \/ UnlockWithLength(h, << >>)
           \/ \E s \in Source : UnlockWithLength(h, s)
  BY <1>5, LocksChange
<1>6. CASE \/ TrimToSize(h)
           \/ \E n \in Index : AllocAndCopy(h, n) \/ Reserve(h, n) \/ Discard(h, n)
  BY <1>6, MemoryChanges
<1>7. CASE \/ \E s \in Source : AppendChars(h, s)
           \/ \E g \in Operand : AppendString(h, g)
           \/ \E g \in Operand, c \in Char : Prepend(h, c, g)
  BY <1>7, AppendingChanges
<1>8. CASE \E a, b \in Operand : Concatenate(h, a, b)
  BY <1>8, ConcatenateChanges
<1>9. CASE \E g \in Operand, n \in Index : Repeat(h, g, n) \/ InsertString(h, n, g)
  BY <1>2, <1>9, RepeatChanges, InsertStringChanges
<1>10. CASE \E s \in Source : AppendFormatted(h, s) \/ Format(h, s)
  BY <1>10, FormattingChanges
<1>11. CASE \E i \in Index, s \in Source : Replace(h, i, s) \/ Insert(h, i, s)
  BY <1>11, ReplaceChanges, InsertChanges
<1>12. CASE \E i, n \in Index : Remove(h, i, n)
  BY <1>12, RemoveChanges
<1>13. CASE \E i \in Index, c \in Char : SetChar(h, i, c)
  BY <1>2, <1>13, SetCharChanges
<1>14. CASE \E i \in Index : Truncate(h, i) \/ TrimRight(h, i) \/ TrimLeft(h, i)
  BY <1>14, TrimmingChanges
<1> QED
  BY <1>1, <1>3, <1>4, <1>5, <1>6, <1>7, <1>8, <1>9, <1>10, <1>11, <1>12, <1>13, <1>14, Zenon


\* The sequences that the string objects stand for
Strings == [h \in Handle |-> IF IsObject(h) THEN Data(h) ELSE NoObject]

\* They are those of the arrays, before a step...
LEMMA StringsBefore ==
    ASSUME SInv
    PROVE  Strings = Array!Contents
<1>1. \A h \in Handle : (IsObject(h) <=> Array!IsObject(h)) /\ Data(h) = Array!Data(h)
  BY ObjectFacts
<1> QED
  BY <1>1 DEF Strings, Array!Contents

\* ... and after it.
LEMMA StringsAfter ==
    ASSUME Array!IInv'
    PROVE  Strings' = Array!Contents'
<1>1. ASSUME NEW h \in Handle
      PROVE  (IsObject(h)' <=> Array!IsObject(h)') /\ Data(h)' = Array!Data(h)'
  <2>1. IsObject(h)' <=> Array!IsObject(h)'
    BY DEF IsObject, Array!IsObject
  <2>2. /\ Chars(h)' = IF chars'[h] = NoObject THEN EmptyString ELSE chars'[h]
        /\ Chars(h)' \in DOMAIN heap' /\ Chars(h)' # LiteralBuffer
    BY PointersAfter
  <2>3. Array!Elements(h)' = Chars(h)'
    BY <2>2 DEF Array!Elements, Array!IsObject
  <2>4. Buffers'[Chars(h)'].data = heap'[Chars(h)'].data
    BY <2>2 DEF Buffers, PlainHeap, Plain
  <2> QED
    BY <2>1, <2>3, <2>4 DEF Data, Metadata, Array!Data, Array!Metadata
<1> QED
  BY <1>1 DEF Strings, Array!Contents

\* What a step does to the values of strings
LEMMA GivesValue ==
    ASSUME SInv, NEW h \in Handle, NEW s, NEW t, Gives(h, s, t)
    PROVE  SInv' /\ Strings' = [Strings EXCEPT ![h] = s] /\ Len(s) <= MaxLength /\ s \in Seq(Char)
<1>1. /\ Array!VInv' /\ Array!IInv'
      /\ Array!Contents' = [Array!Contents EXCEPT ![h] = s]
  BY ArrayAssumptions, Array!Turning DEF SInv, Gives, Array!VInv
<1>2. Strings = Array!Contents /\ Strings' = Array!Contents'
  BY <1>1, StringsBefore, StringsAfter
<1>3. Array!Elements(h)' \in DOMAIN Buffers'
  BY <1>1, PointersAfter DEF Array!IInv, Array!TypeOK, Array!EmptyArrayIntact, Array!Elements, Array!IsObject
<1>4. s \in Seq(Char)
  BY <1>1, <1>3 DEF Gives, Array!Turns, Array!Data, Array!Metadata, Array!IInv, Array!TypeOK, Array!Buffer
<1> QED
  BY <1>1, <1>2, <1>4 DEF SInv, Gives, Array!Turns

\* ArrayValues has a step for it...
LEMMA ChangesAreSeen ==
    ASSUME SInv, NEW h \in Handle, NEW s, NEW t, Gives(h, s, t)
    PROVE  UNCHANGED Strings \/ Values!Next
<1>1. /\ Strings' = [Strings EXCEPT ![h] = s]
      /\ Len(s) <= MaxLength /\ s \in Seq(Char)
  BY GivesValue
<1>2. s \in Values!Source
  <2>1. Len(s) \in 0..MaxLength /\ s \in [1..Len(s) -> Char]
    BY <1>1, LenProperties
  <2> QED
    BY <2>1 DEF Values!Source
<1>3. Values!Becomes(h, s)
  BY <1>1 DEF Values!Becomes, Strings
<1>4. Values!Operation(h)
  BY <1>2, <1>3 DEF Values!Operation, Values!Construct, Values!Assign
<1>5. Values!OthersKeepTheirs(h)
  BY <1>1 DEF Values!OthersKeepTheirs, Strings
<1> QED
  BY <1>4, <1>5 DEF Values!Next, Strings

\* ... and one for the destructor.
LEMMA DestructionIsSeen ==
    ASSUME SInv, NEW h \in Handle, IsObject(h), Gone(h)
    PROVE  Values!Next
<1>1. Array!IInv' /\ Array!IInv
  BY DEF Gone, SInv, Array!VInv
<1>2. Strings = Array!Contents /\ Strings' = Array!Contents'
  BY <1>1, StringsBefore, StringsAfter
<1>3. Strings'[h] = NoObject
  BY HandleAssumption DEF Strings, IsObject, Gone
<1>4. ASSUME NEW g \in Handle, g # h
      PROVE  Strings'[g] = Strings[g]
  BY <1>1, <1>2, <1>4, ArrayAssumptions, Array!OthersKeep DEF Gone
<1>5. Strings[h] # NoObject
  <2>1. Strings[h] = Data(h) /\ Data(h) \in Seq(Char)
    BY OperandFacts DEF Strings, Operand
  <2> QED
    BY <2>1, NoObjectAssumption
<1>6. Strings' = [Strings EXCEPT ![h] = NoObject]
  <2>1. Strings = [g \in Handle |-> Strings[g]] /\ Strings' = [g \in Handle |-> Strings'[g]]
    BY DEF Strings
  <2> QED
    BY <1>3, <1>4, <2>1
<1>7. Values!Destroy(h)
  BY <1>5, <1>6 DEF Values!Destroy, Values!IsObject, Strings
<1>8. Values!OthersKeepTheirs(h)
  BY <1>4 DEF Values!OthersKeepTheirs, Strings
<1>9. Strings' # Strings
  BY <1>3, <1>5
<1> QED
  BY <1>7, <1>8, <1>9 DEF Values!Next, Values!Operation, Strings


\* Where there was a NUL, an operation that may not lose it leaves one.
NulStays == \A h \in Handle : Terminated(h) /\ ~Terminated(h)' => MayLoseTerminator(h)

\* The inductive invariant is kept, and every step keeps its promises.
LEMMA StepKeeps ==
    ASSUME SInv, Next
    PROVE  SInv' /\ LockedStay /\ NulStays /\ (UNCHANGED Strings \/ Values!Next)
<1>1. PICK h \in Handle : Changes(h) \/ (IsObject(h) /\ Gone(h))
  BY StepFacts
<1>2. /\ SInv' /\ Array!LockedStay
      /\ UNCHANGED Strings \/ Values!Next
      /\ NulStays
  <2>1. CASE Changes(h)
    <3>1. PICK s, t : Gives(h, s, t) /\ (Terminated(h) /\ ~t => MayLoseTerminator(h))
      BY <2>1 DEF Changes
    <3>2. SInv' /\ (UNCHANGED Strings \/ Values!Next)
      BY <3>1, GivesValue, ChangesAreSeen
    <3>3. NulStays
      BY <3>1 DEF NulStays, Gives, OthersKeepNul
    <3> QED
      BY <3>1, <3>2, <3>3 DEF Gives
  <2>2. CASE IsObject(h) /\ Gone(h)
    <3>1. SInv' /\ Array!LockedStay
      BY <2>2 DEF Gone, SInv
    <3>2. Values!Next
      BY <2>2, DestructionIsSeen
    <3>3. NulStays
      BY <2>2 DEF NulStays, Gone, OthersKeepNul
    <3> QED
      BY <3>1, <3>2, <3>3
  <2> QED
    BY <1>1, <2>1, <2>2
<1>3. LockedStay
  <2> SUFFICES ASSUME NEW g \in Handle, locks[g] > 0, locks'[g] > 0
               PROVE  chars'[g] = chars[g] /\ heap'[chars[g]].capacity = heap[chars[g]].capacity
    BY DEF LockedStay
  <2>1. chars'[g] = chars[g] /\ Buffers'[chars[g]].capacity = Buffers[chars[g]].capacity
    BY <1>2 DEF Array!LockedStay
  <2>2. chars[g] \in Address
    BY ArrayAssumptions, Array!NoBufferNoLock DEF SInv, Array!VInv
  <2>3. chars[g] \in DOMAIN Buffers /\ chars[g] \in DOMAIN Buffers'
    BY <1>2, <2>1, <2>2, PointerAssumption DEF SInv, Array!VInv, Array!IInv, Array!TypeOK
  <2>4. /\ Buffers[chars[g]].capacity = heap[chars[g]].capacity
        /\ Buffers'[chars[g]].capacity = heap'[chars[g]].capacity
    BY <2>3 DEF Buffers, PlainHeap, Plain
  <2> QED
    BY <2>1, <2>4
<1> QED
  BY <1>2, <1>3

\* Nothing happens to a string when no step is taken.
LEMMA StutterKeeps ==
    ASSUME SInv, UNCHANGED vars
    PROVE  SInv' /\ UNCHANGED Strings
<1>1. chars' = chars /\ heap' = heap /\ locks' = locks
  BY DEF vars
<1>2. Buffers' = Buffers /\ Sound(heap)'
  BY <1>1 DEF Buffers, SInv, Sound, Static
<1>3. Array!IInv'
  <2>1. Array!IInv
    BY DEF SInv, Array!VInv
  <2>2. UNCHANGED Array!vars
    BY <1>1, <1>2 DEF Array!vars
  <2> QED
    BY <2>1, <2>2, ArrayAssumptions, Array!StutterKeeps
<1>4. Array!Short'
  BY <1>1, <1>2 DEF SInv, Array!VInv, Array!Short, Array!Length, Array!Metadata, Array!Elements, Array!IsObject
<1>5. UNCHANGED Strings
  BY <1>1 DEF Strings, IsObject, Data, Metadata, Chars
<1> QED
  BY <1>2, <1>3, <1>4, <1>5 DEF SInv, Array!VInv

\* There are no strings but literals when the program starts.
LEMMA InitKeeps == Init => SInv
<1> SUFFICES ASSUME Init PROVE SInv
  OBVIOUS
<1>1. /\ heap = [a \in Static |-> IF a = EmptyString THEN EmptyStringMetadata ELSE LiteralMetadata]
      /\ chars = [h \in Handle |-> NoObject] /\ locks = [h \in Handle |-> 0]
  BY DEF Init
<1>2. EmptyStringMetadata \in Buffer
  BY DEF EmptyStringMetadata, Buffer
<1>3. LiteralMetadata \in Buffer
  BY LiteralAssumption, LenProperties DEF LiteralMetadata, Buffer
<1>4. Sound(heap)
  BY <1>1, <1>2, <1>3, PointerAssumption DEF Sound, Static
<1>5. Buffers = [a \in {EmptyString} |-> Array!EmptyArrayMetadata]
  <2>1. DOMAIN heap \ {LiteralBuffer} = {EmptyString}
    BY <1>1, PointerAssumption DEF Static
  <2>2. Plain(heap[EmptyString]) = Array!EmptyArrayMetadata
    BY <1>4 DEF Sound, Plain, EmptyStringMetadata, Array!EmptyArrayMetadata
  <2> QED
    BY <2>1, <2>2 DEF Buffers, PlainHeap
<1>6. Array!Init
  BY <1>1, <1>5 DEF Array!Init
<1>7. Array!VInv
  BY <1>6, ArrayAssumptions, Array!ShortInitially
<1> QED
  BY <1>4, <1>7 DEF SInv

\* What the inductive invariant says of strings
LEMMA InvariantMeans ==
    ASSUME SInv
    PROVE  StringsAreSound /\ LockIsOwn
<1>1. /\ DOMAIN Buffers = DOMAIN heap \ {LiteralBuffer}
      /\ \A a \in DOMAIN Buffers : /\ Buffers[a].refs = heap[a].refs
                                   /\ Buffers[a].capacity = heap[a].capacity
                                   /\ Buffers[a].data = heap[a].data
  BY DEF Buffers, PlainHeap, Plain
<1>2. /\ chars \in [Handle -> DOMAIN Buffers \cup {NoObject}]
      /\ locks \in [Handle -> 0..MaxLocks]
  BY DEF SInv, Array!VInv, Array!IInv, Array!TypeOK
<1>3. TypeOK
  BY <1>1, <1>2 DEF TypeOK, SInv, Sound
<1>4. RefsCountOwners
  <2> SUFFICES ASSUME NEW a \in DOMAIN heap \ Static
               PROVE  /\ Sharing(a) # {}
                      /\ \/ /\ heap[a].refs = Cardinality(Sharing(a))
                            /\ \A h \in Sharing(a) : locks[h] = 0
                         \/ \E h \in Sharing(a) : Sharing(a) = {h} /\ heap[a].refs = 1 - locks[h]
    BY DEF RefsCountOwners
  <2>1. Array!Sharing(a) = Sharing(a)
    BY DEF Sharing, Array!Sharing
  <2>2. a \in DOMAIN Buffers \ {EmptyString}
    BY <1>1 DEF Static
  <2>3. /\ Array!Sharing(a) # {}
        /\ \/ /\ Buffers[a].refs = Array!Cardinality(Array!Sharing(a))
              /\ \A h \in Array!Sharing(a) : locks[h] = 0
           \/ \E h \in Array!Sharing(a) : /\ Array!Sharing(a) = {h}
                                          /\ Buffers[a].refs = 1 - locks[h]
    BY <2>2 DEF SInv, Array!VInv, Array!IInv, Array!RefsCountOwners
  <2>4. Array!Cardinality(Sharing(a)) = Cardinality(Sharing(a))
    BY SameCardinality
  <2> QED
    BY <1>1, <2>1, <2>2, <2>3, <2>4
<1>5. FitsCapacity
  <2> SUFFICES ASSUME NEW a \in DOMAIN heap
               PROVE  Len(heap[a].data) <= heap[a].capacity
    BY DEF FitsCapacity
  <2>1. CASE a = LiteralBuffer
    BY <2>1, LiteralAssumption, LenProperties DEF SInv, Sound, LiteralMetadata
  <2>2. CASE a # LiteralBuffer
    BY <1>1, <2>2 DEF SInv, Array!VInv, Array!IInv, Array!FitsCapacity
  <2> QED
    BY <2>1, <2>2
<1>6. StaticsIntact
  BY DEF StaticsIntact, SInv, Sound
<1>7. LockIsOwn
  BY ObjectFacts DEF LockIsOwn, SInv, Array!VInv, Array!IInv, Array!LockIsOwn
<1> QED
  BY <1>3, <1>4, <1>5, <1>6, <1>7 DEF StringsAreSound

\* The inductive invariant holds in every state.
LEMMA Invariance == Spec => []SInv
<1>1. SInv /\ [Next]_vars => SInv'
  BY StepKeeps, StutterKeeps
<1> QED
  BY <1>1, InitKeeps, PTL DEF Spec

-------------------------------------------------------------------------------
(* The static buffers, into which characters are stored by one call only      *)

\* The operation has stored nothing there.
Spares == stored' = {}

LEMMA ReplaceSpares ==
    ASSUME NEW hp, NEW h, NEW a, ReplaceBuffer(hp, h, a)
    PROVE  Spares
BY DEF ReplaceBuffer, Spares

LEMMA ReallocateSpares ==
    ASSUME NEW h, NEW b, Reallocate(h, b)
    PROVE  Spares
BY ReplaceSpares DEF Reallocate

\* The static buffers count as shared, the literal's as locked.
LEMMA WriteSpares ==
    ASSUME SInv, NEW h \in Handle, ~IsShared(h), NEW data, NEW t, WriteInPlace(h, data, t)
    PROVE  Spares
<1>1. Chars(h) \in Address
  BY OnlyOwner
<1> QED
  BY <1>1, PointerAssumption DEF WriteInPlace, Static, Spares

LEMMA DiscardSpares ==
    ASSUME SInv, NEW h \in Handle, NEW capacity, capacity # 0, NEW data,
           DiscardAndAlloc(h, capacity, data)
    PROVE  Spares
BY WriteSpares DEF DiscardAndAlloc, Spares

LEMMA AssignSequenceSpares ==
    ASSUME SInv, NEW h \in Handle, NEW s \in Seq(Char), AssignSequence(h, s)
    PROVE  Spares
<1>1. PICK n : n = ExtraCapacity(Len(s))
  OBVIOUS
<1>2. n # 0 \/ s = << >>
  <2>1. Len(s) \in Nat
    BY LenProperties
  <2>2. n \in Nat /\ Len(s) <= n
    BY <1>1, <2>1, ExtraCapacityIsMore
  <2> QED
    BY <2>1, <2>2, EmptySeq
<1>3. CASE s = << >> /\ Empty(h)
  BY <1>3, WriteSpares, ReplaceSpares DEF Empty
<1>4. CASE s # << >> /\ ~IsShared(h) /\ WriteInPlace(h, s, TRUE)
  BY <1>4, WriteSpares
<1>5. CASE s # << >> /\ DiscardAndAlloc(h, n, s)
  BY <1>2, <1>5, DiscardSpares
<1> QED
  BY <1>1, <1>3, <1>4, <1>5 DEF AssignSequence

LEMMA AssignStringSpares ==
    ASSUME SInv, NEW h \in Handle, NEW g \in Operand, AssignString(h, g)
    PROVE  Spares
<1>1. Data(g) \in Seq(Char)
  BY OperandFacts
<1> QED
  BY <1>1, ReplaceSpares, AssignSequenceSpares DEF AssignString

\* A string that is locked shares its buffer with nobody.
LEMMA LockedIsSole ==
    ASSUME SInv, NEW h \in Handle, IsLocked(h)
    PROVE  ~IsShared(h)
BY LockedFacts

LEMMA InsertSpares ==
    ASSUME SInv, NEW h \in Handle, NEW i, NEW s, Insert(h, i, s)
    PROVE  Spares
BY WriteSpares, ReallocateSpares DEF Insert

LEMMA GrowSpares ==
    ASSUME SInv, NEW h \in Handle, NEW s, Grow(h, s)
    PROVE  Spares
BY WriteSpares, ReallocateSpares DEF Grow

LEMMA AllocAndCopySpares ==
    ASSUME NEW h, NEW n, AllocAndCopy(h, n)
    PROVE  Spares
BY ReplaceSpares, ReallocateSpares DEF AllocAndCopy

LEMMA TruncateSpares ==
    ASSUME SInv, NEW h \in Handle, NEW n, Truncate(h, n)
    PROVE  Spares
BY WriteSpares, ReallocateSpares DEF Truncate

\* The operations that change what a string contains
LEMMA EditsSpare ==
    ASSUME SInv, NEW h \in Handle
    PROVE  /\ \A s : AppendChars(h, s) \/ AppendFormatted(h, s) \/ Format(h, s) => Spares
           /\ \A i, s : Replace(h, i, s) \/ Insert(h, i, s) => Spares
           /\ \A i, n : Remove(h, i, n) => Spares
           /\ \A i, c : SetChar(h, i, c) => Spares
           /\ \A i : Truncate(h, i) \/ TrimRight(h, i) \/ TrimLeft(h, i) => Spares
<1>1. ASSUME NEW i, NEW s, Replace(h, i, s) PROVE Spares
  BY <1>1, WriteSpares, ReallocateSpares DEF Replace
<1>2. ASSUME NEW i, NEW n, Remove(h, i, n) PROVE Spares
  BY <1>2, WriteSpares, ReallocateSpares DEF Remove
<1>3. ASSUME NEW i, NEW c, SetChar(h, i, c) PROVE Spares
  BY <1>3, WriteSpares, ReallocateSpares, LockedIsSole DEF SetChar, IsolateAndWrite
<1>4. ASSUME NEW i, TrimLeft(h, i) PROVE Spares
  BY <1>4, WriteSpares, ReallocateSpares DEF TrimLeft
<1>5. ASSUME NEW i, Truncate(h, i) \/ TrimRight(h, i) PROVE Spares
  BY <1>5, TruncateSpares DEF TrimRight
<1>6. ASSUME NEW s, AppendFormatted(h, s) PROVE Spares
  BY <1>6, WriteSpares, ReallocateSpares DEF AppendFormatted
<1>7. ASSUME NEW s, Format(h, s) PROVE Spares
  BY <1>7, WriteSpares, ReallocateSpares DEF Format
<1>8. ASSUME NEW s, AppendChars(h, s) PROVE Spares
  BY <1>8, GrowSpares DEF AppendChars
<1> QED
  BY <1>1, <1>2, <1>3, <1>4, <1>5, <1>6, <1>7, <1>8, InsertSpares

\* The operations that read another string
LEMMA OperandsSpare ==
    ASSUME SInv, NEW h \in Handle, NEW g \in Operand
    PROVE  /\ CopyConstruct(h, g) \/ Assign(h, g) \/ AppendString(h, g) => Spares
           /\ \A b : Concatenate(h, g, b) => Spares
           /\ \A c : Prepend(h, c, g) => Spares
           /\ \A n : Repeat(h, g, n) \/ InsertString(h, n, g) => Spares
<1>1. ASSUME CopyConstruct(h, g) \/ Assign(h, g) PROVE Spares
  BY <1>1, AssignStringSpares DEF CopyConstruct, Assign
<1>2. ASSUME AppendString(h, g) PROVE Spares
  BY <1>2, GrowSpares DEF AppendString
<1>3. ASSUME NEW b, Concatenate(h, g, b) PROVE Spares
  BY <1>3, AssignStringSpares, ReallocateSpares DEF Concatenate
<1>4. ASSUME NEW c, Prepend(h, c, g) PROVE Spares
  BY <1>4, ReallocateSpares DEF Prepend
<1>5. ASSUME NEW n, Repeat(h, g, n) PROVE Spares
  BY <1>5, AssignStringSpares, ReallocateSpares DEF Repeat, Spares
<1>6. ASSUME NEW n, InsertString(h, n, g) PROVE Spares
  BY <1>6, InsertSpares DEF InsertString
<1> QED
  BY <1>1, <1>2, <1>3, <1>4, <1>5, <1>6

\* The operations on the buffer and the locks
LEMMA BuffersSpare ==
    ASSUME SInv, NEW h \in Handle
    PROVE  /\ Construct(h) \/ Destroy(h) \/ Clear(h) \/ TrimToSize(h) => Spares
           /\ Lock(h) \/ Unlock(h) => Spares
           /\ \A n : AllocAndCopy(h, n) \/ Reserve(h, n) => Spares
           /\ \A s \in Seq(Char) :
                 ConstructFrom(h, s) \/ AssignFrom(h, s) \/ UnlockWithLength(h, s) => Spares
<1>1. ASSUME Construct(h) \/ Destroy(h) \/ Unlock(h) PROVE Spares
  BY <1>1 DEF Construct, Destroy, Unlock, Spares
<1>2. ASSUME Clear(h) PROVE Spares
  BY <1>2, WriteSpares, ReplaceSpares DEF Clear, Empty
<1>3. ASSUME TrimToSize(h) PROVE Spares
  BY <1>3, ReallocateSpares DEF TrimToSize
<1>4. ASSUME Lock(h) PROVE Spares
  BY <1>4, ReallocateSpares DEF Lock, Spares
<1>5. ASSUME NEW s \in Seq(Char), UnlockWithLength(h, s) PROVE Spares
  <2>1. Chars(h) \in Address
    BY <1>5, LockedIsSole, OnlyOwner DEF UnlockWithLength
  <2> QED
    BY <1>5, <2>1, PointerAssumption DEF UnlockWithLength, Static, Spares
<1>6. ASSUME NEW n, AllocAndCopy(h, n) \/ Reserve(h, n) PROVE Spares
  BY <1>6, AllocAndCopySpares DEF Reserve
<1>7. ASSUME NEW s \in Seq(Char), ConstructFrom(h, s) \/ AssignFrom(h, s) PROVE Spares
  BY <1>7, AssignSequenceSpares DEF ConstructFrom, AssignFrom
<1> QED
  BY <1>1, <1>2, <1>3, <1>4, <1>5, <1>6, <1>7

\* Whatever the step, it stores nothing there, or it is discard_and_alloc(0).
LEMMA StepSpares ==
    ASSUME SInv, Next
    PROVE  Spares \/ \E h \in Handle : Discard(h, 0)
<1>1. PICK h \in Handle :
        \/ Construct(h)
        \/ Destroy(h)
        \/ Clear(h)
        \/ TrimToSize(h)
        \/ Lock(h)
        \/ Unlock(h)
        \/ UnlockWithLength(h, << >>)
        \/ \E g \in Operand : CopyConstruct(h, g) \/ Assign(h, g) \/ AppendString(h, g)
        \/ \E a, b \in Operand : Concatenate(h, a, b)
        \/ \E g \in Operand, c \in Char : Prepend(h, c, g)
        \/ \E g \in Operand, n \in Index : Repeat(h, g, n) \/ InsertString(h, n, g)
        \/ \E n \in Index : AllocAndCopy(h, n) \/ Reserve(h, n) \/ Discard(h, n)
        \/ \E s \in Source : ConstructFrom(h, s) \/ AssignFrom(h, s) \/ UnlockWithLength(h, s)
        \/ \E s \in Source : AppendChars(h, s) \/ AppendFormatted(h, s) \/ Format(h, s)
        \/ \E i \in Index, s \in Source : Replace(h, i, s) \/ Insert(h, i, s)
        \/ \E i, n \in Index : Remove(h, i, n)
        \/ \E i \in Index, c \in Char : SetChar(h, i, c)
        \/ \E i \in Index : Truncate(h, i) \/ TrimRight(h, i) \/ TrimLeft(h, i)
  BY DEF Next
<1>2. << >> \in Seq(Char) /\ \A s \in Source : s \in Seq(Char)
  BY SourceFacts, EmptySeq
<1>3. CASE \/ Construct(h) \/ Destroy(h) \/ Clear(h) \/ TrimToSize(h) \/ Lock(h) \/ Unlock(h)
           \/ UnlockWithLength(h, << >>)
           \/ \E n \in Index : AllocAndCopy(h, n) \/ Reserve(h, n)
           \/ \E s \in Source : ConstructFrom(h, s) \/ AssignFrom(h, s) \/ UnlockWithLength(h, s)
  BY <1>2, <1>3, BuffersSpare
<1>4. CASE \/ \E g \in Operand : CopyConstruct(h, g) \/ Assign(h, g) \/ AppendString(h, g)
           \/ \E a, b \in Operand : Concatenate(h, a, b)
           \/ \E g \in Operand, c \in Char : Prepend(h, c, g)
           \/ \E g \in Operand, n \in Index : Repeat(h, g, n) \/ InsertString(h, n, g)
  BY <1>4, OperandsSpare
<1>5. CASE \/ \E s \in Source : AppendChars(h, s) \/ AppendFormatted(h, s) \/ Format(h, s)
           \/ \E i \in Index, s \in Source : Replace(h, i, s) \/ Insert(h, i, s)
           \/ \E i, n \in Index : Remove(h, i, n)
           \/ \E i \in Index, c \in Char : SetChar(h, i, c)
           \/ \E i \in Index : Truncate(h, i) \/ TrimRight(h, i) \/ TrimLeft(h, i)
  BY <1>5, EditsSpare
<1>6. CASE \E n \in Index : Discard(h, n)
  <2>1. PICK n \in Index : Discard(h, n)
    BY <1>6
  <2> QED
    BY <2>1, DiscardSpares DEF Discard
<1> QED
  BY <1>1, <1>3, <1>4, <1>5, <1>6, Zenon

-------------------------------------------------------------------------------
(* Theorems *)

\* However buffers are shared, locked, moved and destroyed, reference counts are
\* exact, no buffer overflows or leaks, no string points at memory that has been
\* freed, and what the static buffers of the empty string and of literals contain
\* does not change.
THEOREM StringsStaySound == Spec => []StringsAreSound
<1>1. SInv => StringsAreSound
  BY InvariantMeans
<1> QED
  BY <1>1, Invariance, PTL

\* No operation but discard_and_alloc(0) stores a character in the static buffer of
\* the empty string or of a literal, whatever buffers are shared, copied or locked.
THEOREM StaticsAreNotStoredIn == Spec => StaticsAreSpared
<1>1. SInv /\ Next => (stored' # {} => \E h \in Handle : Discard(h, 0))
  BY StepSpares DEF Spares
<1>2. SInv /\ [Next]_vars => [stored' # {} => \E h \in Handle : Discard(h, 0)]_vars
  BY <1>1
<1> QED
  BY <1>2, Invariance, PTL DEF Spec, StaticsAreSpared

\* A string is locked if and only if its own user has locked it, and nothing moves,
\* resizes or frees a buffer while it is.
THEOREM LocksAreHeld == Spec => LocksHold
<1>1. SInv => LockIsOwn
  BY InvariantMeans
<1>2. SInv /\ [Next]_vars => [LockedStay]_vars
  BY StepKeeps
<1> QED
  BY <1>1, <1>2, Invariance, PTL DEF Spec, LocksHold

\* Only replace(), insert(), a copy that cuts the string short, a user who writes
\* into a locked string, and sharing the buffer of a string that has lost it
\* already take the NUL from the end of a string that had one.
THEOREM NulsStayInPlace == Spec => TerminatorStays
<1>1. SInv /\ [Next]_vars => [NulStays]_vars
  BY StepKeeps
<1> QED
  BY <1>1, Invariance, PTL DEF Spec, TerminatorStays, NulStays

\* Sharing is invisible: strings behave as sequences of their own, none of which
\* changes when an operation is called on another.
THEOREM StringsAreValues == Spec => ValueSemantics
<1>1. Init => Values!Init
  BY HandleAssumption DEF Init, IsObject, Values!Init
<1>2. SInv /\ [Next]_vars => [Values!Next]_Strings
  BY StepKeeps, StutterKeeps
<1>3. SInv /\ [Next]_vars => [Values!Next]_[h \in Handle |-> IF IsObject(h) THEN Data(h) ELSE NoObject]
  BY <1>2 DEF Strings
<1> QED
  BY <1>1, <1>3, Invariance, PTL DEF Spec, ValueSemantics, Values!Spec

=============================================================================
