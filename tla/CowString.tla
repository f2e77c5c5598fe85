------------------------------ MODULE CowString ------------------------------
(* The copy-on-write string of include/b/string.h and src/string_impl.h.     *)
(*                                                                           *)
(* It shares buffers the way CowArray does, with three differences.  A       *)
(* buffer has one slot more than its capacity, for the NUL after the last    *)
(* character, and every operation has to keep that NUL in its place: the     *)
(* field "terminated" says whether it is there, and is left to chance where  *)
(* the code leaves the slot as it finds it.  A locked string cannot be       *)
(* assigned to, but it can be destroyed.  And B_STRING_LITERAL makes         *)
(* constant strings, permanently locked, in static memory.                   *)
(*                                                                           *)
(* Assertions are guards, as in CowArray; characters to be copied come from  *)
(* memory outside the string that is changed, except for an operand that     *)
(* shares its buffer.  CowStringAliasing adds the case where the operand is  *)
(* the string itself and append() reallocates.                               *)
EXTENDS Integers, Sequences, FiniteSets

CONSTANTS Handle,       \* variables that may hold a string object
          Literal,      \* a string defined by B_STRING_LITERAL
          LiteralText,  \* its characters
          Address,      \* where memory::alloc may place a buffer
          EmptyString,  \* the address of the static buffer, empty_string()
          LiteralBuffer,\* the address of the literal's static buffer
          NoObject,     \* the pointer of a variable that holds no object
          Char,         \* characters other than NUL
          MaxLength,    \* bound: no string grows beyond this length
          MaxLocks      \* bound: lock() is nested at most this deep

ASSUME HandleAssumption  == IsFiniteSet(Handle) /\ Literal \notin Handle
ASSUME PointerAssumption == /\ EmptyString # LiteralBuffer
                            /\ {EmptyString, LiteralBuffer} \cap Address = {}
                            /\ NoObject \notin Address \cup {EmptyString, LiteralBuffer}
ASSUME BoundAssumption   == MaxLength \in Nat /\ MaxLocks \in Nat
ASSUME LiteralAssumption == /\ LiteralText \in Seq(Char) /\ LiteralText # << >>
                            /\ Len(LiteralText) <= MaxLength
ASSUME NoObjectAssumption == NoObject \notin Seq(Char)

VARIABLES chars,        \* the pointer of every variable
          heap,         \* the buffers that exist, by address
          locks,        \* history: lock() calls not yet undone, by variable
          stored        \* history: the static buffers into which the latest
                        \* operation stored characters
vars == <<chars, heap, locks, stored>>

Buffer  == [refs : Int, capacity : Nat, data : Seq(Char), terminated : BOOLEAN]
Static  == {EmptyString, LiteralBuffer}
Operand == Handle \cup {Literal}
Source  == UNION {[1..n -> Char] : n \in 1..MaxLength}
Index   == 0..MaxLength

\* extra_capacity() of include/b/fn.h
ExtraCapacity(size) ==
    LET extra == size \div 8
    IN  size + (IF extra <= 4 THEN 4 ELSE IF extra <= 1024 THEN extra ELSE 1024)

(***************************************************************************)
(* Queries.  Every constructor starts from empty_string().                 *)
(***************************************************************************)
IsObject(h)   == h \in Handle => chars[h] # NoObject
Chars(h)      == IF h = Literal THEN LiteralBuffer
                 ELSE IF IsObject(h) THEN chars[h] ELSE EmptyString
Metadata(h)   == heap[Chars(h)]
Data(h)       == Metadata(h).data
Length(h)     == Len(Metadata(h).data)
Capacity(h)   == Metadata(h).capacity
Terminated(h) == Metadata(h).terminated
IsShared(h)   == Metadata(h).refs > 1
IsLocked(h)   == Metadata(h).refs <= 0

(***************************************************************************)
(* Buffers                                                                 *)
(***************************************************************************)
EmptyStringMetadata ==
    [refs |-> 2, capacity |-> 0, data |-> << >>, terminated |-> TRUE]
LiteralMetadata ==
    [refs |-> -1, capacity |-> Len(LiteralText), data |-> LiteralText, terminated |-> TRUE]

NewBuffer(capacity, data, terminated) ==
    [refs |-> 1, capacity |-> capacity, data |-> data, terminated |-> terminated]

AllocBuffer(hp, a, buffer) ==
    [x \in DOMAIN hp \cup {a} |-> IF x = a THEN buffer ELSE hp[x]]

Free(hp, a) == [x \in DOMAIN hp \ {a} |-> hp[x]]

\* Mutant of DropRef: the last owner does not free the buffer.
DropRefWithoutFree(hp, a) ==
    IF a = EmptyString THEN hp ELSE [hp EXCEPT ![a].refs = @ - 1]

DropRef(hp, a) ==
    IF a = EmptyString THEN hp
    ELSE IF hp[a].refs = 1 THEN Free(hp, a)
    ELSE [hp EXCEPT ![a].refs = @ - 1]

AddRef(hp, a) == IF a = EmptyString THEN hp ELSE [hp EXCEPT ![a].refs = @ + 1]

\* hp is the heap as the operation has left it before the replacement
ReplaceBuffer(hp, h, a) ==
    /\ ~IsLocked(h)
    /\ heap' = DropRef(hp, Chars(h))
    /\ chars' = [chars EXCEPT ![h] = a]
    /\ stored' = {}

Reallocate(h, buffer) ==
    \E a \in Address \ DOMAIN heap : ReplaceBuffer(AllocBuffer(heap, a, buffer), h, a)

WriteInPlace(h, data, terminated) ==
    /\ heap' = [heap EXCEPT ![Chars(h)].data = data, ![Chars(h)].terminated = terminated]
    /\ stored' = {Chars(h)} \cap Static
    /\ UNCHANGED chars

\* Mutant of IsolateAndWrite: other owners of the buffer see the write.
WriteWithoutIsolation(h, data, terminated) ==
    Chars(h) # EmptyString /\ WriteInPlace(h, data, terminated)

\* isolate(), which copies the NUL as well, and then a write
IsolateAndWrite(h, data, terminated) ==
    \/ IsShared(h) /\ Reallocate(h, NewBuffer(ExtraCapacity(Length(h)), data, terminated))
    \/ ~IsShared(h) /\ WriteInPlace(h, data, terminated)

(***************************************************************************)
(* What the copying and moving of characters amounts to, index i being the *)
(* code's, counted from 0                                                  *)
(***************************************************************************)
Prefix(s, i)      == SubSeq(s, 1, i)
Rest(s, i)        == SubSeq(s, i + 1, Len(s))
Replaced(s, i, t) == Prefix(s, i) \o t \o Rest(s, i + Len(t))
Inserted(s, i, t) == Prefix(s, i) \o t \o Rest(s, i)
Removed(s, i, n)  == Prefix(s, i) \o Rest(s, i + n)
Larger(m, n)      == IF m > n THEN m ELSE n
Smaller(m, n)     == IF m < n THEN m ELSE n

(***************************************************************************)
(* Memory management                                                       *)
(***************************************************************************)
\* The copy takes length + 1 characters with it; when the new capacity is less
\* than the length, the last of them is not the NUL.
AllocAndCopy(h, capacity) ==
    /\ IsObject(h) /\ ~IsLocked(h)
    /\ Capacity(h) # capacity \/ IsShared(h)
    /\ LET length == Smaller(Length(h), capacity)
       IN  \/ /\ capacity > 0
              /\ Reallocate(h, NewBuffer(capacity, Prefix(Data(h), length),
                                         Terminated(h) /\ length = Length(h)))
           \/ /\ capacity = 0
              /\ ReplaceBuffer(heap, h, EmptyString)
    /\ UNCHANGED locks

Reserve(h, capacity) ==
    /\ IsObject(h)
    /\ Capacity(h) < capacity \/ IsShared(h)
    /\ AllocAndCopy(h, ExtraCapacity(capacity))

\* Unlike AllocAndCopy, this allocates a buffer even for no characters.
TrimToSize(h) ==
    /\ IsObject(h)
    /\ ~IsShared(h) /\ Length(h) # Capacity(h)
    /\ Reallocate(h, NewBuffer(Length(h), Data(h), Terminated(h)))
    /\ UNCHANGED locks

\* discard_and_alloc(capacity); its caller then stores data in the buffer.  It
\* ends by storing a NUL through the pointer, also when that has just been made
\* to point at the static buffer of the empty string: the NUL there is replaced
\* by a NUL if the memory can be written, and otherwise the program stops here.
DiscardAndAlloc(h, capacity, data) ==
    /\ ~IsLocked(h)
    /\ \/ /\ Capacity(h) # capacity \/ IsShared(h)
          /\ capacity > 0
          /\ LET released == DropRef(heap, Chars(h))
             IN  \E a \in Address \ DOMAIN released :
                     /\ heap' = AllocBuffer(released, a, NewBuffer(capacity, data, TRUE))
                     /\ chars' = [chars EXCEPT ![h] = a]
                     /\ stored' = {}
       \/ /\ Capacity(h) # capacity \/ IsShared(h)
          /\ capacity = 0
          /\ heap' = DropRef(heap, Chars(h))
          /\ chars' = [chars EXCEPT ![h] = EmptyString]
          /\ stored' = {EmptyString}
       \/ /\ Capacity(h) = capacity /\ ~IsShared(h)
          /\ WriteInPlace(h, data, TRUE)

Discard(h, capacity) == IsObject(h) /\ DiscardAndAlloc(h, capacity, << >>) /\ UNCHANGED locks

\* Mutant of Lock: a shared buffer is locked for all who share it.
LockWithoutIsolation(h) ==
    /\ IsObject(h) /\ chars[h] # EmptyString
    /\ locks[h] < MaxLocks
    /\ heap' = [heap EXCEPT ![Chars(h)].refs = @ - 1]
    /\ locks' = [locks EXCEPT ![h] = @ + 1]
    /\ stored' = {}
    /\ UNCHANGED chars

Lock(h) ==
    /\ IsObject(h)
    /\ locks[h] < MaxLocks
    /\ \/ IsShared(h) /\ Reallocate(h, [NewBuffer(ExtraCapacity(Length(h)), Data(h), Terminated(h))
                                           EXCEPT !.refs = 0])
       \/ /\ ~IsShared(h)
          /\ heap' = [heap EXCEPT ![Chars(h)].refs = @ - 1]
          /\ stored' = {}
          /\ UNCHANGED chars
    /\ locks' = [locks EXCEPT ![h] = @ + 1]

Unlock(h) ==
    /\ IsObject(h)
    /\ IsLocked(h)
    /\ heap' = [heap EXCEPT ![Chars(h)].refs = @ + 1]
    /\ locks' = [locks EXCEPT ![h] = @ - 1]
    /\ stored' = {}
    /\ UNCHANGED chars

\* unlock(new_length), after the user has filled the buffer with s through the
\* pointer that lock() returned
UnlockWithLength(h, s) ==
    /\ IsObject(h)
    /\ IsLocked(h) /\ Len(s) <= Capacity(h)
    /\ heap' = [heap EXCEPT ![Chars(h)] =
                   [NewBuffer(Capacity(h), s, TRUE) EXCEPT !.refs = Metadata(h).refs + 1]]
    /\ locks' = [locks EXCEPT ![h] = @ - 1]
    /\ stored' = {Chars(h)} \cap Static
    /\ UNCHANGED chars

(***************************************************************************)
(* Assignment, also as the second half of the constructors                 *)
(***************************************************************************)
\* Mutant of Empty: the NUL is stored wherever the string points.
EmptyInPlace(h) ==
    \/ (~IsShared(h) \/ Chars(h) = EmptyString) /\ WriteInPlace(h, << >>, TRUE)
    \/ IsShared(h) /\ Chars(h) # EmptyString /\ ReplaceBuffer(heap, h, EmptyString)

Empty(h) ==
    \/ ~IsShared(h) /\ WriteInPlace(h, << >>, TRUE)
    \/ IsShared(h) /\ ReplaceBuffer(heap, h, EmptyString)

AssignSequence(h, s) ==
    /\ ~IsLocked(h)
    /\ \/ s = << >> /\ Empty(h)
       \/ /\ s # << >>
          /\ \/ ~IsShared(h) /\ Len(s) <= Capacity(h) /\ WriteInPlace(h, s, TRUE)
             \/ /\ IsShared(h) \/ Len(s) > Capacity(h)
                /\ DiscardAndAlloc(h, ExtraCapacity(Len(s)), s)

AssignString(h, g) ==
    \/ /\ ~IsLocked(h) /\ ~IsLocked(g)
       /\ ReplaceBuffer(AddRef(heap, Chars(g)), h, Chars(g))
    \/ /\ IsLocked(h) \/ IsLocked(g)
       /\ Chars(h) # Chars(g)
       /\ AssignSequence(h, Data(g))

(***************************************************************************)
(* The operations of the class.  An argument r names the object returned.  *)
(***************************************************************************)
Construct(h) ==
    /\ ~IsObject(h)
    /\ chars' = [chars EXCEPT ![h] = EmptyString]
    /\ stored' = {}
    /\ UNCHANGED <<heap, locks>>

CopyConstruct(h, g) == ~IsObject(h) /\ IsObject(g) /\ AssignString(h, g) /\ UNCHANGED locks

ConstructFrom(h, s) == ~IsObject(h) /\ AssignSequence(h, s) /\ UNCHANGED locks

\* repeat(times), with the constructor that fills the buffer it has allocated
Repeat(r, g, times) ==
    /\ ~IsObject(r) /\ IsObject(g)
    /\ Length(g) * times <= MaxLength
    /\ LET total == Length(g) * times
           data  == [k \in 1..total |-> Data(g)[((k - 1) % Length(g)) + 1]]
       IN  \/ times = 1 /\ AssignString(r, g)
           \/ times # 1 /\ total = 0 /\ chars' = [chars EXCEPT ![r] = EmptyString]
                                     /\ stored' = {}
                                     /\ UNCHANGED heap
           \/ times # 1 /\ total > 0
              /\ Reallocate(r, NewBuffer(ExtraCapacity(total), data, TRUE))
    /\ UNCHANGED locks

\* The destructor frees the buffer of a locked string without counting.
Destroy(h) ==
    /\ IsObject(h)
    /\ heap' = IF IsLocked(h) THEN Free(heap, Chars(h)) ELSE DropRef(heap, Chars(h))
    /\ chars' = [chars EXCEPT ![h] = NoObject]
    /\ locks' = [locks EXCEPT ![h] = 0]
    /\ stored' = {}

Assign(h, g) == IsObject(h) /\ IsObject(g) /\ AssignString(h, g) /\ UNCHANGED locks

AssignFrom(h, s) == IsObject(h) /\ AssignSequence(h, s) /\ UNCHANGED locks

Clear(h) == IsObject(h) /\ Empty(h) /\ UNCHANGED locks

\* at(index), operator[], first() and last(), and the caller's write through
\* the reference that they return.  In a locked string the index may lie beyond
\* the length, and the write may take the place of the NUL.
SetChar(h, i, c) ==
    /\ IsObject(h)
    /\ \/ /\ i < Length(h)
          /\ IsolateAndWrite(h, [Data(h) EXCEPT ![i + 1] = c], Terminated(h))
       \/ /\ IsLocked(h) /\ Length(h) <= i /\ i < Capacity(h)
          /\ WriteInPlace(h, Data(h), Terminated(h) /\ i # Length(h))
    /\ UNCHANGED locks

\* When the characters move to a new buffer, nothing is written after them.
Replace(h, i, s) ==
    /\ IsObject(h)
    /\ i <= Length(h)
    /\ LET end    == i + Len(s)
           result == Replaced(Data(h), i, s)
       IN  /\ end <= MaxLength
           /\ \/ /\ end > Capacity(h) \/ IsShared(h)
                 /\ \E nul \in BOOLEAN :
                        Reallocate(h, NewBuffer(ExtraCapacity(Larger(end, Length(h))), result, nul))
              \/ /\ end <= Capacity(h) /\ ~IsShared(h)
                 /\ WriteInPlace(h, result, end > Length(h) \/ Terminated(h))
    /\ UNCHANGED locks

\* In place, the characters after i move without the NUL that follows them.
Insert(h, i, s) ==
    /\ IsObject(h)
    /\ i <= Length(h)
    /\ LET size   == Length(h) + Len(s)
           result == Inserted(Data(h), i, s)
       IN  /\ size <= MaxLength
           /\ \/ /\ size > Capacity(h) \/ IsShared(h)
                 /\ Reallocate(h, NewBuffer(ExtraCapacity(size), result, Terminated(h)))
              \/ /\ size <= Capacity(h) /\ ~IsShared(h)
                 /\ \E nul \in BOOLEAN : WriteInPlace(h, result, nul)
    /\ UNCHANGED locks

\* insert(pos, const string&) asserts that the source has a buffer of its own.
InsertString(h, i, g) ==
    IsObject(g) /\ Length(g) > 0 /\ Chars(g) # Chars(h) /\ Insert(h, i, Data(g))

\* append(source, count) with the alloc_and_copy() that it may need
Grow(h, s) ==
    LET size == Length(h) + Len(s)
    IN  /\ ~IsLocked(h)
        /\ size <= MaxLength
        /\ \/ /\ IsShared(h) \/ size > Capacity(h)
              /\ Reallocate(h, NewBuffer(ExtraCapacity(size), Data(h) \o s, TRUE))
           \/ /\ ~IsShared(h) /\ size <= Capacity(h)
              /\ WriteInPlace(h, Data(h) \o s, TRUE)

AppendChars(h, s) == IsObject(h) /\ Grow(h, s) /\ UNCHANGED locks

\* append(const string&), the string itself included unless that would be read
\* after alloc_and_copy() has freed it (see CowStringAliasing)
AppendString(h, g) ==
    /\ IsObject(h) /\ IsObject(g) /\ Length(g) > 0
    /\ Chars(h) = Chars(g) => IsShared(h) \/ 2 * Length(h) <= Capacity(h)
    /\ Grow(h, Data(g))
    /\ UNCHANGED locks

\* operator+: a copy of a, to which b is appended.  The copy shares a's buffer
\* unless that is locked; a copy of a locked string is a buffer of its own, with
\* room to spare.  The object returned takes over the buffer of "result".
Concatenate(r, a, b) ==
    /\ ~IsObject(r) /\ IsObject(a) /\ IsObject(b)
    /\ LET size == Length(a) + Length(b)
           room == ExtraCapacity(Length(a))
       IN  /\ size <= MaxLength
           /\ \/ Length(b) = 0 /\ AssignString(r, a)
              \/ /\ Length(b) > 0
                 /\ IsLocked(a) /\ Length(a) > 0 /\ size <= room
                 /\ Reallocate(r, NewBuffer(room, Data(a) \o Data(b), TRUE))
              \/ /\ Length(b) > 0
                 /\ ~IsLocked(a) \/ Length(a) = 0 \/ size > room
                 /\ Reallocate(r, NewBuffer(ExtraCapacity(size), Data(a) \o Data(b), TRUE))
    /\ UNCHANGED locks

\* operator+(ch, str), which fills a new string between lock() and unlock()
Prepend(r, c, g) ==
    /\ ~IsObject(r) /\ IsObject(g)
    /\ Length(g) < MaxLength
    /\ Reallocate(r, NewBuffer(ExtraCapacity(Length(g) + 1), <<c>> \o Data(g), TRUE))
    /\ UNCHANGED locks

\* append_formatted(), whose result is s: string_allocator makes the room, locks
\* the string while the formatter fills it, and unlocks it to its new length.
AppendFormatted(h, s) ==
    /\ IsObject(h) /\ ~IsLocked(h)
    /\ LET size == Length(h) + Len(s)
           room == ExtraCapacity(size)
       IN  /\ size <= MaxLength
           /\ \/ /\ Capacity(h) # room \/ IsShared(h)
                 /\ Reallocate(h, NewBuffer(room, Data(h) \o s, TRUE))
              \/ /\ Capacity(h) = room /\ ~IsShared(h)
                 /\ WriteInPlace(h, Data(h) \o s, TRUE)
    /\ UNCHANGED locks

\* format() empties the string first.
Format(h, s) ==
    /\ IsObject(h) /\ ~IsLocked(h)
    /\ \/ /\ Capacity(h) # ExtraCapacity(Len(s)) \/ IsShared(h)
          /\ Reallocate(h, NewBuffer(ExtraCapacity(Len(s)), s, TRUE))
       \/ /\ Capacity(h) = ExtraCapacity(Len(s)) /\ ~IsShared(h)
          /\ WriteInPlace(h, s, TRUE)
    /\ UNCHANGED locks

\* A count that reaches beyond the end is cut down to what is there.
Remove(h, i, n) ==
    /\ IsObject(h)
    /\ i <= Length(h)
    /\ LET count  == IF i + n > Length(h) THEN Length(h) - i ELSE n
           result == Removed(Data(h), i, count)
       IN  /\ count > 0
           /\ \/ ~IsShared(h) /\ WriteInPlace(h, result, Terminated(h))
              \/ IsShared(h) /\ Reallocate(h, NewBuffer(ExtraCapacity(Len(result)), result, Terminated(h)))
    /\ UNCHANGED locks

\* Mutant of Truncate: the length alone is changed.
TruncateLengthOnly(h, length) ==
    /\ IsObject(h)
    /\ length < Length(h)
    /\ LET result == Prefix(Data(h), length)
       IN  \/ ~IsShared(h) /\ WriteInPlace(h, result, FALSE)
           \/ IsShared(h) /\ Reallocate(h, NewBuffer(ExtraCapacity(length), result, TRUE))
    /\ UNCHANGED locks

Truncate(h, length) ==
    /\ IsObject(h)
    /\ length < Length(h)
    /\ LET result == Prefix(Data(h), length)
       IN  \/ ~IsShared(h) /\ WriteInPlace(h, result, TRUE)
           \/ IsShared(h) /\ Reallocate(h, NewBuffer(ExtraCapacity(length), result, TRUE))
    /\ UNCHANGED locks

\* The samples are those that occur after the first "length" characters.
TrimRight(h, length) ==
    /\ length > 0 => \A k \in length + 1 .. Length(h) : Data(h)[k] # Data(h)[length]
    /\ Truncate(h, length)

\* The samples are those among the characters before i, and not the one at i.
TrimLeft(h, i) ==
    /\ IsObject(h)
    /\ 0 < i /\ i <= Length(h)
    /\ i < Length(h) => \A k \in 1..i : Data(h)[k] # Data(h)[i + 1]
    /\ LET result == Rest(Data(h), i)
       IN  \/ ~IsShared(h) /\ WriteInPlace(h, result, Terminated(h))
           \/ IsShared(h) /\ Reallocate(h, NewBuffer(ExtraCapacity(Len(result)), result, TRUE))
    /\ UNCHANGED locks

(***************************************************************************)
(* The specification                                                       *)
(***************************************************************************)
Init ==
    /\ chars = [h \in Handle |-> NoObject]
    /\ heap = [a \in Static |-> IF a = EmptyString THEN EmptyStringMetadata ELSE LiteralMetadata]
    /\ locks = [h \in Handle |-> 0]
    /\ stored = {}

Next ==
    \E h \in Handle :
        \/ Construct(h)
        \/ Destroy(h)
        \/ Clear(h)
        \/ TrimToSize(h)
        \/ Lock(h)
        \/ Unlock(h)
        \/ UnlockWithLength(h, << >>)
        \/ \E g \in Operand : CopyConstruct(h, g) \/ Assign(h, g) \/ AppendString(h, g)
        \/ \E a, b \in Operand : Concatenate(h, a, b)
        \/ \E g \in Operand, c \in Char : Prepend(h, c, g)
        \/ \E g \in Operand, n \in Index : Repeat(h, g, n) \/ InsertString(h, n, g)
        \/ \E n \in Index : AllocAndCopy(h, n) \/ Reserve(h, n) \/ Discard(h, n)
        \/ \E s \in Source : ConstructFrom(h, s) \/ AssignFrom(h, s) \/ UnlockWithLength(h, s)
        \/ \E s \in Source : AppendChars(h, s) \/ AppendFormatted(h, s) \/ Format(h, s)
        \/ \E i \in Index, s \in Source : Replace(h, i, s) \/ Insert(h, i, s)
        \/ \E i, n \in Index : Remove(h, i, n)
        \/ \E i \in Index, c \in Char : SetChar(h, i, c)
        \/ \E i \in Index : Truncate(h, i) \/ TrimRight(h, i) \/ TrimLeft(h, i)

Spec == Init /\ [][Next]_vars

(***************************************************************************)
(* Properties                                                              *)
(***************************************************************************)
Sharing(a) == {h \in Handle : chars[h] = a}

\* The variables have the types their declarations give them, and the pointer
\* of every string object leads to a buffer that has not been freed.
TypeOK ==
    /\ Static \subseteq DOMAIN heap /\ DOMAIN heap \subseteq Address \cup Static
    /\ \A a \in DOMAIN heap : heap[a] \in Buffer
    /\ chars \in [Handle -> DOMAIN heap \cup {NoObject}]
    /\ locks \in [Handle -> 0..MaxLocks]

\* A buffer belongs to as many string objects as its reference count says, or,
\* while it is locked, to the one object that locked it: replace_buffer() and
\* the destructor, which does not count when the string is locked, free each
\* buffer exactly when nobody uses it any more.
RefsCountOwners ==
    \A a \in DOMAIN heap \ Static :
        /\ Sharing(a) # {}
        /\ \/ /\ heap[a].refs = Cardinality(Sharing(a))
              /\ \A h \in Sharing(a) : locks[h] = 0
           \/ \E h \in Sharing(a) : /\ Sharing(a) = {h}
                                    /\ heap[a].refs = 1 - locks[h]

\* is_locked() answers for the object it is asked of; in particular no string
\* ever comes to point at the buffer of a literal.
LockIsOwn == \A h \in Handle : IsLocked(h) <=> locks[h] > 0

\* The characters and the NUL after them fit in the memory allocated for them.
FitsCapacity == \A a \in DOMAIN heap : Len(heap[a].data) <= heap[a].capacity

\* What the buffers of the empty string and of literals contain never changes.
StaticsIntact ==
    heap[EmptyString] = EmptyStringMetadata /\ heap[LiteralBuffer] = LiteralMetadata

\* The static buffers are constants, and the code casts the constness away to
\* point at them: no operation stores a character there, not even one that is
\* there already, but for discard_and_alloc(0) and its NUL.
StaticsAreSpared == [][stored' # {} => \E h \in Handle : Discard(h, 0)]_vars

\* From lock() to the last unlock() the buffer stays where it is and keeps its
\* size ("fixes the buffer in memory"), unless the string itself is destroyed.
LockedStay ==
    \A h \in Handle : locks[h] > 0 /\ locks'[h] > 0 =>
        /\ chars'[h] = chars[h]
        /\ heap'[chars[h]].capacity = heap[chars[h]].capacity

\* The representation is sound: the four facts above.
StringsAreSound == TypeOK /\ RefsCountOwners /\ FitsCapacity /\ StaticsIntact

\* A lock belongs to the object that took it, and holds its buffer in place.
LocksHold == [][LockIsOwn' /\ LockedStay]_vars

\* data() stays null-terminated through every operation but three, however the
\* buffer is shared: replace(), insert() and an alloc_and_copy() that shrinks the
\* string leave the NUL behind.  Otherwise a string can only come to share the
\* buffer of one that has lost it, or the user overwrites it in a locked string.
MayLoseTerminator(h) ==
    \/ \E i \in Index, s \in Source : Replace(h, i, s) \/ Insert(h, i, s)
    \/ \E n \in Index : n < Length(h) /\ AllocAndCopy(h, n)
    \/ IsLocked(h) /\ IsLocked(h)'
    \/ \E g \in Handle : chars'[h] = chars[g] /\ ~Terminated(g)
TerminatorStays ==
    [][\A h \in Handle :
          Terminated(h) /\ ~Terminated(h)' => MayLoseTerminator(h)]_vars

\* data() and c_str(): "a constant pointer to the null-terminated array of
\* characters that this string contains", of a string that is not locked.
NullTerminated == \A h \in Handle : IsObject(h) /\ ~IsLocked(h) => Terminated(h)

\* Sharing is invisible: every string behaves as a sequence of its own.
Values == INSTANCE ArrayValues
            WITH Value <- Char,
                 value <- [h \in Handle |-> IF IsObject(h) THEN Data(h) ELSE NoObject]
ValueSemantics == Values!Spec
=============================================================================
