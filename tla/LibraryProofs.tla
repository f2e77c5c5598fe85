---------------------------- MODULE LibraryProofs ----------------------------
(***************************************************************************)
(* Theorems about the components of MCLibrary, for every value of its      *)
(* constants.  A behaviour is that of one component, so that an invariant  *)
(* of the component is one of MCSpec: what is proved of each is that its   *)
(* Init establishes it and its Next keeps it.                              *)
(***************************************************************************)
EXTENDS MCLibrary, SequenceTheorems, WellFoundedInduction, TLAPS

-----------------------------------------------------------------------------
(* Numbers and sequences                                                   *)

\* The provers cannot use the induction theorems, but they can use that a set
\* of natural numbers has a least one.
LEMMA LeastNatural ==
    ASSUME NEW T \in SUBSET Nat, T # {}
    PROVE  \E n \in T : \A m \in T : n <= m
<1> DEFINE R == OpToRel(<, Nat)
<1>1. \A x, y \in Nat : x < y => <<x, y>> \in R
  BY DEF OpToRel
<1>2. IsWellFoundedOn(R, Nat)
  BY NatLessThanWellFounded
<1> HIDE DEF R
<1>3. PICK x \in T : \A y \in T : ~(<<y, x>> \in R)
  BY <1>2, WFMin, Zenon
<1>4. \A y \in T : ~(y < x)
  BY <1>1, <1>3
<1>5. \A y \in T : x <= y
  BY <1>4
<1> QED
  BY <1>5

\* A part of a sequence, given by the number of elements before it and its length
LEMMA PartFacts ==
    ASSUME NEW S, NEW s \in Seq(S), NEW i \in Nat, NEW n \in Nat, i + n <= Len(s)
    PROVE  /\ SubSeq(s, i + 1, i + n) \in Seq(S)
           /\ Len(SubSeq(s, i + 1, i + n)) = n
           /\ \A k \in 1..n : SubSeq(s, i + 1, i + n)[k] = s[i + k]
<1>1. Len(s) \in Nat
  BY LenProperties
<1>2. i + 1 \in Int /\ i + n \in Int /\ i + 1 .. i + n \subseteq 1..Len(s)
  BY <1>1
<1>3. \A k \in i + 1 .. i + n : s[k] \in S
  BY <1>2, ElementOfSeq
<1>4. /\ SubSeq(s, i + 1, i + n) \in Seq(S)
      /\ Len(SubSeq(s, i + 1, i + n)) = IF i + 1 <= i + n THEN (i + n) - (i + 1) + 1 ELSE 0
      /\ \A k \in 1 .. (i + n) - (i + 1) + 1 : SubSeq(s, i + 1, i + n)[k] = s[(i + 1) + k - 1]
  BY <1>2, <1>3, SubSeqProperties
<1> QED
  BY <1>4

\* The first elements of a sequence
LEMMA FirstFacts ==
    ASSUME NEW S, NEW s \in Seq(S), NEW n \in 0..Len(s)
    PROVE  /\ SubSeq(s, 1, n) \in Seq(S)
           /\ Len(SubSeq(s, 1, n)) = n
           /\ \A k \in 1..n : SubSeq(s, 1, n)[k] = s[k]
<1>1. n \in Nat /\ n <= Len(s)
  BY LenProperties
<1>2. 0 + n <= Len(s)
  BY <1>1
<1>3. /\ SubSeq(s, 0 + 1, 0 + n) \in Seq(S) /\ Len(SubSeq(s, 0 + 1, 0 + n)) = n
      /\ \A k \in 1..n : SubSeq(s, 0 + 1, 0 + n)[k] = s[0 + k]
  BY <1>1, <1>2, PartFacts
<1> QED
  BY <1>1, <1>3

\* The first elements of the first elements
LEMMA FirstOfFirst ==
    ASSUME NEW S, NEW s \in Seq(S), NEW n \in 0..Len(s), NEW m \in 0..n
    PROVE  SubSeq(SubSeq(s, 1, n), 1, m) = SubSeq(s, 1, m)
<1> DEFINE t == SubSeq(s, 1, n)
<1>1. Len(s) \in Nat /\ n \in Nat /\ m \in Nat /\ m <= n /\ m \in 0..Len(s)
  BY LenProperties
<1>2. t \in Seq(S) /\ Len(t) = n /\ \A k \in 1..n : t[k] = s[k]
  BY FirstFacts
<1> HIDE DEF t
<1>3. m \in 0..Len(t)
  BY <1>1, <1>2
<1>4. SubSeq(t, 1, m) \in Seq(S) /\ Len(SubSeq(t, 1, m)) = m /\ \A k \in 1..m : SubSeq(t, 1, m)[k] = t[k]
  BY <1>2, <1>3, FirstFacts
<1>5. SubSeq(s, 1, m) \in Seq(S) /\ Len(SubSeq(s, 1, m)) = m /\ \A k \in 1..m : SubSeq(s, 1, m)[k] = s[k]
  BY <1>1, FirstFacts
<1>6. \A k \in 1..m : SubSeq(t, 1, m)[k] = SubSeq(s, 1, m)[k]
  BY <1>1, <1>2, <1>4, <1>5
<1>7. SubSeq(t, 1, m) = SubSeq(s, 1, m)
  BY <1>4, <1>5, <1>6, SeqEqual
<1> QED
  BY <1>7 DEF t

\* A sequence is the function of its elements.
LEMMA SequenceIs ==
    ASSUME NEW S, NEW s \in Seq(S)
    PROVE  s = [k \in 1..Len(s) |-> s[k]]
BY LenProperties

\* Functions with the same values are equal.
LEMMA SequenceEquals ==
    ASSUME NEW S, NEW s \in Seq(S), NEW n \in Nat, Len(s) = n, NEW t, t = [k \in 1..n |-> t[k]],
           \A k \in 1..n : s[k] = t[k]
    PROVE  s = t
<1>1. s = [k \in 1..n |-> s[k]]
  BY SequenceIs
<1> QED
  BY <1>1

-----------------------------------------------------------------------------
(* The stream: v1 is buf_str, v2 is pos, v3 is got, v4 is bytes, v5 is size, *)
(* v6 is overran                                                           *)

StreamInv ==
    /\ v1 \in Seq(Byte) /\ Len(v1) <= MaxLength
    /\ v2 \in 0..SIZE_MAX
    /\ v3.at \in Nat /\ v3.data \in Seq(Byte)
    /\ v5 \in Nat /\ DOMAIN v4 \subseteq 0..(v5 - 1)
    /\ \A i \in DOMAIN v4 : v4[i] \in Byte
    /\ Stream!BehavesLikeAFile

\* What is in the string is what is in the file.
LEMMA FileFacts ==
    ASSUME StreamInv
    PROVE  /\ Len(v1) = v5
           /\ \A k \in 1..v5 : v1[k] = Stream!FileByte(k - 1)
           /\ \A i \in Int : i >= v5 => Stream!FileByte(i) = Space
           /\ \A i : Stream!FileByte(i) \in Byte
<1>1. v1 = [i \in 1..v5 |-> Stream!FileByte(i - 1)] /\ v1 \in Seq(Byte) /\ v5 \in Nat
  BY DEF StreamInv, Stream!BehavesLikeAFile
<1>2. DOMAIN v1 = 1..Len(v1) /\ DOMAIN v1 = 1..v5 /\ Len(v1) \in Nat
  BY <1>1, LenProperties
<1>3. Len(v1) = v5
  BY <1>1, <1>2
<1>4. \A i \in Int : i >= v5 => i \notin DOMAIN v4
  BY <1>1 DEF StreamInv
<1>5. Space \in Byte
  BY StreamAssumption DEF Stream!StringStreamAssumption
<1> QED
  BY <1>1, <1>3, <1>4, <1>5 DEF StreamInv, Stream!FileByte

\* A new string_stream is a file with the bytes of its string.
LEMMA StreamStarts ==
    ASSUME Stream!Init
    PROVE  StreamInv
<1>1. v1 \in Seq(Byte) /\ Len(v1) <= MaxLength /\ SIZE_MAX >= 2 /\ SIZE_MAX \in Nat
  BY StreamAssumption DEF Stream!Init, Stream!StringStreamAssumption
<1>2. Len(v1) \in Nat /\ \A k \in 1..Len(v1) : v1[k] \in Byte
  BY <1>1, LenProperties, ElementOfSeq
<1>3. v4 = [i \in 0..(Len(v1) - 1) |-> v1[i + 1]] /\ v5 = Len(v1)
  BY DEF Stream!Init
<1>4. \A k \in 1..v5 : Stream!FileByte(k - 1) = v1[k]
  BY <1>2, <1>3 DEF Stream!FileByte
<1>5. v1 = [i \in 1..v5 |-> Stream!FileByte(i - 1)]
  BY <1>1, <1>2, <1>3, <1>4, SequenceEquals
<1>6. v3 = [at |-> 0, data |-> << >>] /\ v2 \in 0..2 /\ ~v6
  BY DEF Stream!Init, Stream!Nothing
<1>7. v3.data \in Seq(Byte)
  BY <1>6, EmptySeq
<1> QED
  BY <1>1, <1>2, <1>3, <1>5, <1>6, <1>7 DEF StreamInv, Stream!BehavesLikeAFile

\* The position is moved, but nothing is written.
LEMMA FileStays ==
    ASSUME StreamInv, UNCHANGED <<v1, v4, v5>>, v2' \in 0..SIZE_MAX, v3' = Stream!Nothing, ~v6'
    PROVE  StreamInv'
<1>1. v3'.at \in Nat /\ v3'.data = << >> /\ v3'.data \in Seq(Byte)
  BY EmptySeq DEF Stream!Nothing
<1>2. \A i : Stream!FileByte(i)' = Stream!FileByte(i)
  BY DEF Stream!FileByte
<1> QED
  BY <1>1, <1>2 DEF StreamInv, Stream!BehavesLikeAFile

\* seek() moves the position, also past the end or around it.
LEMMA SeekKeeps ==
    ASSUME StreamInv, ~v6, Stream!Seek
    PROVE  StreamInv'
<1>1. PICK offset \in Offsets, base \in {0, v2, Len(v1)} : v2' = Stream!Wrapped(base + offset)
  BY DEF Stream!Seek
<1>2. offset \in Int /\ base \in Int /\ SIZE_MAX \in Nat
  BY <1>1, StreamAssumption, LenProperties DEF Stream!StringStreamAssumption, StreamInv
<1>3. \A n \in Int : n % (SIZE_MAX + 1) \in 0..SIZE_MAX
  BY <1>2
<1>4. v2' \in 0..SIZE_MAX
  BY <1>1, <1>2, <1>3 DEF Stream!Wrapped
<1> QED
  BY <1>4, FileStays DEF Stream!Seek

\* read() returns what is left after the position and stops at the end.
LEMMA ReadKeeps ==
    ASSUME StreamInv, ~v6, NEW n \in 0..2, Stream!Read(n)
    PROVE  StreamInv'
<1> DEFINE available == IF v2 >= Len(v1) THEN 0 ELSE Len(v1) - v2
           count == IF n > available THEN available ELSE n
<1>1. /\ v3' = [at |-> v2, data |-> SubSeq(v1, v2 + 1, v2 + count)]
      /\ v2' = v2 + count
      /\ UNCHANGED <<v1, v4, v5>> /\ ~v6'
  BY DEF Stream!Read
<1>2. v1 \in Seq(Byte) /\ Len(v1) \in Nat /\ v2 \in Nat /\ v2 <= SIZE_MAX /\ Len(v1) = v5
  BY FileFacts, LenProperties, StreamAssumption DEF StreamInv, Stream!StringStreamAssumption
<1>3. MaxLength < SIZE_MAX /\ MaxLength \in Nat /\ SIZE_MAX \in Nat /\ Len(v1) <= MaxLength
  BY StreamAssumption DEF StreamInv, Stream!StringStreamAssumption
<1>4. count \in Nat /\ (count > 0 => v2 + count <= Len(v1))
  BY <1>2
<1>5. \A i : Stream!FileByte(i)' = Stream!FileByte(i)
  BY <1>1 DEF Stream!FileByte
<1> HIDE DEF count
<1>6. v2' \in 0..SIZE_MAX
  BY <1>1, <1>2, <1>3, <1>4
<1>7. CASE count = 0
  <2>1. SubSeq(v1, v2 + 1, v2 + count) = << >>
    BY <1>2, <1>7, SubSeqEmpty
  <2>2. v3'.data = << >> /\ v3'.data \in Seq(Byte) /\ v3'.at \in Nat
    BY <1>1, <1>2, <2>1, EmptySeq
  <2> QED
    BY <1>1, <1>5, <1>6, <2>2 DEF StreamInv, Stream!BehavesLikeAFile
<1>8. CASE count > 0
  <2> DEFINE data == SubSeq(v1, v2 + 1, v2 + count)
  <2>1. v2 + count <= Len(v1)
    BY <1>4, <1>8
  <2>2. data \in Seq(Byte) /\ Len(data) = count /\ \A k \in 1..count : data[k] = v1[v2 + k]
    BY <1>2, <1>4, <2>1, PartFacts
  <2> HIDE DEF data
  <2>3. \A k \in 1..count : data[k] = Stream!FileByte(v2 + k - 1)
    <3> SUFFICES ASSUME NEW k \in 1..count
                 PROVE  data[k] = Stream!FileByte(v2 + k - 1)
      OBVIOUS
    <3>1. v2 + k \in 1..v5
      BY <1>2, <1>4, <2>1
    <3>2. v1[v2 + k] = Stream!FileByte(v2 + k - 1)
      BY <3>1 DEF StreamInv, Stream!BehavesLikeAFile, Stream!FileByte
    <3>3. data[k] = v1[v2 + k]
      BY <2>2
    <3> QED
      BY <3>2, <3>3, Zenon
  <2>4. DOMAIN data = 1..count
    BY <2>2, LenProperties
  <2>5. data = [k \in DOMAIN data |-> Stream!FileByte(v2 + k - 1)]
    BY <1>4, <2>2, <2>3, <2>4, SequenceEquals
  <2>6. v3'.data = data /\ v3'.at = v2
    BY <1>1 DEF data
  <2>7. (v3.data = [k \in DOMAIN v3.data |-> Stream!FileByte(v3.at + k - 1)])'
    BY <1>1, <2>5, <2>6 DEF Stream!FileByte
  <2>8. v2' = v3'.at + Len(v3'.data) /\ v2' <= v5'
    BY <1>1, <1>2, <2>1, <2>2, <2>6
  <2>9. (v1 = [i \in 1..v5 |-> Stream!FileByte(i - 1)])'
    BY <1>1, <1>5 DEF StreamInv, Stream!BehavesLikeAFile
  <2>10. v3'.at \in Nat /\ v3'.data \in Seq(Byte)
    BY <1>2, <2>2, <2>6
  <2> QED
    BY <1>1, <1>6, <2>7, <2>8, <2>9, <2>10 DEF StreamInv, Stream!BehavesLikeAFile
<1> QED
  BY <1>4, <1>7, <1>8

-----------------------------------------------------------------------------
(* Writing                                                                 *)

\* string::replace() of as many bytes as there are at a position within the string
LEMMA ReplacedFacts ==
    ASSUME NEW S, NEW s \in Seq(S), NEW at \in 0..Len(s), NEW data \in Seq(S), NEW n \in Nat,
           n = IF at + Len(data) > Len(s) THEN at + Len(data) ELSE Len(s)
    PROVE  /\ Stream!Replaced(s, at, data) \in Seq(S)
           /\ Len(Stream!Replaced(s, at, data)) = n
           /\ \A k \in 1..n : Stream!Replaced(s, at, data)[k] =
                 IF k > at /\ k <= at + Len(data) THEN data[k - at] ELSE s[k]
<1> DEFINE a == SubSeq(s, 1, at)
           e == at + Len(data)
           b == SubSeq(s, e + 1, Len(s))
<1>1. /\ Len(s) \in Nat /\ Len(data) \in Nat /\ at \in Nat /\ e \in Nat
      /\ at <= Len(s) /\ e = at + Len(data) /\ (e > Len(s) => n = e) /\ (e <= Len(s) => n = Len(s))
  BY LenProperties
<1> HIDE DEF e
<1>2. a \in Seq(S) /\ Len(a) = at /\ \A k \in 1..at : a[k] = s[k]
  <2>1. /\ SubSeq(s, 0 + 1, 0 + at) \in Seq(S) /\ Len(SubSeq(s, 0 + 1, 0 + at)) = at
        /\ \A k \in 1..at : SubSeq(s, 0 + 1, 0 + at)[k] = s[0 + k]
    BY <1>1, PartFacts
  <2> QED
    BY <1>1, <2>1
<1>3. /\ b \in Seq(S) /\ (e > Len(s) => Len(b) = 0) /\ (e <= Len(s) => Len(b) = Len(s) - e)
      /\ \A k \in 1 .. Len(s) - e : b[k] = s[e + k]
  <2>1. CASE e > Len(s)
    <3>1. b = << >>
      BY <1>1, <2>1, SubSeqEmpty
    <3> QED
      BY <1>1, <2>1, <3>1, EmptySeq
  <2>2. CASE e <= Len(s)
    <3> DEFINE m == Len(s) - e
    <3>1. m \in Nat /\ e + m = Len(s) /\ m = Len(s) - e
      BY <1>1, <2>2
    <3> HIDE DEF m
    <3>2. /\ SubSeq(s, e + 1, e + m) \in Seq(S) /\ Len(SubSeq(s, e + 1, e + m)) = m
          /\ \A k \in 1..m : SubSeq(s, e + 1, e + m)[k] = s[e + k]
      BY <1>1, <3>1, PartFacts
    <3>3. b = SubSeq(s, e + 1, e + m)
      BY <3>1
    <3> QED
      BY <1>1, <2>2, <3>1, <3>2, <3>3
  <2> QED
    BY <1>1, <2>1, <2>2
<1> HIDE DEF a, b
<1>4. /\ a \o data \in Seq(S) /\ Len(a \o data) = e
      /\ \A k \in 1..e : (a \o data)[k] = IF k <= at THEN a[k] ELSE data[k - at]
  <2>1. /\ a \o data \in Seq(S) /\ Len(a \o data) = Len(a) + Len(data)
        /\ \A k \in 1 .. Len(a) + Len(data) :
              (a \o data)[k] = IF k <= Len(a) THEN a[k] ELSE data[k - Len(a)]
    BY <1>2, ConcatProperties
  <2> QED
    BY <1>1, <1>2, <2>1
<1> DEFINE c == a \o data
<1>5. c \in Seq(S) /\ Len(c) = e /\ \A k \in 1..e : c[k] = IF k <= at THEN a[k] ELSE data[k - at]
  BY <1>4
<1>6. Stream!Replaced(s, at, data) = c \o b
  BY <1>1 DEF Stream!Replaced, a, b
<1>7. Len(b) \in Nat /\ e + Len(b) = n
  <2>1. CASE e > Len(s)
    BY <1>1, <1>3, <2>1
  <2>2. CASE e <= Len(s)
    BY <1>1, <1>3, <2>2
  <2> QED
    BY <1>1, <2>1, <2>2
<1> HIDE DEF c
<1>8. /\ c \o b \in Seq(S) /\ Len(c \o b) = n
      /\ \A k \in 1..n : (c \o b)[k] = IF k <= e THEN c[k] ELSE b[k - e]
  <2>1. /\ c \o b \in Seq(S) /\ Len(c \o b) = Len(c) + Len(b)
        /\ \A k \in 1 .. Len(c) + Len(b) :
              (c \o b)[k] = IF k <= Len(c) THEN c[k] ELSE b[k - Len(c)]
    BY <1>3, <1>5, ConcatProperties
  <2> QED
    BY <1>5, <1>7, <2>1
<1>9. \A k \in 1..n : (c \o b)[k] = IF k > at /\ k <= e THEN data[k - at] ELSE s[k]
  <2> SUFFICES ASSUME NEW k \in 1..n
               PROVE  (c \o b)[k] = IF k > at /\ k <= e THEN data[k - at] ELSE s[k]
    OBVIOUS
  <2>1. CASE k <= at
    <3>1. (c \o b)[k] = c[k] /\ c[k] = a[k] /\ a[k] = s[k]
      BY <1>1, <1>2, <1>5, <1>8, <2>1
    <3> QED
      BY <2>1, <3>1
  <2>2. CASE k > at /\ k <= e
    <3>1. (c \o b)[k] = c[k] /\ c[k] = data[k - at]
      BY <1>1, <1>5, <1>8, <2>2
    <3> QED
      BY <2>2, <3>1
  <2>3. CASE k > e
    <3> DEFINE j == k - e
    <3>1. /\ e <= Len(s) /\ j \in 1 .. Len(s) - e /\ e + j = k
          /\ (c \o b)[k] = b[j]
      BY <1>1, <1>3, <1>7, <1>8, <2>3
    <3> HIDE DEF j
    <3>2. b[j] = s[e + j]
      BY <1>3, <3>1
    <3> QED
      BY <1>1, <2>3, <3>1, <3>2
  <2>4. k <= at \/ (k > at /\ k <= e) \/ k > e
    BY <1>1
  <2> QED
    BY <2>1, <2>2, <2>3, <2>4, Zenon
<1> QED
  BY <1>1, <1>6, <1>8, <1>9

\* The string with a gap filled with spaces
LEMMA FilledFacts ==
    ASSUME NEW s \in Seq(Byte), NEW at \in Nat, at > Len(s)
    PROVE  /\ s \o Stream!Blanks(at - Len(s)) \in Seq(Byte)
           /\ Len(s \o Stream!Blanks(at - Len(s))) = at
           /\ \A k \in 1..at : (s \o Stream!Blanks(at - Len(s)))[k] =
                 IF k <= Len(s) THEN s[k] ELSE Space
<1> DEFINE n == at - Len(s)
           blanks == Stream!Blanks(n)
<1>1. Len(s) \in Nat /\ n \in Nat /\ Len(s) + n = at
  BY LenProperties
<1>2. Space \in Byte
  BY StreamAssumption DEF Stream!StringStreamAssumption
<1>3. blanks \in [1..n -> Byte] /\ \A k \in 1..n : blanks[k] = Space
  BY <1>2 DEF Stream!Blanks
<1> HIDE DEF n, blanks
<1>4. blanks \in Seq(Byte) /\ Len(blanks) = n
  <2>1. blanks \in Seq(Byte)
    BY <1>1, <1>3, SeqDef
  <2>2. DOMAIN blanks = 1..n /\ DOMAIN blanks = 1..Len(blanks) /\ Len(blanks) \in Nat
    BY <1>3, <2>1, LenProperties
  <2> QED
    BY <1>1, <2>1, <2>2
<1>5. /\ s \o blanks \in Seq(Byte) /\ Len(s \o blanks) = Len(s) + n
      /\ \A k \in 1 .. Len(s) + n :
            (s \o blanks)[k] = IF k <= Len(s) THEN s[k] ELSE blanks[k - Len(s)]
  BY <1>4, ConcatProperties
<1>6. \A k \in 1..at : k > Len(s) => k - Len(s) \in 1..n
  BY <1>1
<1> QED
  BY <1>1, <1>3, <1>5, <1>6 DEF n, blanks

\* What a call of write() leaves in the file
LEMMA RecordFacts ==
    ASSUME StreamInv, NEW data \in Seq(Byte), Stream!Record(v2, data)
    PROVE  /\ v5' \in Nat /\ v5' = IF v2 + Len(data) > v5 THEN v2 + Len(data) ELSE v5
           /\ DOMAIN v4' \subseteq 0..(v5' - 1) /\ \A i \in DOMAIN v4' : v4'[i] \in Byte
           /\ \A i \in Nat : Stream!FileByte(i)' =
                 IF i >= v2 /\ i < v2 + Len(data) THEN data[i - v2 + 1] ELSE Stream!FileByte(i)
           /\ v3' = Stream!Nothing /\ UNCHANGED v6
<1>1. /\ v2 \in Nat /\ v5 \in Nat /\ Len(data) \in Nat /\ DOMAIN v4 \subseteq 0..(v5 - 1)
      /\ \A i \in DOMAIN v4 : v4[i] \in Byte
  BY LenProperties, StreamAssumption DEF StreamInv, Stream!StringStreamAssumption
<1> DEFINE written == v2..(v2 + Len(data) - 1)
<1>2. /\ v4' = [i \in DOMAIN v4 \cup written |-> IF i \in written THEN data[i - v2 + 1] ELSE v4[i]]
      /\ v5' = IF v2 + Len(data) > v5 THEN v2 + Len(data) ELSE v5
      /\ v3' = Stream!Nothing /\ UNCHANGED v6
  BY DEF Stream!Record
<1>3. \A i \in written : data[i - v2 + 1] \in Byte
  <2> SUFFICES ASSUME NEW i \in written
               PROVE  data[i - v2 + 1] \in Byte
    OBVIOUS
  <2>1. i - v2 + 1 \in 1..Len(data)
    BY <1>1
  <2> QED
    BY <2>1, ElementOfSeq
<1>4. v5' \in Nat /\ v5' >= v5 /\ v5' >= v2 + Len(data)
  BY <1>1, <1>2
<1>5. written \subseteq 0..(v5' - 1) /\ DOMAIN v4 \subseteq 0..(v5' - 1)
  BY <1>1, <1>4
<1>6. \A i \in Nat : i \in written <=> i >= v2 /\ i < v2 + Len(data)
  BY <1>1
<1> HIDE DEF written
<1>7. \A i \in Nat : Stream!FileByte(i)' =
         IF i \in written THEN data[i - v2 + 1] ELSE Stream!FileByte(i)
  BY <1>2 DEF Stream!FileByte
<1>8. \A i \in Nat : Stream!FileByte(i)' =
         IF i >= v2 /\ i < v2 + Len(data) THEN data[i - v2 + 1] ELSE Stream!FileByte(i)
  BY <1>6, <1>7
<1>9. DOMAIN v4' \subseteq 0..(v5' - 1) /\ \A i \in DOMAIN v4' : v4'[i] \in Byte
  BY <1>1, <1>2, <1>3, <1>5
<1> QED
  BY <1>2, <1>4, <1>8, <1>9

\* It is enough that the string holds the bytes of the file.
LEMMA StringFollows ==
    ASSUME v1' \in Seq(Byte), Len(v1') <= MaxLength, Len(v1') = v5', v5' \in Nat,
           \A k \in 1..v5' : v1'[k] = Stream!FileByte(k - 1)',
           DOMAIN v4' \subseteq 0..(v5' - 1), \A i \in DOMAIN v4' : v4'[i] \in Byte,
           v2' \in 0..SIZE_MAX, v3' = Stream!Nothing, ~v6'
    PROVE  StreamInv'
<1>1. v3'.at \in Nat /\ v3'.data = << >> /\ v3'.data \in Seq(Byte)
  BY EmptySeq DEF Stream!Nothing
<1>2. (v1 = [i \in 1..v5 |-> Stream!FileByte(i - 1)])'
  <2>1. v1' = [k \in 1..v5' |-> v1'[k]]
    BY SequenceIs
  <2> QED
    BY <2>1
<1>3. \A i \in DOMAIN v4' : i < v5'
  OBVIOUS
<1> QED
  BY <1>1, <1>2, <1>3 DEF StreamInv, Stream!BehavesLikeAFile

\* write() leaves the bytes at the position, spaces in the gap before it, and the
\* position behind them.
LEMMA WriteKeeps ==
    ASSUME StreamInv, ~v6, NEW data \in Written, Stream!Write(data)
    PROVE  StreamInv'
<1>1. /\ data \in Seq(Byte) /\ Len(data) \in Nat /\ v1 \in Seq(Byte) /\ Len(v1) \in Nat
      /\ v2 \in Nat /\ MaxLength \in Nat /\ SIZE_MAX \in Nat /\ MaxLength < SIZE_MAX
  BY LenProperties, StreamAssumption DEF StreamInv, Stream!StringStreamAssumption
<1> DEFINE end == v2 + Len(data)
<1>2. /\ v5' \in Nat /\ v5' = IF end > v5 THEN end ELSE v5
      /\ DOMAIN v4' \subseteq 0..(v5' - 1) /\ \A i \in DOMAIN v4' : v4'[i] \in Byte
      /\ \A i \in Nat : Stream!FileByte(i)' =
            IF i >= v2 /\ i < end THEN data[i - v2 + 1] ELSE Stream!FileByte(i)
      /\ v3' = Stream!Nothing /\ ~v6'
  BY <1>1, RecordFacts DEF Stream!Write
<1>3. Len(v1) = v5 /\ \A k \in 1..v5 : v1[k] = Stream!FileByte(k - 1)
  BY FileFacts
<1>4. end \in Nat
  BY <1>1
<1> HIDE DEF end
\* What each character has to be
<1>5. ASSUME NEW k \in 1..v5', k > v2, k <= end
      PROVE  Stream!FileByte(k - 1)' = data[k - v2]
  <2> DEFINE i == k - 1
  <2>1. i \in Nat /\ i >= v2 /\ i < end /\ i - v2 + 1 = k - v2
    BY <1>1, <1>2, <1>4, <1>5
  <2> HIDE DEF i
  <2>2. Stream!FileByte(i)' = data[k - v2]
    BY <1>2, <2>1
  <2> QED
    BY <2>2 DEF i
<1>6. ASSUME NEW k \in 1..v5', ~(k > v2 /\ k <= end)
      PROVE  Stream!FileByte(k - 1)' = Stream!FileByte(k - 1)
  <2> DEFINE i == k - 1
  <2>1. i \in Nat /\ ~(i >= v2 /\ i < end)
    BY <1>1, <1>2, <1>4, <1>6
  <2> HIDE DEF i
  <2>2. Stream!FileByte(i)' = Stream!FileByte(i)
    BY <1>2, <2>1
  <2> QED
    BY <2>2 DEF i
<1>7. CASE v2 <= Len(v1)
  <2>1. v1' = Stream!Replaced(v1, v2, data) /\ v2' = end /\ Len(v1') <= MaxLength
    BY <1>7 DEF Stream!Write, end
  <2>2. /\ v1' \in Seq(Byte) /\ Len(v1') = v5'
        /\ \A k \in 1..v5' : v1'[k] = IF k > v2 /\ k <= v2 + Len(data) THEN data[k - v2] ELSE v1[k]
    <3> DEFINE n == v5'
    <3>1. n \in Nat /\ n = v5'
      BY <1>2
    <3>2. v2 \in 0..Len(v1) /\ n = IF v2 + Len(data) > Len(v1) THEN v2 + Len(data) ELSE Len(v1)
      BY <1>1, <1>2, <1>3, <1>7 DEF end
    <3> HIDE DEF n
    <3>3. /\ Stream!Replaced(v1, v2, data) \in Seq(Byte)
          /\ Len(Stream!Replaced(v1, v2, data)) = n
          /\ \A k \in 1..n : Stream!Replaced(v1, v2, data)[k] =
                IF k > v2 /\ k <= v2 + Len(data) THEN data[k - v2] ELSE v1[k]
      BY <1>1, <3>1, <3>2, ReplacedFacts
    <3> QED
      BY <2>1, <3>1, <3>3
  <2>3. \A k \in 1..v5' : v1'[k] = IF k > v2 /\ k <= end THEN data[k - v2] ELSE v1[k]
    BY <2>2 DEF end
  <2>4. ASSUME NEW k \in 1..v5'
        PROVE  v1'[k] = Stream!FileByte(k - 1)'
    <3>1. CASE k > v2 /\ k <= end
      BY <1>5, <2>3, <3>1
    <3>2. CASE ~(k > v2 /\ k <= end)
      <4>1. k \in 1..v5
        BY <1>1, <1>2, <1>3, <1>4, <1>7, <3>2
      <4>2. v1'[k] = v1[k] /\ v1[k] = Stream!FileByte(k - 1)
        BY <1>3, <2>3, <3>2, <4>1
      <4> QED
        BY <1>6, <3>2, <4>2
    <3> QED
      BY <3>1, <3>2
  <2>5. v2' \in 0..SIZE_MAX
    BY <1>1, <1>2, <1>4, <2>1, <2>2
  <2> QED
    BY <1>2, <2>1, <2>2, <2>4, <2>5, StringFollows
<1>8. CASE v2 > Len(v1)
  <2> DEFINE filled == v1 \o Stream!Blanks(v2 - Len(v1))
  <2>1. v1' = filled \o data /\ v2' = Len(v1') /\ Len(v1') <= MaxLength
    BY <1>1, <1>8 DEF Stream!Write
  <2>2. /\ filled \in Seq(Byte) /\ Len(filled) = v2
        /\ \A k \in 1..v2 : filled[k] = IF k <= Len(v1) THEN v1[k] ELSE Space
    BY <1>1, <1>8, FilledFacts
  <2> HIDE DEF filled
  <2>3. /\ v1' \in Seq(Byte) /\ Len(v1') = end
        /\ \A k \in 1..end : v1'[k] = IF k <= v2 THEN filled[k] ELSE data[k - v2]
    <3>1. /\ filled \o data \in Seq(Byte) /\ Len(filled \o data) = Len(filled) + Len(data)
          /\ \A k \in 1 .. Len(filled) + Len(data) :
                (filled \o data)[k] = IF k <= Len(filled) THEN filled[k] ELSE data[k - Len(filled)]
      BY <1>1, <2>2, ConcatProperties
    <3> QED
      BY <2>1, <2>2, <3>1 DEF end
  <2>4. v5' = end
    BY <1>1, <1>2, <1>3, <1>4, <1>8 DEF end
  <2>5. ASSUME NEW k \in 1..v5'
        PROVE  v1'[k] = Stream!FileByte(k - 1)'
    <3>1. CASE k > v2
      <4>1. k <= end /\ v1'[k] = data[k - v2]
        BY <1>1, <1>4, <2>3, <2>4, <3>1
      <4> QED
        BY <1>5, <3>1, <4>1
    <3>2. CASE k <= v2
      <4>1. v1'[k] = filled[k] /\ filled[k] = IF k <= Len(v1) THEN v1[k] ELSE Space
        BY <1>1, <1>4, <2>2, <2>3, <2>4, <3>2
      <4>2. Stream!FileByte(k - 1) = IF k <= Len(v1) THEN v1[k] ELSE Space
        <5>1. CASE k <= Len(v1)
          BY <1>1, <1>3, <5>1
        <5>2. CASE k > Len(v1)
          <6> DEFINE i == k - 1
          <6>1. i \in Int /\ i >= v5
            BY <1>1, <1>3, <5>2
          <6> HIDE DEF i
          <6>2. Stream!FileByte(i) = Space
            BY <6>1, FileFacts
          <6> QED
            BY <1>1, <5>2, <6>2 DEF i
        <5> QED
          BY <1>1, <5>1, <5>2
      <4>3. Stream!FileByte(k - 1)' = Stream!FileByte(k - 1)
        BY <1>1, <1>6, <3>2
      <4> QED
        BY <4>1, <4>2, <4>3
    <3> QED
      BY <1>1, <3>1, <3>2
  <2>6. v2' \in 0..SIZE_MAX
    BY <1>1, <1>4, <2>1, <2>3
  <2> QED
    BY <1>2, <2>1, <2>3, <2>4, <2>5, <2>6, StringFollows
<1> QED
  BY <1>1, <1>7, <1>8

\* A write() that throws has written nothing, but the gap may have been filled.
LEMMA WriteThrowsKeeps ==
    ASSUME StreamInv, ~v6, NEW data \in Written, Stream!WriteThrows(data)
    PROVE  StreamInv'
<1>1. v3' = Stream!Nothing /\ UNCHANGED <<v2, v4>> /\ v2 \in 0..SIZE_MAX /\ ~v6'
  BY DEF Stream!WriteThrows, StreamInv
<1>2. CASE UNCHANGED <<v1, v5>>
  BY <1>1, <1>2, FileStays
<1>3. CASE /\ v2 > Len(v1) /\ v2 <= MaxLength
           /\ v1' = v1 \o Stream!Blanks(v2 - Len(v1))
           /\ v5' = v2
  <2>1. v1 \in Seq(Byte) /\ Len(v1) \in Nat /\ v2 \in Nat /\ SIZE_MAX \in Nat
    BY <1>1, LenProperties, StreamAssumption DEF StreamInv, Stream!StringStreamAssumption
  <2>2. /\ v1' \in Seq(Byte) /\ Len(v1') = v2
        /\ \A k \in 1..v2 : v1'[k] = IF k <= Len(v1) THEN v1[k] ELSE Space
    BY <1>3, <2>1, FilledFacts
  <2>3. Len(v1) = v5
    BY FileFacts
  <2>4. ASSUME NEW k \in 1..v5'
        PROVE  v1'[k] = Stream!FileByte(k - 1)'
    <3>1. Stream!FileByte(k - 1)' = Stream!FileByte(k - 1)
      BY <1>1 DEF Stream!FileByte
    <3>2. CASE k <= Len(v1)
      BY <1>3, <2>1, <2>2, <2>3, <3>1, <3>2, FileFacts
    <3>3. CASE k > Len(v1)
      <4> DEFINE i == k - 1
      <4>1. i \in Int /\ i >= v5
        BY <1>3, <2>1, <2>3, <3>3
      <4> HIDE DEF i
      <4>2. Stream!FileByte(i) = Space
        BY <4>1, FileFacts
      <4>3. v1'[k] = Space
        BY <1>3, <2>1, <2>2, <3>3
      <4> QED
        BY <3>1, <4>2, <4>3 DEF i
    <3>4. k <= Len(v1) \/ k > Len(v1)
      BY <1>3, <2>1
    <3> QED
      BY <3>2, <3>3, <3>4, Zenon
  <2>5. DOMAIN v4' \subseteq 0..(v5' - 1) /\ \A i \in DOMAIN v4' : v4'[i] \in Byte
    BY <1>1, <1>3, <2>1, <2>3 DEF StreamInv
  <2> QED
    BY <1>1, <1>3, <2>1, <2>2, <2>4, <2>5, StringFollows
<1> QED
  BY <1>2, <1>3 DEF Stream!WriteThrows

\* Only where the gap does not fit in memory does a size come out too small.
LEMMA OverrunKeeps ==
    ASSUME StreamInv, NEW data \in Written, Stream!Overrun(data)
    PROVE  StreamInv'
<1>1. /\ Len(data) \in Nat /\ Len(data) <= MaxLength
      /\ Len(v1) \in Nat /\ Len(v1) <= MaxLength /\ Len(v1) = v5
      /\ v2 \in Nat /\ v2 <= SIZE_MAX /\ MaxLength \in Nat /\ SIZE_MAX \in Nat /\ Overhead \in Nat
  BY FileFacts, LenProperties, StreamAssumption DEF StreamInv, Stream!StringStreamAssumption
<1>2. PICK n : n = Stream!FirstLength(data)
  OBVIOUS
<1>3. n \in Nat /\ ((n = v2 /\ v2 > Len(v1)) \/ (n = v2 + Len(data) /\ v2 <= Len(v1)))
  BY <1>1, <1>2 DEF Stream!FirstLength
<1>4. ~(n \in 0..(2 * MaxLength))
  <2> SUFFICES ASSUME n \in 0..(2 * MaxLength)
               PROVE  FALSE
    OBVIOUS
  <2>1. Stream!Extended(n) \in Nat /\ Stream!Extended(n) >= n
    <3> DEFINE extra == n \div 8
    <3>1. extra \in Nat /\ n \in Nat
      OBVIOUS
    <3> HIDE DEF extra
    <3>2. Stream!Extended(n) = n + (IF extra <= 4 THEN 4 ELSE IF extra <= 1024 THEN extra ELSE 1024)
      BY DEF Stream!Extended, extra
    <3> QED
      BY <3>1, <3>2
  <2>2. PICK m : m = Stream!Extended(n)
    OBVIOUS
  <2>3. m \in Nat /\ m >= n /\ m + Overhead <= SIZE_MAX
    BY <2>1, <2>2, StreamAssumption DEF Stream!StringStreamAssumption
  <2>4. \A k \in 0..SIZE_MAX : Stream!Wrapped(k) = k
    BY <1>1 DEF Stream!Wrapped
  <2>5. Stream!Wrapped(m) = m /\ Stream!Wrapped(m + Overhead) = m + Overhead
    BY <1>1, <2>3, <2>4
  <2>6. Stream!BufferSize(n) = m + Overhead
    BY <2>2, <2>5 DEF Stream!BufferSize
  <2> QED
    BY <1>1, <1>2, <2>3, <2>6 DEF Stream!Overrun, Stream!IsWrapped
<1>5. v2 - v5 > MaxLength
  BY <1>1, <1>3, <1>4
<1>6. UNCHANGED <<v1, v2, v3, v4, v5>>
  BY DEF Stream!Overrun
<1>7. \A i : Stream!FileByte(i)' = Stream!FileByte(i)
  BY <1>6 DEF Stream!FileByte
<1> QED
  BY <1>5, <1>6, <1>7 DEF StreamInv, Stream!BehavesLikeAFile

\* A stream in a string behaves like a file: after any sequence of seek(), read() and
\* write(), also one that throws, the string holds the byte last written at each offset and
\* spaces where nothing was, and a read returns these.  No write() overruns the buffer
\* unless seek() has taken the position further past the end than memory can hold.
THEOREM StreamBehaves == MCSpec => []BehavesLikeAFile
<1> DEFINE Inv == component = "stream" => StreamInv
<1>1. MCInit => Inv
  BY StreamStarts DEF MCInit
<1>2. Inv /\ [MCNext]_vars => Inv'
  <2> SUFFICES ASSUME Inv, [MCNext]_vars, component' = "stream"
               PROVE  StreamInv'
    OBVIOUS
  <2>1. CASE UNCHANGED vars
    BY <2>1 DEF vars, StreamInv, Stream!BehavesLikeAFile, Stream!FileByte
  <2>2. CASE MCNext
    <3>1. component = "stream" /\ StreamInv /\ Stream!Next
      BY <2>2 DEF MCNext
    <3> QED
      BY <3>1, SeekKeeps, ReadKeeps, WriteKeeps, WriteThrowsKeeps, OverrunKeeps DEF Stream!Next
  <2> QED
    BY <2>1, <2>2
<1>3. Inv => BehavesLikeAFile
  BY DEF StreamInv, BehavesLikeAFile
<1> QED
  BY <1>1, <1>2, <1>3, PTL DEF MCSpec

-----------------------------------------------------------------------------
(* Directories: v1 is dirs, v2 is path, v3 is parents, v4 is calls, v5 is   *)
(* result, v6 is removed                                                   *)

CallRecord == [path : Seq(Dir!Name), at : {"mkdir", "mkdir again", "stat"}]

\* Where the k-th call, for the directory name, can be
MayBeAt(dirs, gone, path, k, name, at) ==
    /\ at \in {"mkdir", "mkdir again", "stat"}
    /\ at = "stat" => name \in dirs \cup Files \cup gone
    /\ at = "mkdir again" =>
          k < Len(path) /\ SubSeq(path, 1, Len(path) - k) \in dirs \cup gone

\* The k-th call is for the directory k - 1 levels above the path.  Those whose
\* parents are being created wait; mkdir() is tried again when the parent has been
\* there, and stat() is called when something has been in the way.
CallsAre(dirs, gone, path, parents, calls) ==
    /\ path \in Seq(Dir!Name) /\ calls \in Seq(CallRecord)
    /\ Len(calls) <= Len(path)
    /\ \A k \in 1..Len(calls) : calls[k].path = SubSeq(path, 1, Len(path) - k + 1)
    /\ \A k \in 1 .. Len(calls) - 1 : calls[k].at = "mkdir"
    /\ Len(calls) > 1 =>
          parents /\ \A n \in 1 .. Len(path) - 1 : SubSeq(path, 1, n) \notin Files
    /\ \A k \in 1..Len(calls) : MayBeAt(dirs, gone, path, k, calls[k].path, calls[k].at)

ResultIs(dirs, gone, path, parents, result) ==
    /\ result = "created" => path \in dirs \cup gone
    /\ result = "EEXIST" => path \in Files \/ \E name \in gone : Dir!IsPrefix(name, path)
    /\ result = "ENOTDIR" => \E file \in Files : Dir!IsPrefix(file, path)
    /\ result = "ENOENT" => ~parents \/ \E name \in gone : Dir!IsPrefix(name, path)

ProgramInv(p) == /\ CallsAre(v1, v6[p], v2[p], v3[p], v4[p])
                 /\ ResultIs(v1, v6[p], v2[p], v3[p], v5[p])

DirInv == /\ DOMAIN v2 = Programs /\ DOMAIN v3 = Programs /\ DOMAIN v4 = Programs
          /\ DOMAIN v5 = Programs /\ DOMAIN v6 = Programs
          /\ \A p \in Programs : ProgramInv(p)

\* In the beginning no program creates anything.
LEMMA DirStarts ==
    ASSUME Dir!Init
    PROVE  DirInv
<1> SUFFICES ASSUME NEW p \in Programs
             PROVE  ProgramInv(p)
  BY DEF Dir!Init, DirInv
<1>1. v2[p] = << >> /\ v4[p] = << >> /\ v5[p] = "none"
  BY DEF Dir!Init
<1>2. /\ << >> \in Seq(Dir!Name) /\ << >> \in Seq(CallRecord) /\ Len(<< >>) = 0
      /\ ~(0 > 1) /\ 0 <= 0 /\ 1..0 = {} /\ 1 .. 0 - 1 = {}
  BY EmptySeq
<1> QED
  BY <1>1, <1>2 DEF ProgramInv, CallsAre, ResultIs

\* Directories may come, and go if that is remembered; the call is not touched.
LEMMA ProgramStays ==
    ASSUME NEW p, ProgramInv(p), v1 \subseteq v1' \cup v6'[p], v6[p] \subseteq v6'[p],
           v2'[p] = v2[p], v3'[p] = v3[p], v4'[p] = v4[p], v5'[p] = v5[p]
    PROVE  ProgramInv(p)'
<1>1. CallsAre(v1', v6'[p], v2[p], v3[p], v4[p])
  <2>1. \A k, name, at : MayBeAt(v1, v6[p], v2[p], k, name, at) =>
                            MayBeAt(v1', v6'[p], v2[p], k, name, at)
    BY DEF MayBeAt
  <2>2. CallsAre(v1, v6[p], v2[p], v3[p], v4[p])
    BY DEF ProgramInv
  <2> QED
    BY <2>1, <2>2, Zenon DEF CallsAre
<1>2. ResultIs(v1', v6'[p], v2[p], v3[p], v5[p])
  BY DEF ProgramInv, ResultIs
<1> QED
  BY <1>1, <1>2 DEF ProgramInv

\* The first elements are a prefix.
LEMMA FirstIsPrefix ==
    ASSUME NEW S, NEW s \in Seq(S), NEW n \in 0..Len(s)
    PROVE  Dir!IsPrefix(SubSeq(s, 1, n), s)
<1> DEFINE t == SubSeq(s, 1, n)
<1>1. t \in Seq(S) /\ Len(t) = n
  BY FirstFacts
<1>2. n <= Len(s) /\ SubSeq(t, 1, n) = t
  BY <1>1, LenProperties, SubSeqFull
<1> HIDE DEF t
<1>3. SubSeq(s, 1, Len(t)) = t
  BY <1>1 DEF t
<1>4. Len(t) <= Len(s)
  BY <1>1, <1>2
<1> QED
  BY <1>1, <1>2, <1>3, <1>4 DEF Dir!IsPrefix, t

\* The call that is under way now, and its parent; m is the length of the parent.
LEMMA TopFacts ==
    ASSUME NEW p, ProgramInv(p), v4[p] # << >>
    PROVE  /\ Dir!Top(p) = v4[p][Len(v4[p])] /\ Dir!Top(p) \in CallRecord
           /\ Len(v4[p]) \in 1..Len(v2[p]) /\ Len(v2[p]) \in Nat
           /\ Dir!Top(p).path = SubSeq(v2[p], 1, Len(v2[p]) - Len(v4[p]) + 1)
           /\ Dir!Top(p).path \in Seq(Dir!Name)
           /\ Len(Dir!Top(p).path) = Len(v2[p]) - Len(v4[p]) + 1
           /\ Dir!Parent(Dir!Top(p).path) = SubSeq(v2[p], 1, Len(v2[p]) - Len(v4[p]))
           /\ Dir!IsPrefix(Dir!Top(p).path, v2[p]) /\ v2[p] \in Seq(Dir!Name)
           /\ Len(v2[p]) - Len(v4[p]) \in 0..Len(v2[p])
           /\ Len(v2[p]) - Len(v4[p]) + 1 \in 0..Len(v2[p])
           /\ MayBeAt(v1, v6[p], v2[p], Len(v4[p]), Dir!Top(p).path, Dir!Top(p).at)
<1> DEFINE c == v4[p]
           path == v2[p]
           d == Len(v4[p])
           e == Len(v2[p])
           n == Len(v2[p]) - Len(v4[p]) + 1
<1>1. /\ path \in Seq(Dir!Name) /\ c \in Seq(CallRecord) /\ d <= e
      /\ \A k \in 1..d : c[k].path = SubSeq(path, 1, e - k + 1)
      /\ \A k \in 1..d : MayBeAt(v1, v6[p], path, k, c[k].path, c[k].at)
  BY DEF ProgramInv, CallsAre
<1>2. e \in Nat /\ d \in Nat \ {0}
  BY <1>1, LenProperties, EmptySeq
<1>3. Dir!Top(p) = c[d]
  BY DEF Dir!Top, Dir!Last
<1>4. c[d] \in CallRecord
  BY <1>1, <1>2, ElementOfSeq
<1>5. e = Len(path) /\ n = e - d + 1 /\ d = Len(c)
  OBVIOUS
<1> HIDE DEF n, e, path, c, d
<1>6. n \in 0..e /\ n - 1 = e - d /\ n - 1 \in 0..n
  BY <1>1, <1>2, <1>5
<1>7. c[d].path = SubSeq(path, 1, n)
  BY <1>1, <1>2, <1>5
<1>8. SubSeq(path, 1, n) \in Seq(Dir!Name) /\ Len(SubSeq(path, 1, n)) = n
  BY <1>1, <1>5, <1>6, FirstFacts
<1>9. Dir!Parent(SubSeq(path, 1, n)) = SubSeq(path, 1, n - 1)
  <2>1. Dir!Parent(SubSeq(path, 1, n)) = SubSeq(SubSeq(path, 1, n), 1, n - 1)
    BY <1>8 DEF Dir!Parent, Dir!Front
  <2>2. SubSeq(SubSeq(path, 1, n), 1, n - 1) = SubSeq(path, 1, n - 1)
    BY <1>1, <1>5, <1>6, FirstOfFirst
  <2> QED
    BY <2>1, <2>2
<1>10. Dir!IsPrefix(SubSeq(path, 1, n), path)
  BY <1>1, <1>5, <1>6, FirstIsPrefix
<1>11. d \in 1..e /\ e \in Nat /\ d \in 1..d
  BY <1>1, <1>2
<1>12. c[d].path = SubSeq(path, 1, e - d + 1) /\ Len(c[d].path) = e - d + 1
  BY <1>5, <1>7, <1>8, Zenon
<1>13. Dir!Parent(c[d].path) = SubSeq(path, 1, e - d)
  BY <1>6, <1>7, <1>9, Zenon
<1>14. c[d].path \in Seq(Dir!Name) /\ Dir!IsPrefix(c[d].path, path)
  BY <1>7, <1>8, <1>10, Zenon
<1>15. path \in Seq(Dir!Name) /\ MayBeAt(v1, v6[p], path, d, c[d].path, c[d].at)
  BY <1>1, <1>11, Zenon
<1>16. e - d \in 0..e /\ e - d + 1 \in 0..e
  BY <1>11
<1> QED
  BY <1>3, <1>4, <1>11, <1>12, <1>13, <1>14, <1>15, <1>16, Zenon DEF e, path, c, d

\* The calls within a call end, and that call goes on.
LEMMA BackToCall ==
    ASSUME NEW dirs, NEW newDirs, dirs \subseteq newDirs, NEW gone, NEW path, NEW parents,
           NEW calls, CallsAre(dirs, gone, path, parents, calls),
           NEW k \in 1..Len(calls), NEW at, MayBeAt(newDirs, gone, path, k, calls[k].path, at)
    PROVE  CallsAre(newDirs, gone, path, parents,
                    Append(SubSeq(calls, 1, k - 1), [calls[k] EXCEPT !.at = at]))
<1> DEFINE r == [calls[k] EXCEPT !.at = at]
           a == SubSeq(calls, 1, k - 1)
           c == Append(a, r)
           d == Len(calls)
           e == Len(path)
<1>1. /\ calls \in Seq(CallRecord) /\ path \in Seq(Dir!Name) /\ d \in Nat /\ e \in Nat /\ d <= e
      /\ d = Len(calls) /\ e = Len(path)
  BY LenProperties DEF CallsAre
<1>2. /\ \A i \in 1..d : calls[i].path = SubSeq(path, 1, e - i + 1)
      /\ \A i \in 1 .. d - 1 : calls[i].at = "mkdir"
      /\ d > 1 => parents /\ \A n \in 1 .. e - 1 : SubSeq(path, 1, n) \notin Files
      /\ k \in 1..d
  BY DEF CallsAre
<1> HIDE DEF d, e
<1>3. k \in Nat /\ k > 0 /\ k <= d /\ k - 1 \in 0..d
  BY <1>1, <1>2
<1>4. calls[k] \in CallRecord
  BY <1>1, ElementOfSeq
<1>5. r \in CallRecord /\ r.path = calls[k].path /\ r.at = at
  <2>1. at \in {"mkdir", "mkdir again", "stat"}
    BY DEF MayBeAt
  <2> QED
    BY <1>4, <2>1 DEF CallRecord
<1>6. a \in Seq(CallRecord) /\ Len(a) = k - 1 /\ \A i \in 1..(k - 1) : a[i] = calls[i]
  BY <1>1, <1>3, FirstFacts
<1> HIDE DEF r, a
<1>7. /\ c \in Seq(CallRecord) /\ Len(c) = Len(a) + 1 /\ c[Len(a) + 1] = r
      /\ \A i \in 1..Len(a) : c[i] = a[i]
  BY <1>5, <1>6, AppendProperties
<1>8. Len(c) = k /\ c[k] = r /\ \A i \in 1..(k - 1) : c[i] = calls[i]
  BY <1>3, <1>6, <1>7
<1> HIDE DEF c
<1>9. \A i \in 1..k : i = k \/ i \in 1..(k - 1)
  BY <1>3
<1>10. 1..(k - 1) \subseteq 1..d /\ 1..(k - 1) \subseteq 1..(d - 1)
  BY <1>1, <1>3
<1>11. \A i \in 1..k : c[i].path = SubSeq(path, 1, e - i + 1)
  BY <1>2, <1>5, <1>8, <1>9, <1>10, Zenon
<1>12. \A i \in 1..(k - 1) : c[i].at = "mkdir"
  BY <1>2, <1>8, <1>10, Zenon
<1>13. k > 1 => parents /\ \A n \in 1 .. e - 1 : SubSeq(path, 1, n) \notin Files
  <2>1. k > 1 => d > 1
    BY <1>1, <1>3
  <2> QED
    BY <1>2, <2>1, Zenon
<1>14. ASSUME NEW i \in 1..k
       PROVE  MayBeAt(newDirs, gone, path, i, c[i].path, c[i].at)
  <2>1. CASE i = k
    BY <1>5, <1>8, <2>1, Zenon
  <2>2. CASE i \in 1..(k - 1)
    BY <1>12, <2>2 DEF MayBeAt
  <2> QED
    BY <1>9, <2>1, <2>2
<1>15. Len(c) <= Len(path)
  BY <1>1, <1>3, <1>8
<1>16. CallsAre(newDirs, gone, path, parents, c)
  BY <1>1, <1>7, <1>8, <1>11, <1>12, <1>13, <1>14, <1>15, Zenon DEF CallsAre
<1> QED
  BY <1>16 DEF c, a, r

\* The exception leaves all calls.
LEMMA NoCalls ==
    ASSUME NEW dirs, NEW newDirs, NEW gone, NEW path, NEW parents,
           NEW calls, CallsAre(dirs, gone, path, parents, calls)
    PROVE  CallsAre(newDirs, gone, path, parents, << >>)
<1>1. << >> \in Seq(CallRecord) /\ Len(<< >>) = 0 /\ Len(path) \in Nat /\ path \in Seq(Dir!Name)
  BY EmptySeq, LenProperties DEF CallsAre
<1>2. 1..0 = {} /\ 1 .. 0 - 1 = {} /\ ~(0 > 1) /\ 0 <= Len(path)
  BY <1>1
<1> QED
  BY <1>1, <1>2 DEF CallsAre

\* What the errors of mkdir() say of the directories
LEMMA MkdirSays ==
    ASSUME NEW name
    PROVE  /\ Dir!MkdirError(name) = "EEXIST" => name \in v1 \cup Files
           /\ Dir!MkdirError(name) = "ENOTDIR" =>
                 \E n \in 1..(Len(name) - 1) : SubSeq(name, 1, n) \in Files
           /\ Dir!MkdirError(name) = "ENOENT" =>
                 /\ name \notin v1 \cup Files /\ Dir!Parent(name) \notin v1
                 /\ \A n \in 1..(Len(name) - 1) : SubSeq(name, 1, n) \notin Files
BY DEF Dir!MkdirError

-----------------------------------------------------------------------------
(* What Return(), Throw() and CallForParent() do to the calls of program p *)

\* A call that returns has created its directory: that of its caller's parent, or the
\* one the program wanted.
LEMMA ReturnKeeps ==
    ASSUME NEW p \in Programs, DirInv, v4[p] # << >>, v1 \subseteq v1', Dir!Top(p).path \in v1',
           Dir!Return(p), UNCHANGED <<v2, v3, v6>>
    PROVE  ProgramInv(p)'
<1> DEFINE c == v4[p]
           path == v2[p]
           d == Len(v4[p])
           e == Len(v2[p])
           gone == v6[p]
<1>1. /\ ProgramInv(p) /\ DOMAIN v4 = Programs /\ DOMAIN v5 = Programs
  BY DEF DirInv
<1>2. CallsAre(v1, gone, path, v3[p], c) /\ ResultIs(v1, gone, path, v3[p], v5[p])
  BY <1>1 DEF ProgramInv
<1>3. /\ d \in 1..e /\ e \in Nat /\ Dir!Top(p).path = SubSeq(path, 1, e - d + 1)
      /\ path \in Seq(Dir!Name) /\ c \in Seq(CallRecord)
  BY <1>1, <1>2, TopFacts DEF CallsAre
<1>4. /\ d = 1 => v4' = [v4 EXCEPT ![p] = << >>] /\ v5' = [v5 EXCEPT ![p] = "created"]
      /\ d # 1 => /\ v4' = [v4 EXCEPT ![p] = Append(Dir!Front(Dir!Front(v4[p])),
                               [Dir!Last(Dir!Front(v4[p])) EXCEPT !.at = "mkdir again"])]
                  /\ v5' = v5
  BY DEF Dir!Return
<1>5. v2'[p] = path /\ v3'[p] = v3[p] /\ v6'[p] = gone /\ d = Len(c) /\ e = Len(path)
  OBVIOUS
<1> HIDE DEF c, path, d, e, gone
<1>6. CASE d = 1
  <2>1. e - d + 1 = e
    BY <1>3, <1>6
  <2>2. SubSeq(path, 1, e) = path
    BY <1>3, <1>5, SubSeqFull
  <2>3. path \in v1'
    BY <1>3, <2>1, <2>2
  <2>4. ResultIs(v1', gone, path, v3[p], "created")
    BY <2>3 DEF ResultIs
  <2>5. CallsAre(v1', gone, path, v3[p], << >>)
    BY <1>2, NoCalls
  <2>6. v4'[p] = << >> /\ v5'[p] = "created"
    BY <1>1, <1>4, <1>6
  <2> QED
    BY <1>5, <2>4, <2>5, <2>6 DEF ProgramInv
<1>7. CASE d # 1
  <2> DEFINE k == d - 1
  <2>1. k \in 1..d /\ k \in Nat /\ k < e /\ k - 1 = d - 2 /\ d - 1 = k /\ k - 1 \in 0..k
        /\ k \in 0..d /\ e - k = e - d + 1
    BY <1>3, <1>7
  <2> HIDE DEF k
  <2>2. Dir!Front(c) = SubSeq(c, 1, k) /\ SubSeq(c, 1, k) \in Seq(CallRecord)
        /\ Len(SubSeq(c, 1, k)) = k /\ SubSeq(c, 1, k)[k] = c[k]
    <3>1. Dir!Front(c) = SubSeq(c, 1, k)
      BY <1>5, <2>1 DEF Dir!Front
    <3>2. SubSeq(c, 1, k) \in Seq(CallRecord) /\ Len(SubSeq(c, 1, k)) = k
          /\ \A i \in 1..k : SubSeq(c, 1, k)[i] = c[i]
      BY <1>3, <1>5, <2>1, FirstFacts
    <3>3. k \in 1..k
      BY <2>1
    <3> QED
      BY <3>1, <3>2, <3>3
  <2>3. Dir!Front(Dir!Front(c)) = SubSeq(c, 1, k - 1)
    <3>1. Dir!Front(Dir!Front(c)) = SubSeq(SubSeq(c, 1, k), 1, k - 1)
      BY <2>2 DEF Dir!Front
    <3> QED
      BY <1>3, <1>5, <2>1, <3>1, FirstOfFirst
  <2>4. Dir!Last(Dir!Front(c)) = c[k]
    BY <2>2 DEF Dir!Last
  <2>5. v4'[p] = Append(SubSeq(c, 1, k - 1), [c[k] EXCEPT !.at = "mkdir again"]) /\ v5'[p] = v5[p]
    BY <1>1, <1>4, <1>7, <2>3, <2>4 DEF c
  <2>6. SubSeq(path, 1, e - k) \in v1'
    BY <1>3, <2>1
  <2>7. MayBeAt(v1', gone, path, k, c[k].path, "mkdir again")
    BY <1>5, <2>1, <2>6 DEF MayBeAt
  <2>8. CallsAre(v1', gone, path, v3[p], v4'[p])
    <3>1. k \in 1..Len(c)
      BY <1>5, <2>1
    <3>2. CallsAre(v1', gone, path, v3[p],
                   Append(SubSeq(c, 1, k - 1), [c[k] EXCEPT !.at = "mkdir again"]))
      BY <1>2, <2>7, <3>1, BackToCall, Zenon
    <3> QED
      BY <2>5, <3>2, Zenon
  <2>9. ResultIs(v1', gone, path, v3[p], v5[p])
    BY <1>2 DEF ResultIs
  <2> QED
    BY <1>5, <2>5, <2>8, <2>9 DEF ProgramInv
<1> QED
  BY <1>6, <1>7

\* The innermost call continues with stat(): what it wanted to create is there.
LEMMA StatFollows ==
    ASSUME NEW p \in Programs, DirInv, v4[p] # << >>, v1 \subseteq v1',
           Dir!Top(p).path \in v1 \cup Files,
           v4' = Dir!NowAt(p, "stat"), UNCHANGED <<v2, v3, v5, v6>>
    PROVE  ProgramInv(p)'
<1> DEFINE c == v4[p]
           path == v2[p]
           d == Len(v4[p])
           gone == v6[p]
<1>1. /\ ProgramInv(p) /\ DOMAIN v4 = Programs
  BY DEF DirInv
<1>2. CallsAre(v1, gone, path, v3[p], c) /\ ResultIs(v1, gone, path, v3[p], v5[p])
  BY <1>1 DEF ProgramInv
<1>3. d \in 1..Len(v2[p]) /\ Len(v2[p]) \in Nat /\ Dir!Top(p) = c[d]
  BY <1>1, TopFacts
<1>4. d = Len(c) /\ d \in 1..d
  BY <1>3
<1>5. v4'[p] = Append(SubSeq(c, 1, d - 1), [c[d] EXCEPT !.at = "stat"])
  BY <1>1 DEF Dir!NowAt, Dir!Front, Dir!Last
<1> HIDE DEF c, path, d, gone
<1>6. MayBeAt(v1', gone, path, d, c[d].path, "stat")
  BY <1>3 DEF MayBeAt
<1>7. CallsAre(v1', gone, path, v3[p], v4'[p])
  <2>1. d \in 1..Len(c)
    BY <1>4
  <2>2. CallsAre(v1', gone, path, v3[p],
                 Append(SubSeq(c, 1, d - 1), [c[d] EXCEPT !.at = "stat"]))
    BY <1>2, <1>6, <2>1, BackToCall, Zenon
  <2> QED
    BY <1>5, <2>2, Zenon
<1>8. ResultIs(v1', gone, path, v3[p], v5[p])
  BY <1>2 DEF ResultIs
<1> QED
  BY <1>7, <1>8 DEF ProgramInv, path, gone

\* The exception leaves behind an error that has its reason.
LEMMA ThrowKeeps ==
    ASSUME NEW p \in Programs, DirInv, NEW error, Dir!Throw(p, error),
           ResultIs(v1, v6[p], v2[p], v3[p], error), v1 \subseteq v1', UNCHANGED <<v2, v3, v6>>
    PROVE  ProgramInv(p)'
<1>1. /\ ProgramInv(p) /\ DOMAIN v4 = Programs /\ DOMAIN v5 = Programs
  BY DEF DirInv
<1>2. v4'[p] = << >> /\ v5'[p] = error
  BY <1>1 DEF Dir!Throw
<1>3. CallsAre(v1', v6[p], v2[p], v3[p], << >>)
  BY <1>1, NoCalls DEF ProgramInv
<1>4. ResultIs(v1', v6[p], v2[p], v3[p], error)
  BY DEF ResultIs
<1> QED
  BY <1>2, <1>3, <1>4 DEF ProgramInv

\* The parent is created first: neither it nor what is above it is a file.
LEMMA CallForParentKeeps ==
    ASSUME NEW p \in Programs, DirInv, v4[p] # << >>, Dir!Top(p).at = "mkdir", v3[p],
           Dir!Top(p).path \notin Files,
           \A n \in 1..(Len(Dir!Top(p).path) - 1) : SubSeq(Dir!Top(p).path, 1, n) \notin Files,
           Dir!CallForParent(p), UNCHANGED <<v1, v2, v3, v6>>
    PROVE  ProgramInv(p)'
<1> DEFINE c == v4[p]
           path == v2[p]
           d == Len(v4[p])
           e == Len(v2[p])
           name == Dir!Top(p).path
           r == Dir!Call(Dir!Parent(name), "mkdir")
           new == Append(c, r)
<1>1. /\ ProgramInv(p) /\ DOMAIN v4 = Programs /\ DOMAIN v5 = Programs
  BY DEF DirInv
<1>2. CallsAre(v1, v6[p], path, v3[p], c) /\ ResultIs(v1, v6[p], path, v3[p], v5[p])
  BY <1>1 DEF ProgramInv
<1>3. /\ d \in 1..e /\ e \in Nat /\ Dir!Top(p) = c[d]
      /\ name = SubSeq(path, 1, e - d + 1) /\ name \in Seq(Dir!Name)
      /\ Len(name) = e - d + 1 /\ Dir!Parent(name) = SubSeq(path, 1, e - d)
  BY <1>1, TopFacts
<1>4. /\ path \in Seq(Dir!Name) /\ c \in Seq(CallRecord)
      /\ \A i \in 1..d : c[i].path = SubSeq(path, 1, e - i + 1)
      /\ \A i \in 1 .. d - 1 : c[i].at = "mkdir"
      /\ d > 1 => \A n \in 1 .. e - 1 : SubSeq(path, 1, n) \notin Files
  BY <1>2 DEF CallsAre
<1>5. /\ Len(name) > 1 => v4' = [v4 EXCEPT ![p] = Append(v4[p], r)] /\ v5' = v5
      /\ ~(Len(name) > 1) => v4' = [v4 EXCEPT ![p] = << >>] /\ v5' = [v5 EXCEPT ![p] = "overrun"]
  BY DEF Dir!CallForParent, Dir!Throw, Dir!Overrun
<1>6. /\ c[d].at = "mkdir" /\ name \notin Files /\ v3[p]
      /\ \A n \in 1..(Len(name) - 1) : SubSeq(name, 1, n) \notin Files
      /\ d = Len(c) /\ e = Len(path)
      /\ v1' = v1 /\ v2'[p] = path /\ v3'[p] = v3[p] /\ v6'[p] = v6[p]
  BY <1>3
<1>7. r.path = Dir!Parent(name) /\ r.at = "mkdir" /\ r = [path |-> Dir!Parent(name), at |-> "mkdir"]
  BY DEF Dir!Call
<1> HIDE DEF c, path, d, e, name, r, new
<1>8. CASE ~(Len(name) > 1)
  <2>1. v4'[p] = << >> /\ v5'[p] = "overrun"
    BY <1>1, <1>5, <1>8
  <2>2. CallsAre(v1, v6[p], path, v3[p], << >>)
    BY <1>2, NoCalls
  <2>3. ResultIs(v1, v6[p], path, v3[p], "overrun")
    BY DEF ResultIs
  <2> QED
    BY <1>6, <2>1, <2>2, <2>3 DEF ProgramInv
<1>9. CASE Len(name) > 1
  <2>1. /\ d + 1 <= e /\ e - d \in 0..e /\ e - (d + 1) + 1 = e - d /\ (d + 1) - 1 = d /\ d \in Nat
        /\ \A i \in 1..(d + 1) : i \in 1..d \/ i = d + 1
        /\ \A i \in 1..d : i \in 1..(d - 1) \/ i = d
    BY <1>3, <1>9
  <2>2. r \in CallRecord
    <3>1. SubSeq(path, 1, e - d) \in Seq(Dir!Name)
      BY <1>4, <1>6, <2>1, FirstFacts
    <3> QED
      BY <1>3, <1>7, <3>1 DEF CallRecord
  <2>3. /\ new \in Seq(CallRecord) /\ Len(new) = Len(c) + 1 /\ new[Len(c) + 1] = r
        /\ \A i \in 1..Len(c) : new[i] = c[i]
    BY <1>4, <2>2, AppendProperties DEF new
  <2>4. Len(new) = d + 1 /\ new[d + 1] = r /\ \A i \in 1..d : new[i] = c[i]
    BY <1>6, <2>3
  <2>5. \A i \in 1..(d + 1) : new[i].path = SubSeq(path, 1, e - i + 1)
    <3> SUFFICES ASSUME NEW i \in 1..(d + 1)
                 PROVE  new[i].path = SubSeq(path, 1, e - i + 1)
      OBVIOUS
    <3>1. CASE i \in 1..d
      BY <1>4, <2>4, <3>1, Zenon
    <3>2. CASE i = d + 1
      BY <1>3, <1>7, <2>1, <2>4, <3>2, Zenon
    <3> QED
      BY <2>1, <3>1, <3>2, Zenon
  <2>6. \A i \in 1..d : new[i].at = "mkdir"
    BY <1>4, <1>6, <2>1, <2>4, Zenon
  <2>7. ASSUME NEW n \in 1..(e - 1)
        PROVE  SubSeq(path, 1, n) \notin Files
    <3>1. CASE d > 1
      BY <1>4, <3>1
    <3>2. CASE d = 1
      <4>1. e - d + 1 = e /\ n \in 1..(Len(name) - 1)
        BY <1>3, <3>2
      <4>2. name = path
        BY <1>3, <1>4, <1>6, <4>1, SubSeqFull
      <4> QED
        BY <1>6, <4>1, <4>2
    <3> QED
      BY <1>3, <3>1, <3>2
  <2>8. ASSUME NEW i \in 1..(d + 1)
        PROVE  MayBeAt(v1, v6[p], path, i, new[i].path, new[i].at)
    <3>1. new[i].at = "mkdir"
      BY <1>7, <2>1, <2>4, <2>6, Zenon
    <3> QED
      BY <3>1 DEF MayBeAt
  <2>9. CallsAre(v1, v6[p], path, v3[p], new)
    <3>1. Len(new) = d + 1 /\ Len(path) = e /\ Len(new) <= Len(path) /\ Len(new) - 1 = d
      BY <1>6, <2>1, <2>4
    <3> QED
      BY <1>4, <1>6, <2>3, <2>5, <2>6, <2>7, <2>8, <3>1, Zenon DEF CallsAre
  <2>10. v4'[p] = new /\ v5'[p] = v5[p]
    BY <1>1, <1>5, <1>9 DEF new, c
  <2> QED
    BY <1>2, <1>6, <2>9, <2>10 DEF ProgramInv
<1> QED
  BY <1>8, <1>9

-----------------------------------------------------------------------------
(* The steps                                                               *)

\* A program calls create_directory().
LEMMA CreateKeeps ==
    ASSUME DirInv, NEW p \in Programs, NEW name \in Created, NEW create_parents \in BOOLEAN,
           Dir!Create(p, name, create_parents)
    PROVE  DirInv'
<1> DEFINE r == Dir!Call(name, "mkdir")
           c == <<r>>
<1>1. /\ DOMAIN v2 = Programs /\ DOMAIN v3 = Programs /\ DOMAIN v4 = Programs
      /\ DOMAIN v5 = Programs /\ DOMAIN v6 = Programs
      /\ v1' = v1 /\ v2' = [v2 EXCEPT ![p] = name] /\ v3' = [v3 EXCEPT ![p] = create_parents]
      /\ v4' = [v4 EXCEPT ![p] = c] /\ v5' = [v5 EXCEPT ![p] = "none"]
      /\ v6' = [v6 EXCEPT ![p] = {}]
  BY DEF DirInv, Dir!Create
<1>2. r = [path |-> name, at |-> "mkdir"]
  BY DEF Dir!Call
<1>3. name \in Seq(Dir!Name) /\ name # << >>
  BY DirectoryAssumption DEF Dir!DirectoryCreationAssumption
<1> HIDE DEF r
<1>4. r \in CallRecord /\ r.path = name /\ r.at = "mkdir"
  BY <1>2, <1>3 DEF CallRecord
<1>5. c \in Seq(CallRecord) /\ Len(c) = 1 /\ c[1] = r
  BY <1>4
<1> HIDE DEF c
<1>6. Len(name) \in Nat \ {0} /\ Len(name) - 1 + 1 = Len(name) /\ SubSeq(name, 1, Len(name)) = name
  BY <1>3, LenProperties, EmptySeq, SubSeqFull
<1>7. ProgramInv(p)'
  <2>1. CallsAre(v1, {}, name, create_parents, c)
    <3>1. Len(c) <= Len(name) /\ ~(Len(c) > 1) /\ 1 .. Len(c) - 1 = {} /\ 1..Len(c) = {1}
      BY <1>5, <1>6
    <3>2. MayBeAt(v1, {}, name, 1, c[1].path, c[1].at)
      BY <1>4, <1>5 DEF MayBeAt
    <3>3. c[1].path = SubSeq(name, 1, Len(name) - 1 + 1)
      BY <1>4, <1>5, <1>6
    <3>4. \A k \in 1..Len(c) : /\ c[k].path = SubSeq(name, 1, Len(name) - k + 1)
                               /\ MayBeAt(v1, {}, name, k, c[k].path, c[k].at)
      BY <3>1, <3>2, <3>3
    <3>5. \A k \in 1 .. Len(c) - 1 : c[k].at = "mkdir"
      BY <3>1
    <3> QED
      BY <1>3, <1>5, <3>1, <3>4, <3>5, Zenon DEF CallsAre
  <2>2. ResultIs(v1, {}, name, create_parents, "none")
    BY DEF ResultIs
  <2>3. v2'[p] = name /\ v3'[p] = create_parents /\ v4'[p] = c /\ v5'[p] = "none" /\ v6'[p] = {}
    BY <1>1
  <2> QED
    BY <1>1, <2>1, <2>2, <2>3, Zenon DEF ProgramInv
<1>8. ASSUME NEW q \in Programs, q # p
      PROVE  ProgramInv(q)'
  <2>1. /\ v2'[q] = v2[q] /\ v3'[q] = v3[q] /\ v4'[q] = v4[q] /\ v5'[q] = v5[q] /\ v6'[q] = v6[q]
        /\ ProgramInv(q)
    BY <1>1, <1>8 DEF DirInv
  <2> QED
    BY <1>1, <2>1, ProgramStays
<1> QED
  BY <1>1, <1>7, <1>8 DEF DirInv

\* Steps of program p leave the calls of the others alone.
LEMMA OthersStay ==
    ASSUME DirInv, NEW p \in Programs, ProgramInv(p)', v1 \subseteq v1', UNCHANGED <<v2, v3, v6>>,
           DOMAIN v4' = Programs, DOMAIN v5' = Programs,
           \A q \in Programs : q # p => v4'[q] = v4[q] /\ v5'[q] = v5[q]
    PROVE  DirInv'
<1>1. ASSUME NEW q \in Programs, q # p
      PROVE  ProgramInv(q)'
  <2>1. ProgramInv(q)
    BY DEF DirInv
  <2> QED
    BY <1>1, <2>1, ProgramStays
<1> QED
  BY <1>1 DEF DirInv

\* mkdir() and what the code does with each of its errors
LEMMA MkdirKeeps ==
    ASSUME DirInv, NEW p \in Programs, Dir!Mkdir(p)
    PROVE  DirInv'
<1> DEFINE name == Dir!Top(p).path
           error == Dir!MkdirError(name)
<1>1. /\ v4[p] # << >> /\ v1 \subseteq v1' /\ UNCHANGED <<v2, v3, v6>>
      /\ error = "none" => name \in v1'
      /\ error # "none" => v1' = v1
      /\ \/ error = "none" /\ Dir!Return(p)
         \/ error = "EEXIST" /\ v4' = Dir!NowAt(p, "stat") /\ v5' = v5
         \/ error = "ENOENT" /\ v3[p] /\ Dir!Runs(p, "mkdir") /\ Dir!CallForParent(p)
         \/ error = "ENOENT" /\ (~v3[p] \/ Dir!Runs(p, "mkdir again")) /\ Dir!Throw(p, error)
         \/ error = "ENOTDIR" /\ Dir!Throw(p, error)
  BY DEF Dir!Mkdir, Dir!Runs
<1>2. ProgramInv(p) /\ DOMAIN v4 = Programs /\ DOMAIN v5 = Programs
  BY DEF DirInv
<1>3. DOMAIN v4' = Programs /\ DOMAIN v5' = Programs
  BY <1>1, <1>2 DEF Dir!Return, Dir!NowAt, Dir!CallForParent, Dir!Throw
<1>4. \A q \in Programs : q # p => v4'[q] = v4[q] /\ v5'[q] = v5[q]
  BY <1>1, <1>2 DEF Dir!Return, Dir!NowAt, Dir!CallForParent, Dir!Throw
<1>5. ProgramInv(p)'
  <2>1. CASE error = "none" /\ Dir!Return(p)
    BY <1>1, <2>1, ReturnKeeps
  <2>2. CASE error = "EEXIST" /\ v4' = Dir!NowAt(p, "stat") /\ v5' = v5
    <3>1. name \in v1 \cup Files
      BY <2>2, MkdirSays
    <3> QED
      BY <1>1, <2>2, <3>1, StatFollows
  <2>3. CASE error = "ENOENT" /\ v3[p] /\ Dir!Runs(p, "mkdir") /\ Dir!CallForParent(p)
    <3>1. name \notin Files /\ \A n \in 1..(Len(name) - 1) : SubSeq(name, 1, n) \notin Files
      BY <2>3, MkdirSays
    <3>2. Dir!Top(p).at = "mkdir"
      BY <2>3 DEF Dir!Runs
    <3>3. v1' = v1
      BY <1>1, <2>3
    <3> HIDE DEF error
    <3> QED
      BY <1>1, <2>3, <3>1, <3>2, <3>3, CallForParentKeeps
  <2>4. CASE error = "ENOENT" /\ (~v3[p] \/ Dir!Runs(p, "mkdir again")) /\ Dir!Throw(p, error)
    <3>1. Dir!Parent(name) \notin v1
      BY <2>4, MkdirSays
    <3>2. ASSUME Dir!Top(p).at = "mkdir again"
          PROVE  \E other \in v6[p] : Dir!IsPrefix(other, v2[p])
      <4> DEFINE d == Len(v4[p])
                 e == Len(v2[p])
      <4>1. /\ d \in 1..e /\ e \in Nat /\ Dir!Top(p) = v4[p][d] /\ v2[p] \in Seq(Dir!Name)
            /\ Dir!Parent(name) = SubSeq(v2[p], 1, e - d) /\ e - d \in 0..e
            /\ MayBeAt(v1, v6[p], v2[p], d, name, Dir!Top(p).at)
        BY <1>1, <1>2, TopFacts
      <4>2. SubSeq(v2[p], 1, e - d) \in v1 \cup v6[p]
        BY <3>2, <4>1 DEF MayBeAt
      <4>3. Dir!Parent(name) \in v6[p]
        BY <3>1, <4>1, <4>2, Zenon
      <4>4. Dir!IsPrefix(SubSeq(v2[p], 1, e - d), v2[p])
        BY <4>1, FirstIsPrefix
      <4> QED
        BY <4>1, <4>3, <4>4
    <3>3. ResultIs(v1, v6[p], v2[p], v3[p], "ENOENT")
      BY <2>4, <3>2 DEF ResultIs, Dir!Runs
    <3> HIDE DEF error
    <3> QED
      BY <1>1, <2>4, <3>3, ThrowKeeps
  <2>5. CASE error = "ENOTDIR" /\ Dir!Throw(p, error)
    <3>1. PICK n \in 1..(Len(name) - 1) : SubSeq(name, 1, n) \in Files
      BY <2>5, MkdirSays
    <3> DEFINE m == Len(v2[p]) - Len(v4[p]) + 1
    <3>2. /\ v2[p] \in Seq(Dir!Name) /\ m \in 0..Len(v2[p]) /\ name = SubSeq(v2[p], 1, m) /\ Len(name) = m
          /\ n \in 0..m /\ n \in 0..Len(v2[p])
      <4>1. /\ v2[p] \in Seq(Dir!Name) /\ name = SubSeq(v2[p], 1, m) /\ Len(name) = m
            /\ m \in 0..Len(v2[p]) /\ Len(v2[p]) \in Nat
        BY <1>1, <1>2, TopFacts
      <4> HIDE DEF m
      <4> QED
        BY <4>1
    <3> HIDE DEF m
    <3>3. SubSeq(name, 1, n) = SubSeq(v2[p], 1, n)
      BY <3>2, FirstOfFirst
    <3>4. Dir!IsPrefix(SubSeq(v2[p], 1, n), v2[p])
      BY <3>2, FirstIsPrefix
    <3>5. ResultIs(v1, v6[p], v2[p], v3[p], "ENOTDIR")
      BY <3>1, <3>3, <3>4 DEF ResultIs
    <3> HIDE DEF error
    <3> QED
      BY <1>1, <2>5, <3>5, ThrowKeeps
  <2> QED
    BY <1>1, <2>1, <2>2, <2>3, <2>4, <2>5
<1> QED
  BY <1>1, <1>3, <1>4, <1>5, OthersStay

\* stat() of what has been in the way: a directory will do.
LEMMA StatKeeps ==
    ASSUME DirInv, NEW p \in Programs, Dir!Stat(p)
    PROVE  DirInv'
<1> DEFINE name == Dir!Top(p).path
           path == v2[p]
<1>1. /\ v4[p] # << >> /\ Dir!Top(p).at = "stat" /\ UNCHANGED <<v1, v2, v3, v6>>
      /\ \/ name \in v1 /\ Dir!Return(p)
         \/ name \notin v1 /\ Dir!Throw(p, "EEXIST")
  BY DEF Dir!Stat, Dir!Runs
<1>2. ProgramInv(p) /\ DOMAIN v4 = Programs /\ DOMAIN v5 = Programs
  BY DEF DirInv
<1>3. DOMAIN v4' = Programs /\ DOMAIN v5' = Programs
  BY <1>1, <1>2 DEF Dir!Return, Dir!Throw
<1>4. \A q \in Programs : q # p => v4'[q] = v4[q] /\ v5'[q] = v5[q]
  BY <1>1, <1>2 DEF Dir!Return, Dir!Throw
<1>5. ProgramInv(p)'
  <2>1. CASE name \in v1 /\ Dir!Return(p)
    BY <1>1, <2>1, ReturnKeeps
  <2>2. CASE name \notin v1 /\ Dir!Throw(p, "EEXIST")
    <3> DEFINE d == Len(v4[p])
               e == Len(v2[p])
    <3>1. /\ d \in 1..e /\ e \in Nat /\ Dir!Top(p) = v4[p][d] /\ path \in Seq(Dir!Name)
          /\ name = SubSeq(path, 1, e - d + 1) /\ Dir!IsPrefix(name, path)
          /\ MayBeAt(v1, v6[p], path, d, name, Dir!Top(p).at)
      BY <1>1, <1>2, TopFacts
    <3>2. d > 1 => \A n \in 1 .. e - 1 : SubSeq(path, 1, n) \notin Files
      BY <1>2 DEF ProgramInv, CallsAre
    <3> HIDE DEF d, e
    <3>3. name \in Files \cup v6[p]
      <4>1. MayBeAt(v1, v6[p], path, d, name, "stat")
        BY <1>1, <3>1, Zenon
      <4> QED
        BY <2>2, <4>1 DEF MayBeAt
    <3>4. d > 1 => e - d + 1 \in 1..(e - 1)
      BY <3>1
    <3>5. d = 1 => e - d + 1 = e
      BY <3>1
    <3>6. ResultIs(v1, v6[p], path, v3[p], "EEXIST")
      <4>1. CASE name \in v6[p]
        BY <3>1, <4>1 DEF ResultIs
      <4>2. CASE name \in Files
        <5>1. ~(d > 1)
          BY <3>1, <3>2, <3>4, <4>2, Zenon
        <5>2. d = 1
          BY <3>1, <5>1
        <5>3. name = SubSeq(path, 1, Len(path))
          BY <3>1, <3>5, <5>2 DEF e
        <5>4. name = path
          BY <3>1, <5>3, SubSeqFull
        <5> QED
          BY <4>2, <5>4 DEF ResultIs
      <4> QED
        BY <3>3, <4>1, <4>2
    <3> QED
      BY <1>1, <2>2, <3>6, ThrowKeeps
  <2> QED
    BY <1>1, <2>1, <2>2
<1> QED
  BY <1>1, <1>3, <1>4, <1>5, OthersStay

\* remove_directory() is remembered by the calls under way.
LEMMA RemoveDirectoryKeeps ==
    ASSUME DirInv, NEW name, Dir!RemoveDirectory(name)
    PROVE  DirInv'
<1>1. /\ v1' = v1 \ {name} /\ v6' = [p \in Programs |-> v6[p] \cup {name}]
      /\ UNCHANGED <<v2, v3, v4, v5>>
  BY DEF Dir!RemoveDirectory
<1>2. ASSUME NEW p \in Programs
      PROVE  ProgramInv(p)'
  <2>1. v6'[p] = v6[p] \cup {name} /\ ProgramInv(p)
    BY <1>1 DEF DirInv
  <2> QED
    BY <1>1, <2>1, ProgramStays
<1> QED
  BY <1>1, <1>2 DEF DirInv

\* Programs that create overlapping directories, while some are removed, do not disturb
\* each other: a call that returns leaves its directory behind, and one with
\* create_parents throws only because of a file in the way or of a directory on its path
\* that was removed since it began.
THEOREM CreatorsAreIndependent == MCSpec => []CreatorsSucceed
<1> DEFINE Inv == component = "dir" => DirInv
<1>1. MCInit => Inv
  BY DirStarts DEF MCInit
<1>2. Inv /\ [MCNext]_vars => Inv'
  <2> SUFFICES ASSUME Inv, [MCNext]_vars, component' = "dir"
               PROVE  DirInv'
    OBVIOUS
  <2>1. CASE UNCHANGED vars
    BY <2>1 DEF vars, DirInv, ProgramInv
  <2>2. CASE MCNext
    <3>1. component = "dir" /\ DirInv /\ Dir!Next
      BY <2>2 DEF MCNext
    <3> QED
      BY <3>1, CreateKeeps, MkdirKeeps, StatKeeps, RemoveDirectoryKeeps DEF Dir!Next
  <2> QED
    BY <2>1, <2>2
<1>3. Inv => CreatorsSucceed
  BY DEF DirInv, ProgramInv, ResultIs, CreatorsSucceed, Dir!CreatorsSucceed, Dir!RemovedWithin
<1> QED
  BY <1>1, <1>2, <1>3, PTL DEF MCSpec

-----------------------------------------------------------------------------
(* Patterns: v1 is input, v2 is pattern, v3 is at, v4 is i, v5 is p, v6 is   *)
(* saved_input, v7 is saved_pattern, v8 is result.                          *)

\* Positions in the string s and the pattern t
Pairs(s, t) == (1..(Len(s) + 1)) \X (1..(Len(t) + 1))

\* By the definition of the wildcards, the string from n on is an instance of the
\* pattern from m on if R contains the pairs of which that is known.
Follows(R, s, t, n, m) ==
    \/ m > Len(t) /\ n > Len(s)
    \/ /\ m <= Len(t) /\ t[m] = "*"
       /\ <<n, m + 1>> \in R \/ (n <= Len(s) /\ <<n + 1, m>> \in R)
    \/ /\ m <= Len(t) /\ t[m] # "*" /\ n <= Len(s)
       /\ s[n] = t[m] \/ t[m] = "?"
       /\ <<n + 1, m + 1>> \in R

\* R is the set of these pairs.
AreInstances(R, s, t) ==
    \A n \in 1..(Len(s) + 1), m \in 1..(Len(t) + 1) : <<n, m>> \in R <=> Follows(R, s, t, n, m)

\* What follows from some instances follows from more of them.
LEMMA FollowsMore ==
    ASSUME NEW s, NEW t, NEW n, NEW m, NEW Q, NEW R, Q \subseteq R, Follows(Q, s, t, n, m)
    PROVE  Follows(R, s, t, n, m)
BY Zenon DEF Follows

\* There is such a set: the least one that is closed under the rules.
LEMMA InstancesExist ==
    ASSUME NEW s, NEW t
    PROVE  \E R \in SUBSET Pairs(s, t) : AreInstances(R, s, t)
<1> DEFINE S == 1..(Len(s) + 1)
           T == 1..(Len(t) + 1)
           Closed(Q) == \A n \in S, m \in T : Follows(Q, s, t, n, m) => <<n, m>> \in Q
           R == {x \in Pairs(s, t) : \A Q \in SUBSET Pairs(s, t) : Closed(Q) => x \in Q}
<1>1. \A n \in S, m \in T : <<n, m>> \in Pairs(s, t)
  BY DEF Pairs
<1>2. R \subseteq Pairs(s, t) /\ \A Q \in SUBSET Pairs(s, t) : Closed(Q) => R \subseteq Q
  BY Zenon
<1> HIDE DEF S, T
<1>3. ASSUME NEW n \in S, NEW m \in T, Follows(R, s, t, n, m)
      PROVE  <<n, m>> \in R
  <2>1. ASSUME NEW Q \in SUBSET Pairs(s, t), Closed(Q)
        PROVE  <<n, m>> \in Q
    <3>1. Follows(Q, s, t, n, m)
      BY <1>2, <1>3, <2>1, FollowsMore, Zenon
    <3> QED
      BY <2>1, <3>1, Zenon
  <2> QED
    BY <1>1, <2>1, Zenon
<1>4. ASSUME NEW n \in S, NEW m \in T, <<n, m>> \in R, ~Follows(R, s, t, n, m)
      PROVE  FALSE
  <2> DEFINE Q == R \ {<<n, m>>}
  <2>1. Q \subseteq R /\ Q \in SUBSET Pairs(s, t) /\ <<n, m>> \notin Q
    BY <1>2, Zenon
  <2>2. ASSUME NEW i \in S, NEW j \in T, Follows(Q, s, t, i, j)
        PROVE  <<i, j>> \in Q
    <3>1. Follows(R, s, t, i, j)
      BY <2>1, <2>2, FollowsMore, Zenon
    <3>2. <<i, j>> \in R
      BY <1>3, <3>1, Zenon
    <3>3. <<i, j>> # <<n, m>>
      <4>1. ASSUME <<i, j>> = <<n, m>>
            PROVE  FALSE
        <5>1. i = n /\ j = m
          BY <4>1
        <5> QED
          BY <1>4, <3>1, <5>1, Zenon
      <4> QED
        BY <4>1
    <3> QED
      BY <3>2, <3>3, Zenon
  <2>3. Closed(Q)
    BY <2>2, Zenon
  <2> HIDE DEF Closed, Q
  <2>4. R \subseteq Q
    BY <1>2, <2>1, <2>3, Zenon
  <2> QED
    BY <1>4, <2>1, <2>4, Zenon
<1>5. AreInstances(R, s, t)
  BY <1>3, <1>4, Zenon DEF AreInstances, S, T
<1> QED
  BY <1>2, <1>5, Zenon

-----------------------------------------------------------------------------
\* The definition by recursion is the one by the rules.
RecursionHolds(g) ==
    g = [x \in (1..(Len(v1) + 1)) \X (1..(Len(v2) + 1)) |->
            LET n == x[1]
                m == x[2]
            IN  IF Match!PatternEnds(m) THEN Match!InputEnds(n)
                ELSE IF v2[m] = "*"
                     THEN g[<<n, m + 1>>] \/ (~Match!InputEnds(n) /\ g[<<n + 1, m>>])
                ELSE ~Match!InputEnds(n) /\ Match!Agree(n, m) /\ g[<<n + 1, m + 1>>]]

InstanceSet == {x \in Pairs(v1, v2) : Match!Instances[x]}

\* What the recursive definition of the wildcards gives is a set of instances.
LEMMA InstancesAre ==
    ASSUME Len(v1) \in Nat, Len(v2) \in Nat
    PROVE  AreInstances(InstanceSet, v1, v2) /\ (Match!Instance <=> <<1, 1>> \in InstanceSet)
<1>1. PICK R \in SUBSET Pairs(v1, v2) : AreInstances(R, v1, v2)
  BY InstancesExist
<1> DEFINE g == [x \in Pairs(v1, v2) |-> x \in R]
<1>2. RecursionHolds(g)
  <2>1. ASSUME NEW n \in 1..(Len(v1) + 1), NEW m \in 1..(Len(v2) + 1)
        PROVE  <<n, m>> \in R <=>
                 IF Match!PatternEnds(m) THEN Match!InputEnds(n)
                 ELSE IF v2[m] = "*"
                      THEN g[<<n, m + 1>>] \/ (~Match!InputEnds(n) /\ g[<<n + 1, m>>])
                 ELSE ~Match!InputEnds(n) /\ Match!Agree(n, m) /\ g[<<n + 1, m + 1>>]
    <3>1. <<n, m>> \in R <=> Follows(R, v1, v2, n, m)
      BY <1>1 DEF AreInstances
    <3>2. m <= Len(v2) => m + 1 \in 1..(Len(v2) + 1)
      OBVIOUS
    <3>3. n <= Len(v1) => n + 1 \in 1..(Len(v1) + 1)
      OBVIOUS
    <3>4. m <= Len(v2) => (g[<<n, m + 1>>] <=> <<n, m + 1>> \in R)
      BY <3>2 DEF Pairs
    <3>5. n <= Len(v1) => (g[<<n + 1, m>>] <=> <<n + 1, m>> \in R)
      BY <3>3 DEF Pairs
    <3>6. n <= Len(v1) /\ m <= Len(v2) => (g[<<n + 1, m + 1>>] <=> <<n + 1, m + 1>> \in R)
      BY <3>2, <3>3 DEF Pairs
    <3>7. (Match!PatternEnds(m) <=> m > Len(v2)) /\ (Match!InputEnds(n) <=> n > Len(v1))
          /\ (m > Len(v2) <=> ~(m <= Len(v2))) /\ (n > Len(v1) <=> ~(n <= Len(v1)))
          /\ (Match!Agree(n, m) <=> v1[n] = v2[m] \/ v2[m] = "?")
      BY DEF Match!PatternEnds, Match!InputEnds, Match!Agree
    <3> HIDE DEF g
    <3> QED
      BY <3>1, <3>4, <3>5, <3>6, <3>7, Zenon DEF Follows
  <2> DEFINE body(n, m) ==
               IF Match!PatternEnds(m) THEN Match!InputEnds(n)
               ELSE IF v2[m] = "*"
                    THEN g[<<n, m + 1>>] \/ (~Match!InputEnds(n) /\ g[<<n + 1, m>>])
               ELSE ~Match!InputEnds(n) /\ Match!Agree(n, m) /\ g[<<n + 1, m + 1>>]
  <2>2. ASSUME NEW x \in Pairs(v1, v2)
        PROVE  (x \in R) = body(x[1], x[2])
    <3>1. x[1] \in 1..(Len(v1) + 1) /\ x[2] \in 1..(Len(v2) + 1) /\ x = <<x[1], x[2]>>
      BY DEF Pairs
    <3>2. x \in R <=> body(x[1], x[2])
      BY <2>1, <3>1, Zenon
    <3>3. body(x[1], x[2]) \in BOOLEAN
      <4>1. CASE Match!PatternEnds(x[2])
        <5>1. body(x[1], x[2]) = (x[1] > Len(v1))
          BY <4>1 DEF Match!InputEnds
        <5> HIDE DEF body
        <5> QED
          BY <5>1
      <4>2. CASE ~Match!PatternEnds(x[2]) /\ v2[x[2]] = "*"
        <5> DEFINE a == g[<<x[1], x[2] + 1>>]
                   b == ~Match!InputEnds(x[1]) /\ g[<<x[1] + 1, x[2]>>]
        <5>1. body(x[1], x[2]) = (a \/ b)
          BY <4>2
        <5> HIDE DEF body, a, b
        <5> QED
          BY <5>1
      <4>3. CASE ~Match!PatternEnds(x[2]) /\ v2[x[2]] # "*"
        <5> DEFINE a == ~Match!InputEnds(x[1])
                   b == Match!Agree(x[1], x[2]) /\ g[<<x[1] + 1, x[2] + 1>>]
        <5>1. body(x[1], x[2]) = (a /\ b)
          BY <4>3
        <5> HIDE DEF body, a, b
        <5> QED
          BY <5>1
      <4> QED
        BY <4>1, <4>2, <4>3
    <3> HIDE DEF body
    <3> QED
      BY <3>2, <3>3
  <2>3. g = [x \in Pairs(v1, v2) |-> body(x[1], x[2])]
    <3> HIDE DEF body
    <3> QED
      BY <2>2, Zenon
  <2> QED
    BY <2>3, Zenon DEF RecursionHolds, Pairs
<1> HIDE DEF g
<1>3. Match!Instances = CHOOSE h : RecursionHolds(h)
  BY Zenon DEF Match!Instances, RecursionHolds
<1>4. RecursionHolds(Match!Instances)
  BY <1>2, <1>3, Zenon
<1> DEFINE h == Match!Instances
<1>5. ASSUME NEW n \in 1..(Len(v1) + 1), NEW m \in 1..(Len(v2) + 1)
      PROVE  <<n, m>> \in InstanceSet <=> Follows(InstanceSet, v1, v2, n, m)
  <2>1. h[<<n, m>>] = IF Match!PatternEnds(m) THEN Match!InputEnds(n)
                      ELSE IF v2[m] = "*"
                           THEN h[<<n, m + 1>>] \/ (~Match!InputEnds(n) /\ h[<<n + 1, m>>])
                      ELSE ~Match!InputEnds(n) /\ Match!Agree(n, m) /\ h[<<n + 1, m + 1>>]
    <3> HIDE DEF h
    <3>1. RecursionHolds(h)
      BY <1>4 DEF h
    <3> QED
      BY <3>1 DEF RecursionHolds
  <2>2. m <= Len(v2) => m + 1 \in 1..(Len(v2) + 1)
    OBVIOUS
  <2>3. n <= Len(v1) => n + 1 \in 1..(Len(v1) + 1)
    OBVIOUS
  <2>4. <<n, m>> \in InstanceSet <=> h[<<n, m>>]
    BY DEF Pairs, InstanceSet
  <2>5. m <= Len(v2) => (h[<<n, m + 1>>] <=> <<n, m + 1>> \in InstanceSet)
    BY <2>2 DEF Pairs, InstanceSet
  <2>6. n <= Len(v1) => (h[<<n + 1, m>>] <=> <<n + 1, m>> \in InstanceSet)
    BY <2>3 DEF Pairs, InstanceSet
  <2>7. n <= Len(v1) /\ m <= Len(v2) => (h[<<n + 1, m + 1>>] <=> <<n + 1, m + 1>> \in InstanceSet)
    BY <2>2, <2>3 DEF Pairs, InstanceSet
  <2>8. (Match!PatternEnds(m) <=> m > Len(v2)) /\ (Match!InputEnds(n) <=> n > Len(v1))
        /\ (m > Len(v2) <=> ~(m <= Len(v2))) /\ (n > Len(v1) <=> ~(n <= Len(v1)))
        /\ (Match!Agree(n, m) <=> v1[n] = v2[m] \/ v2[m] = "?")
    BY DEF Match!PatternEnds, Match!InputEnds, Match!Agree
  <2> HIDE DEF h
  <2> QED
    BY <2>1, <2>4, <2>5, <2>6, <2>7, <2>8, Zenon DEF Follows
<1>6. Match!Instance <=> <<1, 1>> \in InstanceSet
  BY DEF Match!Instance, InstanceSet, Pairs
<1> QED
  BY <1>5, <1>6 DEF AreInstances

-----------------------------------------------------------------------------
(* What the definition says of asterisks and of segments.  In<<n, m>> is    *)
(* that the string from n on is an instance of the pattern from m on.       *)

\* An asterisk that can begin further on can begin here.
LEMMA AsteriskExtends ==
    ASSUME NEW s, NEW t, Len(s) \in Nat, Len(t) \in Nat, NEW R, AreInstances(R, s, t),
           NEW m \in 1..Len(t), t[m] = "*",
           NEW b \in 1..(Len(s) + 1), <<b, m>> \in R, NEW a \in 1..b
    PROVE  <<a, m>> \in R
<1> DEFINE T == {d \in Nat : b - d >= 1 /\ <<b - d, m>> \notin R}
<1>1. T = {}
  <2> SUFFICES ASSUME T # {}
               PROVE  FALSE
    OBVIOUS
  <2>1. T \in SUBSET Nat
    OBVIOUS
  <2>2. PICK d \in T : \A e \in T : d <= e
    BY <2>1, LeastNatural
  <2> DEFINE c == b - d
             c1 == b - (d - 1)
  <2>3. d \in Nat /\ c >= 1 /\ <<c, m>> \notin R
    OBVIOUS
  <2>4. d # 0
    <3>1. ASSUME d = 0
          PROVE  FALSE
      <4>1. c = b
        BY <3>1
      <4> HIDE DEF c
      <4> QED
        BY <2>3, <4>1
    <3> QED
      BY <3>1
  <2>5. d - 1 \in Nat /\ d - 1 \notin T
    BY <2>2, <2>3, <2>4
  <2>6. c1 >= 1 /\ c1 = c + 1 /\ c \in 1..(Len(s) + 1) /\ c <= Len(s) /\ m \in 1..(Len(t) + 1)
        /\ m <= Len(t)
    BY <2>3, <2>4
  <2>7. <<c1, m>> \in R
    BY <2>5, <2>6
  <2> HIDE DEF c, c1
  <2>8. Follows(R, s, t, c, m)
    BY <2>6, <2>7 DEF Follows
  <2> QED
    BY <2>3, <2>6, <2>8 DEF AreInstances
<1> DEFINE d == b - a
<1>2. d \in Nat /\ b - d = a /\ a >= 1
  OBVIOUS
<1> HIDE DEF d
<1>3. <<b - d, m>> \in R
  BY <1>1, <1>2
<1> QED
  BY <1>2, <1>3

\* What follows an asterisk begins somewhere.
LEMMA AsteriskIs ==
    ASSUME NEW s, NEW t, Len(s) \in Nat, Len(t) \in Nat, NEW R, AreInstances(R, s, t),
           NEW m \in 1..Len(t), t[m] = "*", NEW n \in 1..(Len(s) + 1)
    PROVE  <<n, m>> \in R <=> \E b \in n..(Len(s) + 1) : <<b, m + 1>> \in R
<1>1. ASSUME NEW b \in n..(Len(s) + 1), <<b, m + 1>> \in R
      PROVE  <<n, m>> \in R
  <2>1. b \in 1..(Len(s) + 1) /\ n \in 1..b /\ m \in 1..(Len(t) + 1) /\ m <= Len(t)
    OBVIOUS
  <2>2. <<b, m>> \in R
    <3>1. Follows(R, s, t, b, m)
      BY <1>1, <2>1 DEF Follows
    <3> QED
      BY <2>1, <3>1 DEF AreInstances
  <2> QED
    BY <2>1, <2>2, AsteriskExtends
<1>2. ASSUME <<n, m>> \in R
      PROVE  \E b \in n..(Len(s) + 1) : <<b, m + 1>> \in R
  <2> DEFINE z == Len(s) + 1
             T == {d \in Nat : z - d >= n /\ <<z - d, m>> \in R}
  <2>1. z - n \in T
    <3> DEFINE d == z - n
    <3>1. d \in Nat /\ z - d = n /\ z - d >= n
      OBVIOUS
    <3> HIDE DEF d
    <3>2. d \in T
      BY <1>2, <3>1
    <3> QED
      BY <3>2 DEF d
  <2>2. T \in SUBSET Nat /\ T # {}
    BY <2>1
  <2>3. PICK d \in T : \A e \in T : d <= e
    BY <2>2, LeastNatural
  <2> DEFINE b == z - d
             b1 == z - (d - 1)
  <2>4. d \in Nat /\ b >= n /\ <<b, m>> \in R
    OBVIOUS
  <2>5. b \in n..(Len(s) + 1) /\ b \in 1..(Len(s) + 1) /\ m \in 1..(Len(t) + 1) /\ m <= Len(t)
        /\ b1 = b + 1 /\ (b <= Len(s) => d - 1 \in Nat /\ b1 >= n) /\ d - 1 < d
    BY <2>4
  <2>6. Follows(R, s, t, b, m)
    BY <2>4, <2>5 DEF AreInstances
  <2>7. <<b, m + 1>> \in R \/ (b <= Len(s) /\ <<b + 1, m>> \in R)
    BY <2>5, <2>6 DEF Follows
  <2>8. ASSUME b <= Len(s), <<b + 1, m>> \in R
        PROVE  FALSE
    <3>1. d - 1 \in Nat /\ b1 >= n /\ <<b1, m>> \in R
      BY <2>5, <2>8
    <3>2. d - 1 \in T
      BY <3>1
    <3>3. d <= d - 1
      BY <2>3, <3>2
    <3> QED
      BY <2>4, <3>3
  <2> QED
    BY <2>5, <2>7, <2>8, Zenon
<1> QED
  BY <1>1, <1>2

\* Several asterisks are one.
LEMMA AsterisksAre ==
    ASSUME NEW s, NEW t, Len(s) \in Nat, Len(t) \in Nat, NEW R, AreInstances(R, s, t),
           NEW m \in 1..Len(t), NEW next \in (m + 1)..(Len(t) + 1),
           \A k \in m..(next - 1) : t[k] = "*", NEW n \in 1..(Len(s) + 1)
    PROVE  <<n, m>> \in R <=> \E b \in n..(Len(s) + 1) : <<b, next>> \in R
<1> DEFINE Is(k) == <<n, m>> \in R <=> \E b \in n..(Len(s) + 1) : <<b, k>> \in R
           T == {d \in Nat : m + 1 + d <= next /\ ~Is(m + 1 + d)}
<1>1. T = {}
  <2> SUFFICES ASSUME T # {}
               PROVE  FALSE
    OBVIOUS
  <2> HIDE DEF Is
  <2>1. T \in SUBSET Nat
    OBVIOUS
  <2>2. PICK d \in T : \A e \in T : d <= e
    BY <2>1, LeastNatural
  <2>3. d \in Nat /\ m + 1 + d <= next /\ ~Is(m + 1 + d)
    OBVIOUS
  <2>4. d # 0
    <3>1. Is(m + 1)
      <4>1. t[m] = "*"
        OBVIOUS
      <4> QED
        BY <4>1, AsteriskIs DEF Is
    <3>2. ASSUME d = 0
          PROVE  FALSE
      <4> DEFINE k == m + 1 + d
      <4>1. k = m + 1 /\ ~Is(k)
        BY <2>3, <3>2
      <4> HIDE DEF k
      <4> QED
        BY <3>1, <4>1, Zenon
    <3> QED
      BY <3>2
  <2> DEFINE k == m + d
  <2>5. d - 1 \in Nat /\ ~(d <= d - 1) /\ m + 1 + (d - 1) = k /\ m + 1 + (d - 1) <= next
    BY <2>3, <2>4
  <2>6. Is(k)
    <3>1. d - 1 \notin T
      BY <2>2, <2>5
    <3>2. Is(m + 1 + (d - 1))
      BY <2>5, <3>1
    <3> QED
      BY <2>5, <3>2, Zenon
  <2>7. k \in 1..Len(t) /\ t[k] = "*" /\ k + 1 = m + 1 + d
    BY <2>3, <2>4
  <2> HIDE DEF k
  <2>8. Is(k + 1)
    <3>1. ASSUME <<n, m>> \in R
          PROVE  \E b \in n..(Len(s) + 1) : <<b, k + 1>> \in R
      <4>1. PICK a \in n..(Len(s) + 1) : <<a, k>> \in R
        BY <2>6, <3>1 DEF Is
      <4>2. a \in 1..(Len(s) + 1) /\ a..(Len(s) + 1) \subseteq n..(Len(s) + 1)
        OBVIOUS
      <4>3. PICK b \in a..(Len(s) + 1) : <<b, k + 1>> \in R
        BY <2>7, <4>1, <4>2, AsteriskIs
      <4> QED
        BY <4>2, <4>3
    <3>2. ASSUME NEW b \in n..(Len(s) + 1), <<b, k + 1>> \in R
          PROVE  <<n, m>> \in R
      <4>1. b \in 1..(Len(s) + 1) /\ b \in b..(Len(s) + 1)
        OBVIOUS
      <4>2. <<b, k>> \in R
        BY <2>7, <3>2, <4>1, AsteriskIs
      <4> QED
        BY <2>6, <4>2 DEF Is
    <3> QED
      BY <3>1, <3>2 DEF Is
  <2> QED
    BY <2>3, <2>7, <2>8
<1> DEFINE d == next - m - 1
<1>2. d \in Nat /\ m + 1 + d = next /\ m + 1 + d <= next
  OBVIOUS
<1> HIDE DEF d, Is
<1>3. Is(m + 1 + d)
  BY <1>1, <1>2
<1>4. Is(next)
  BY <1>2, <1>3
<1> QED
  BY <1>4 DEF Is

\* An instance of a pattern begins with an instance of its first segment.
LEMMA SegmentIs ==
    ASSUME NEW s, NEW t, Len(s) \in Nat, Len(t) \in Nat, NEW R, AreInstances(R, s, t),
           NEW m \in 1..(Len(t) + 1), NEW n \in 1..(Len(s) + 1), <<n, m>> \in R,
           NEW d \in Nat, m + d <= Len(t) + 1, \A k \in m..(m + d - 1) : t[k] # "*"
    PROVE  n + d <= Len(s) + 1 /\ <<n + d, m + d>> \in R
<1> DEFINE Is(e) == n + e <= Len(s) + 1 /\ <<n + e, m + e>> \in R
           T == {e \in Nat : e <= d /\ ~Is(e)}
<1>1. T = {}
  <2> SUFFICES ASSUME T # {}
               PROVE  FALSE
    OBVIOUS
  <2> HIDE DEF Is
  <2>1. T \in SUBSET Nat
    OBVIOUS
  <2>2. PICK e \in T : \A x \in T : e <= x
    BY <2>1, LeastNatural
  <2>3. e \in Nat /\ e <= d /\ ~Is(e)
    OBVIOUS
  <2>4. Is(0)
    <3>1. n + 0 = n /\ m + 0 = m /\ n <= Len(s) + 1
      OBVIOUS
    <3> QED
      BY <3>1 DEF Is
  <2>5. e # 0
    BY <2>3, <2>4
  <2> DEFINE x == e - 1
             n1 == n + x
             m1 == m + x
  <2>6. x \in Nat /\ x \notin T /\ x <= d /\ x + 1 = e
    BY <2>2, <2>3, <2>5
  <2>7. Is(x)
    BY <2>6
  <2>8. n1 \in 1..(Len(s) + 1) /\ m1 \in 1..(Len(t) + 1) /\ m1 <= Len(t) /\ n1 + 1 = n + e
        /\ m1 + 1 = m + e /\ m1 \in m..(m + d - 1) /\ <<n1, m1>> \in R
    BY <2>3, <2>6, <2>7 DEF Is
  <2> HIDE DEF x, n1, m1
  <2>9. t[m1] # "*" /\ Follows(R, s, t, n1, m1)
    BY <2>8 DEF AreInstances
  <2>10. n1 <= Len(s) /\ <<n1 + 1, m1 + 1>> \in R
    BY <2>8, <2>9 DEF Follows
  <2>11. n + e <= Len(s) + 1 /\ <<n + e, m + e>> \in R
    <3>1. n1 + 1 <= Len(s) + 1
      BY <2>8, <2>10
    <3> QED
      BY <2>8, <2>10, <3>1, Zenon
  <2> QED
    BY <2>3, <2>11 DEF Is
<1> HIDE DEF Is
<1>2. Is(d)
  BY <1>1
<1> QED
  BY <1>2 DEF Is

-----------------------------------------------------------------------------
(* The loops of match_pattern_impl()                                       *)

\* The latest attempt at a segment, which began at si and sp, has come to i and p.  What
\* comes before is settled: the pattern from sp on has to begin somewhere from si on.
InSegment(R, s, t, i, p, si, sp) ==
    /\ si \in 1..(Len(s) + 1) /\ sp \in 1..Len(t) /\ i \in 1..(Len(s) + 1) /\ p \in sp..Len(t)
    /\ i = si + (p - sp)
    /\ \A k \in sp..p : t[k] # "*"
    /\ <<1, 1>> \in R <=> \E b \in si..(Len(s) + 1) : <<b, sp>> \in R
    /\ <<si, sp>> \in R <=> <<i, p>> \in R

AtPosition(R, s, t, n, m) ==
    n \in 1..(Len(s) + 1) /\ m \in 1..(Len(t) + 1) /\ (<<1, 1>> \in R <=> <<n, m>> \in R)

MatchIsAt(R) ==
    /\ Len(v1) \in Nat /\ Len(v2) \in Nat
    /\ v3 \in {"prefix", "asterisk", "segment", "done"}
    /\ v3 = "prefix" => AtPosition(R, v1, v2, v4, v5)
    /\ v3 = "asterisk" =>
          AtPosition(R, v1, v2, v4, v5) /\ v5 <= Len(v2) /\ v2[v5] = "*"
    /\ v3 = "segment" => InSegment(R, v1, v2, v4, v5, v6, v7)
    /\ v3 = "done" => (v8 <=> <<1, 1>> \in R)

MatchInv == MatchIsAt(InstanceSet)

\* match_pattern() starts with nothing read and nothing saved.
LEMMA MatchStarts ==
    ASSUME Match!Init
    PROVE  MatchInv
<1>1. Len(v1) \in Nat /\ Len(v2) \in Nat
  BY MatchAssumption, LenProperties DEF Match!Init, Match!PatternMatchingAssumption
<1>2. v3 = "prefix" /\ v4 = 1 /\ v5 = 1
  BY DEF Match!Init
<1>3. AtPosition(InstanceSet, v1, v2, 1, 1)
  BY <1>1 DEF AtPosition
<1> QED
  BY <1>1, <1>2, <1>3 DEF MatchInv, MatchIsAt

\* The prefix is matched character by character.
LEMMA MatchPrefixKeeps ==
    ASSUME NEW R, AreInstances(R, v1, v2), MatchIsAt(R), Match!MatchPrefix
    PROVE  MatchIsAt(R)' /\ UNCHANGED <<v1, v2>>
<1>1. /\ Len(v1) \in Nat /\ Len(v2) \in Nat /\ v3 = "prefix"
      /\ v4 \in 1..(Len(v1) + 1) /\ v5 \in 1..(Len(v2) + 1)
      /\ (<<1, 1>> \in R <=> <<v4, v5>> \in R)
  BY DEF MatchIsAt, AtPosition, Match!MatchPrefix
<1>2. <<v4, v5>> \in R <=> Follows(R, v1, v2, v4, v5)
  BY <1>1 DEF AreInstances
<1>3. v1' = v1 /\ v2' = v2
  BY DEF Match!MatchPrefix, Match!Return, Match!Goto, Match!texts
<1>4. CASE v5 > Len(v2)
  <2>1. v3' = "done" /\ v8' = (v4 > Len(v1))
    BY <1>4 DEF Match!MatchPrefix, Match!Return, Match!PatternEnds, Match!InputEnds
  <2>2. <<v4, v5>> \in R <=> v4 > Len(v1)
    BY <1>1, <1>2, <1>4 DEF Follows
  <2>3. v8' <=> <<1, 1>> \in R
    BY <1>1, <2>1, <2>2, Zenon
  <2> QED
    BY <1>1, <1>3, <2>1, <2>3 DEF MatchIsAt
<1>5. CASE v5 <= Len(v2) /\ v2[v5] = "*"
  <2>1. v3' = "asterisk" /\ v4' = v4 /\ v5' = v5
    BY <1>1, <1>5 DEF Match!MatchPrefix, Match!Goto, Match!PatternEnds
  <2> QED
    BY <1>1, <1>3, <1>5, <2>1 DEF MatchIsAt, AtPosition
<1>6. CASE /\ v5 <= Len(v2) /\ v2[v5] # "*"
           /\ v4 > Len(v1) \/ ~(v1[v4] = v2[v5] \/ v2[v5] = "?")
  <2>1. v3' = "done" /\ v8' = FALSE
    BY <1>1, <1>6 DEF Match!MatchPrefix, Match!Return, Match!PatternEnds, Match!InputEnds, Match!Agree
  <2>2. <<v4, v5>> \notin R
    BY <1>1, <1>2, <1>6 DEF Follows
  <2> QED
    BY <1>1, <1>3, <2>1, <2>2 DEF MatchIsAt
<1>7. CASE /\ v5 <= Len(v2) /\ v2[v5] # "*"
           /\ v4 <= Len(v1) /\ (v1[v4] = v2[v5] \/ v2[v5] = "?")
  <2>1. v3' = "prefix" /\ v4' = v4 + 1 /\ v5' = v5 + 1
    <3>1. /\ ~Match!InputEnds(v4) /\ ~Match!PatternEnds(v5) /\ Match!Agree(v4, v5)
      BY <1>1, <1>7 DEF Match!InputEnds, Match!PatternEnds, Match!Agree
    <3>2. Match!Goto("prefix", v4 + 1, v5 + 1)
      BY <1>7, <3>1, Zenon DEF Match!MatchPrefix
    <3> QED
      BY <3>2 DEF Match!Goto
  <2>2. <<v4, v5>> \in R <=> <<v4 + 1, v5 + 1>> \in R
    BY <1>1, <1>2, <1>7 DEF Follows
  <2>3. v4 + 1 \in 1..(Len(v1) + 1) /\ v5 + 1 \in 1..(Len(v2) + 1)
    BY <1>1, <1>7
  <2>4. AtPosition(R, v1, v2, v4 + 1, v5 + 1)
    BY <1>1, <2>2, <2>3, Zenon DEF AtPosition
  <2> QED
    BY <1>1, <1>3, <2>1, <2>4 DEF MatchIsAt
<1>8. \/ v5 > Len(v2)
      \/ v5 <= Len(v2) /\ v2[v5] = "*"
      \/ /\ v5 <= Len(v2) /\ v2[v5] # "*"
         /\ v4 > Len(v1) \/ ~(v1[v4] = v2[v5] \/ v2[v5] = "?")
      \/ /\ v5 <= Len(v2) /\ v2[v5] # "*"
         /\ v4 <= Len(v1) /\ (v1[v4] = v2[v5] \/ v2[v5] = "?")
  BY <1>1
<1> QED
  BY <1>3, <1>4, <1>5, <1>6, <1>7, <1>8, Zenon

\* A segment begins, or the rest of the input is what the asterisk stands for.
LEMMA SkipAsterisksKeeps ==
    ASSUME NEW R, AreInstances(R, v1, v2), MatchIsAt(R), Match!SkipAsterisks
    PROVE  MatchIsAt(R)' /\ UNCHANGED <<v1, v2>>
<1>1. /\ Len(v1) \in Nat /\ Len(v2) \in Nat
      /\ v4 \in 1..(Len(v1) + 1) /\ v5 \in 1..Len(v2) /\ v2[v5] = "*"
      /\ (<<1, 1>> \in R <=> <<v4, v5>> \in R)
  BY DEF MatchIsAt, AtPosition, Match!SkipAsterisks
<1>2. PICK next \in (v5 + 1)..(Len(v2) + 1) :
          /\ \A k \in v5..(next - 1) : v2[k] = "*"
          /\ \/ next > Len(v2) /\ Match!Return(TRUE)
             \/ /\ ~(next > Len(v2)) /\ v2[next] # "*"
                /\ v3' = "segment" /\ v5' = next /\ v6' = v4 /\ v7' = next
                /\ UNCHANGED <<Match!texts, v4, v8>>
  BY DEF Match!SkipAsterisks, Match!PatternEnds
<1>3. v1' = v1 /\ v2' = v2
  BY <1>2 DEF Match!Return, Match!texts
<1>4. <<v4, v5>> \in R <=> \E b \in v4..(Len(v1) + 1) : <<b, next>> \in R
  <2>1. \A k \in v5..(next - 1) : v2[k] = "*"
    BY <1>2
  <2> QED
    BY <1>1, <2>1, AsterisksAre, Zenon
<1>5. CASE next > Len(v2) /\ Match!Return(TRUE)
  <2> DEFINE b == Len(v1) + 1
  <2>1. b \in v4..(Len(v1) + 1) /\ b \in 1..(Len(v1) + 1) /\ next \in 1..(Len(v2) + 1) /\ b > Len(v1)
    BY <1>1, <1>2
  <2> HIDE DEF b
  <2>2. Follows(R, v1, v2, b, next)
    BY <1>5, <2>1 DEF Follows
  <2>3. <<b, next>> \in R
    BY <2>1, <2>2 DEF AreInstances
  <2>4. <<1, 1>> \in R
    BY <1>1, <1>4, <2>1, <2>3
  <2>5. v3' = "done" /\ v8' = TRUE
    BY <1>5 DEF Match!Return
  <2> QED
    BY <1>1, <1>3, <2>4, <2>5 DEF MatchIsAt
<1>6. CASE /\ ~(next > Len(v2)) /\ v2[next] # "*"
           /\ v3' = "segment" /\ v5' = next /\ v6' = v4 /\ v7' = next /\ v4' = v4
  <2>1. next \in 1..Len(v2) /\ next \in next..Len(v2) /\ v4 = v4 + (next - next) /\ next..next = {next}
    BY <1>1, <1>2, <1>6
  <2>2. InSegment(R, v1, v2, v4, next, v4, next)
    BY <1>1, <1>4, <1>6, <2>1 DEF InSegment
  <2> QED
    BY <1>1, <1>3, <1>6, <2>2 DEF MatchIsAt
<1> QED
  BY <1>2, <1>3, <1>5, <1>6

\* An attempt has failed; the next one begins one character further.
LEMMA RetryGives ==
    ASSUME NEW R, NEW s, NEW t, Len(s) \in Nat, Len(t) \in Nat, NEW i, NEW p, NEW si, NEW sp,
           InSegment(R, s, t, i, p, si, sp), i <= Len(s), <<i, p>> \notin R
    PROVE  InSegment(R, s, t, si + 1, sp, si + 1, sp)
<1>1. /\ si \in 1..(Len(s) + 1) /\ sp \in 1..Len(t) /\ i \in 1..(Len(s) + 1) /\ p \in sp..Len(t)
      /\ i = si + (p - sp)
      /\ \A k \in sp..p : t[k] # "*"
      /\ <<1, 1>> \in R <=> \E b \in si..(Len(s) + 1) : <<b, sp>> \in R
      /\ <<si, sp>> \notin R
  BY DEF InSegment
<1>2. /\ si + 1 \in 1..(Len(s) + 1) /\ sp \in sp..Len(t) /\ si + 1 = si + 1 + (sp - sp)
      /\ sp..sp \subseteq sp..p
      /\ \A b \in si..(Len(s) + 1) : b = si \/ b \in si + 1 .. Len(s) + 1
      /\ si + 1 .. Len(s) + 1 \subseteq si..(Len(s) + 1)
  BY <1>1
<1>3. <<1, 1>> \in R <=> \E b \in si + 1 .. Len(s) + 1 : <<b, sp>> \in R
  BY <1>1, <1>2, Zenon
<1> QED
  BY <1>1, <1>2, <1>3 DEF InSegment

\* One character of a segment
LEMMA MatchSegmentKeeps ==
    ASSUME NEW R, AreInstances(R, v1, v2), MatchIsAt(R), Match!MatchSegment
    PROVE  MatchIsAt(R)' /\ UNCHANGED <<v1, v2>>
<1>1. /\ Len(v1) \in Nat /\ Len(v2) \in Nat /\ InSegment(R, v1, v2, v4, v5, v6, v7)
  BY DEF MatchIsAt, Match!MatchSegment
<1>2. /\ v6 \in 1..(Len(v1) + 1) /\ v7 \in 1..Len(v2) /\ v4 \in 1..(Len(v1) + 1) /\ v5 \in v7..Len(v2)
      /\ v4 = v6 + (v5 - v7)
      /\ \A k \in v7..v5 : v2[k] # "*"
      /\ <<1, 1>> \in R <=> \E b \in v6..(Len(v1) + 1) : <<b, v7>> \in R
      /\ <<v6, v7>> \in R <=> <<v4, v5>> \in R
  BY <1>1 DEF InSegment
<1>3. v1' = v1 /\ v2' = v2
  BY DEF Match!MatchSegment, Match!Return, Match!Goto, Match!Retry, Match!texts
<1>4. v5 \in 1..(Len(v2) + 1) /\ v5 <= Len(v2) /\ v5 \in v7..v5
  BY <1>1, <1>2
<1>5. <<v4, v5>> \in R <=> /\ v4 <= Len(v1) /\ (v1[v4] = v2[v5] \/ v2[v5] = "?")
                           /\ <<v4 + 1, v5 + 1>> \in R
  <2>1. v2[v5] # "*"
    BY <1>2, <1>4
  <2>2. <<v4, v5>> \in R <=> Follows(R, v1, v2, v4, v5)
    BY <1>2, <1>4 DEF AreInstances
  <2>3. ~(v5 > Len(v2))
    BY <1>1, <1>4
  <2> QED
    BY <1>4, <2>1, <2>2, <2>3, Zenon DEF Follows
<1>13. /\ Match!InputEnds(v4) <=> ~(v4 <= Len(v1))
       /\ Match!InputEnds(v4 + 1) <=> v4 + 1 > Len(v1)
       /\ Match!PatternEnds(v5 + 1) <=> ~(v5 + 1 <= Len(v2))
       /\ v5 + 1 > Len(v2) => ~(v5 + 1 <= Len(v2))
       /\ Match!Agree(v4, v5) <=> v1[v4] = v2[v5] \/ v2[v5] = "?"
  BY <1>1, <1>2, <1>4 DEF Match!InputEnds, Match!PatternEnds, Match!Agree
<1>6. ASSUME v4 <= Len(v1), <<v4, v5>> \notin R, Match!Retry
      PROVE  MatchIsAt(R)'
  <2>1. InSegment(R, v1, v2, v6 + 1, v7, v6 + 1, v7)
    BY <1>1, <1>6, RetryGives
  <2>2. v3' = "segment" /\ v4' = v6 + 1 /\ v5' = v7 /\ v6' = v6 + 1 /\ v7' = v7
    BY <1>6 DEF Match!Retry, Match!MatchSegment
  <2> QED
    BY <1>1, <1>3, <2>1, <2>2 DEF MatchIsAt
\* The input is too short for this segment, wherever it begins.
<1>7. CASE v4 > Len(v1)
  <2>1. ASSUME NEW b \in v6..(Len(v1) + 1), <<b, v7>> \in R
        PROVE  FALSE
    <3> DEFINE d == v5 - v7 + 1
    <3>1. d \in Nat /\ v7 + d <= Len(v2) + 1 /\ v7 + d - 1 = v5 /\ b \in 1..(Len(v1) + 1)
          /\ v7 \in 1..(Len(v2) + 1) /\ b + d > Len(v1) + 1
      BY <1>1, <1>2, <1>4, <1>7
    <3> HIDE DEF d
    <3>2. \A k \in v7..(v7 + d - 1) : v2[k] # "*"
      BY <1>2, <3>1
    <3>3. b + d <= Len(v1) + 1
      BY <1>1, <2>1, <3>1, <3>2, SegmentIs
    <3> QED
      BY <1>1, <3>1, <3>3
  <2>2. v3' = "done" /\ v8' = FALSE
    BY <1>7 DEF Match!MatchSegment, Match!Return, Match!InputEnds
  <2> QED
    BY <1>1, <1>2, <1>3, <2>1, <2>2 DEF MatchIsAt
<1>8. CASE v4 <= Len(v1) /\ ~(v1[v4] = v2[v5] \/ v2[v5] = "?")
  <2>1. Match!Retry
    BY <1>8, <1>13, Zenon DEF Match!MatchSegment
  <2> QED
    BY <1>3, <1>5, <1>6, <1>8, <2>1
\* The first asterisk of what follows is given as little as possible.
<1>9. CASE /\ v4 <= Len(v1) /\ (v1[v4] = v2[v5] \/ v2[v5] = "?")
           /\ v5 + 1 <= Len(v2) /\ v2[v5 + 1] = "*"
  <2>1. v3' = "asterisk" /\ v4' = v4 + 1 /\ v5' = v5 + 1
    <3>1. Match!Goto("asterisk", v4 + 1, v5 + 1)
      BY <1>9, <1>13, Zenon DEF Match!MatchSegment
    <3> QED
      BY <3>1 DEF Match!Goto
  <2> DEFINE n == v4 + 1
             m == v5 + 1
  <2>2. n \in 1..(Len(v1) + 1) /\ m \in 1..Len(v2) /\ m \in 1..(Len(v2) + 1) /\ v2[m] = "*"
        /\ v6 \in v6..(Len(v1) + 1) /\ m <= Len(v2)
    BY <1>1, <1>2, <1>9
  <2>3. <<v4, v5>> \in R <=> <<n, m>> \in R
    BY <1>5, <1>9
  <2>4. ASSUME NEW b \in v6..(Len(v1) + 1), <<b, v7>> \in R
        PROVE  <<n, m>> \in R
    <3> DEFINE d == v5 - v7 + 1
    <3>1. d \in Nat /\ v7 + d <= Len(v2) + 1 /\ v7 + d - 1 = v5 /\ b \in 1..(Len(v1) + 1)
          /\ v7 \in 1..(Len(v2) + 1) /\ b + d >= n /\ v7 + d = m
      BY <1>1, <1>2, <1>4
    <3> HIDE DEF d
    <3>2. \A k \in v7..(v7 + d - 1) : v2[k] # "*"
      BY <1>2, <3>1
    <3>3. b + d <= Len(v1) + 1 /\ <<b + d, v7 + d>> \in R
      BY <1>1, <2>4, <3>1, <3>2, SegmentIs
    <3> DEFINE a == b + d
    <3>4. a \in 1..(Len(v1) + 1) /\ n \in 1..a
      BY <1>1, <2>2, <3>1, <3>3
    <3>5. <<a, m>> \in R
      BY <3>1, <3>3, Zenon
    <3> HIDE DEF a, n, m
    <3> QED
      BY <1>1, <2>2, <3>4, <3>5, AsteriskExtends
  <2> HIDE DEF n, m
  <2>5. <<1, 1>> \in R <=> <<n, m>> \in R
    BY <1>2, <2>2, <2>3, <2>4, Zenon
  <2>6. AtPosition(R, v1, v2, n, m)
    BY <2>2, <2>5, Zenon DEF AtPosition
  <2> QED
    BY <1>1, <1>3, <2>1, <2>2, <2>6 DEF MatchIsAt, n, m
<1>10. CASE /\ v4 <= Len(v1) /\ (v1[v4] = v2[v5] \/ v2[v5] = "?")
            /\ v5 + 1 <= Len(v2) /\ v2[v5 + 1] # "*"
  <2>1. v3' = "segment" /\ v4' = v4 + 1 /\ v5' = v5 + 1 /\ v6' = v6 /\ v7' = v7
    <3>1. Match!Goto("segment", v4 + 1, v5 + 1)
      BY <1>10, <1>13, Zenon DEF Match!MatchSegment
    <3> QED
      BY <3>1 DEF Match!Goto
  <2> DEFINE n == v4 + 1
             m == v5 + 1
  <2>2. n \in 1..(Len(v1) + 1) /\ m \in v7..Len(v2) /\ v2[m] # "*" /\ n = v6 + (m - v7)
        /\ \A k \in v7..m : k \in v7..v5 \/ k = m
    BY <1>1, <1>2, <1>4, <1>10
  <2>3. <<v4, v5>> \in R <=> <<n, m>> \in R
    BY <1>5, <1>10
  <2> HIDE DEF n, m
  <2>4. \A k \in v7..m : v2[k] # "*"
    BY <1>2, <2>2, Zenon
  <2>5. InSegment(R, v1, v2, n, m, v6, v7)
    BY <1>2, <2>2, <2>3, <2>4, Zenon DEF InSegment
  <2> QED
    BY <1>1, <1>3, <2>1, <2>5 DEF MatchIsAt, n, m
<1>11. CASE /\ v4 <= Len(v1) /\ (v1[v4] = v2[v5] \/ v2[v5] = "?") /\ v5 + 1 > Len(v2)
  <2> DEFINE n == v4 + 1
             m == v5 + 1
  <2>1. n \in 1..(Len(v1) + 1) /\ m \in 1..(Len(v2) + 1) /\ m > Len(v2) /\ ~(m <= Len(v2))
        /\ v6 \in v6..(Len(v1) + 1)
    BY <1>1, <1>2, <1>4, <1>11
  <2>2. <<v4, v5>> \in R <=> <<n, m>> \in R
    BY <1>5, <1>11
  <2> HIDE DEF n, m
  <2>3. <<n, m>> \in R <=> n > Len(v1)
    <3>1. <<n, m>> \in R <=> Follows(R, v1, v2, n, m)
      BY <2>1 DEF AreInstances
    <3> QED
      BY <2>1, <3>1, Zenon DEF Follows
  <2>4. CASE n > Len(v1)
    <3>1. v3' = "done" /\ v8' = TRUE
      <4>1. Match!Return(TRUE)
        BY <1>11, <1>13, <2>4, Zenon DEF Match!MatchSegment, n
      <4> QED
        BY <4>1 DEF Match!Return
    <3>2. <<1, 1>> \in R
      BY <1>2, <2>1, <2>2, <2>3, <2>4, Zenon
    <3> QED
      BY <1>1, <1>3, <3>1, <3>2 DEF MatchIsAt
  <2>5. CASE ~(n > Len(v1))
    <3>1. Match!Retry
      BY <1>11, <1>13, <2>5, Zenon DEF Match!MatchSegment, n
    <3> QED
      BY <1>3, <1>6, <1>11, <2>2, <2>3, <2>5, <3>1
  <2> QED
    BY <2>4, <2>5
<1>12. \/ v4 > Len(v1)
       \/ v4 <= Len(v1) /\ ~(v1[v4] = v2[v5] \/ v2[v5] = "?")
       \/ /\ v4 <= Len(v1) /\ (v1[v4] = v2[v5] \/ v2[v5] = "?")
          /\ v5 + 1 <= Len(v2) /\ v2[v5 + 1] = "*"
       \/ /\ v4 <= Len(v1) /\ (v1[v4] = v2[v5] \/ v2[v5] = "?")
          /\ v5 + 1 <= Len(v2) /\ v2[v5 + 1] # "*"
       \/ /\ v4 <= Len(v1) /\ (v1[v4] = v2[v5] \/ v2[v5] = "?") /\ v5 + 1 > Len(v2)
  BY <1>1, <1>2, <1>4
<1> QED
  BY <1>3, <1>7, <1>8, <1>9, <1>10, <1>11, <1>12, Zenon

\* match_pattern() answers whether the input is an instance of the pattern, although it
\* never tries an asterisk again after it has reached the next one.
THEOREM MatchesAreRight == MCSpec => []MatchesAsDefined
<1> DEFINE Inv == component = "match" => MatchInv
<1>1. MCInit => Inv
  BY MatchStarts DEF MCInit
<1>2. Inv /\ [MCNext]_vars => Inv'
  <2> SUFFICES ASSUME Inv, [MCNext]_vars, component' = "match"
               PROVE  MatchInv'
    OBVIOUS
  <2>1. CASE UNCHANGED vars
    BY <2>1 DEF vars, MatchInv, MatchIsAt, InstanceSet, Match!Instances, Match!PatternEnds, Match!InputEnds, Match!Agree
  <2>2. CASE MCNext
    <3>1. component = "match" /\ MatchInv /\ Match!Next
      BY <2>2 DEF MCNext
    <3>2. PICK R : R = InstanceSet
      OBVIOUS
    <3>3. AreInstances(R, v1, v2) /\ MatchIsAt(R)
      BY <3>1, <3>2, InstancesAre DEF MatchInv, MatchIsAt
    <3>4. MatchIsAt(R)' /\ UNCHANGED <<v1, v2>>
      BY <3>1, <3>3, MatchPrefixKeeps, SkipAsterisksKeeps, MatchSegmentKeeps DEF Match!Next
    <3>5. InstanceSet' = InstanceSet
      BY <3>4 DEF InstanceSet, Match!Instances, Match!PatternEnds, Match!InputEnds, Match!Agree
    <3> QED
      BY <3>2, <3>4, <3>5 DEF MatchInv
  <2> QED
    BY <2>1, <2>2
<1>3. Inv => MatchesAsDefined
  BY InstancesAre DEF MatchInv, MatchIsAt, MatchesAsDefined, Match!MatchesAsDefined
<1> QED
  BY <1>1, <1>2, <1>3, PTL DEF MCSpec

-----------------------------------------------------------------------------
(* Parts of a sequence: n elements after the first a                       *)

Part(s, a, n) == SubSeq(s, a + 1, a + n)

\* The elements of a part
LEMMA PartIs ==
    ASSUME NEW S, NEW s \in Seq(S), NEW a \in Nat, NEW n \in Nat, a + n <= Len(s)
    PROVE  /\ Part(s, a, n) \in Seq(S) /\ Len(Part(s, a, n)) = n
           /\ \A k \in 1..n : Part(s, a, n)[k] = s[a + k]
BY PartFacts DEF Part

\* A sequence is a part if its elements are those of the part.
LEMMA PartEquals ==
    ASSUME NEW S, NEW s \in Seq(S), NEW a \in Nat, NEW n \in Nat, a + n <= Len(s),
           NEW T, NEW t \in Seq(T), Len(t) = n, \A k \in 1..n : t[k] = s[a + k]
    PROVE  t = Part(s, a, n)
<1> DEFINE u == Part(s, a, n)
<1>0. s \in Seq(S) /\ a \in Nat /\ n \in Nat /\ a + n <= Len(s)
  OBVIOUS
<1>1. u \in Seq(S) /\ Len(u) = n /\ \A k \in 1..n : u[k] = s[a + k]
  BY ONLY <1>0, PartIs
<1> HIDE DEF u
<1>2. t = [k \in 1..n |-> t[k]] /\ u = [k \in 1..n |-> u[k]]
  BY <1>1, SequenceIs
<1>3. \A k \in 1..n : t[k] = u[k]
  BY <1>1
<1>4. t = u
  BY <1>2, <1>3
<1> QED
  BY <1>4 DEF u

\* A part of a part is a part.
LEMMA PartOfPart ==
    ASSUME NEW S, NEW s \in Seq(S), NEW a \in Nat, NEW n \in Nat, a + n <= Len(s),
           NEW i \in Nat, NEW m \in Nat, i + m <= n
    PROVE  Part(Part(s, a, n), i, m) = Part(s, a + i, m)
<1> DEFINE p == Part(s, a, n)
           t == Part(p, i, m)
           b == a + i
<1>1. p \in Seq(S) /\ Len(p) = n /\ \A k \in 1..n : p[k] = s[a + k]
  BY PartIs
<1>2. Len(s) \in Nat
  BY LenProperties
<1>3. b \in Nat /\ b + m <= Len(s) /\ b = a + i
  BY <1>2
<1> HIDE DEF p
<1>4. t \in Seq(S) /\ Len(t) = m /\ \A k \in 1..m : t[k] = p[i + k]
  BY <1>1, PartIs
<1> HIDE DEF t, b
<1>5. ASSUME NEW k \in 1..m
      PROVE  t[k] = s[b + k]
  <2> DEFINE j == i + k
  <2>1. j \in 1..n /\ a + j = b + k
    BY <1>3
  <2>2. t[k] = p[j]
    BY <1>4
  <2> HIDE DEF j
  <2>3. p[j] = s[a + j]
    BY <1>1, <2>1
  <2> QED
    BY <2>1, <2>2, <2>3
<1>6. t = Part(s, b, m)
  BY <1>3, <1>4, <1>5, PartEquals
<1> QED
  BY <1>6 DEF t, p, b

\* Two parts that meet are one.
LEMMA PartsJoin ==
    ASSUME NEW S, NEW s \in Seq(S), NEW a \in Nat, NEW i \in Nat, NEW m \in Nat,
           a + i + m <= Len(s)
    PROVE  Part(s, a, i) \o Part(s, a + i, m) = Part(s, a, i + m)
<1> DEFINE p == Part(s, a, i)
           b == a + i
           n == i + m
           q == Part(s, b, m)
           t == p \o q
<1>1. Len(s) \in Nat
  BY LenProperties
<1>2. b \in Nat /\ n \in Nat /\ a + i <= Len(s) /\ b + m <= Len(s) /\ a + n <= Len(s) /\ b = a + i /\ n = i + m
  BY <1>1
<1> HIDE DEF b, n
<1>3. p \in Seq(S) /\ Len(p) = i /\ \A k \in 1..i : p[k] = s[a + k]
  BY <1>2, PartIs
<1>4. q \in Seq(S) /\ Len(q) = m /\ \A k \in 1..m : q[k] = s[b + k]
  BY <1>2, PartIs
<1> HIDE DEF p, q
<1>5. /\ t \in Seq(S) /\ Len(t) = Len(p) + Len(q)
      /\ \A k \in 1 .. Len(p) + Len(q) : t[k] = IF k <= Len(p) THEN p[k] ELSE q[k - Len(p)]
  BY <1>3, <1>4, ConcatProperties
<1> HIDE DEF t
<1>6. /\ Len(t) = n
      /\ \A k \in 1..n : t[k] = IF k <= i THEN p[k] ELSE q[k - i]
  BY <1>2, <1>3, <1>4, <1>5
<1>7. ASSUME NEW k \in 1..n
      PROVE  t[k] = s[a + k]
  <2>1. CASE k <= i
    <3>1. k \in 1..i
      BY <1>2, <2>1
    <3> QED
      BY <1>3, <1>6, <2>1, <3>1
  <2>2. CASE ~(k <= i)
    <3> DEFINE j == k - i
    <3>1. j \in 1..m /\ b + j = a + k
      BY <1>2, <2>2
    <3>2. t[k] = q[j]
      BY <1>6, <2>2
    <3> HIDE DEF j
    <3>3. q[j] = s[b + j]
      BY <1>4, <3>1
    <3> QED
      BY <3>1, <3>2, <3>3
  <2> QED
    BY <2>1, <2>2
<1>8. t = Part(s, a, n)
  BY <1>2, <1>5, <1>6, <1>7, PartEquals
<1> QED
  BY <1>8 DEF t, p, q, b, n

\* A part of one element
LEMMA PartOfOne ==
    ASSUME NEW S, NEW s \in Seq(S), NEW a \in Nat, a + 1 <= Len(s)
    PROVE  Part(s, a, 1) = << s[a + 1] >>
<1>1. Len(s) \in Nat
  BY LenProperties
<1>2. a + 1 \in 1..Len(s)
  BY <1>1
<1>3. s[a + 1] \in S
  BY <1>2, ElementOfSeq
<1> DEFINE x == s[a + 1]
           t == << x >>
<1>4. t \in Seq(S) /\ Len(t) = 1 /\ t[1] = x /\ x = s[a + 1]
  BY <1>3
<1> HIDE DEF t, x
<1>5. \A k \in 1..1 : t[k] = s[a + k]
  BY <1>4
<1>6. t = Part(s, a, 1)
  <2>1. 1 \in Nat
    OBVIOUS
  <2> QED
    BY <1>4, <1>5, <2>1, PartEquals, Zenon
<1> QED
  BY <1>6 DEF t, x

-----------------------------------------------------------------------------
(* Views: v1 is text, v2 is view, v3 is latest                             *)

\* A place within the text
Within(v) == /\ v \in [start : Nat, length : Nat]
             /\ v.start + v.length <= Len(v1)

ViewsAreWithin == /\ v1 \in Seq(View!Range(v1))
                  /\ DOMAIN v2 = Views
                  /\ \A x \in Views : Within(v2[x])

\* What a view shows is a part of the text.
LEMMA ShownIs ==
    ASSUME ViewsAreWithin, NEW v, Within(v)
    PROVE  /\ View!Shown(v) = Part(v1, v.start, v.length)
           /\ View!Shown(v) \in Seq(View!Range(v1)) /\ Len(View!Shown(v)) = v.length
           /\ \A k \in 1..v.length : View!Shown(v)[k] = v1[v.start + k]
           /\ v.start \in Nat /\ v.length \in Nat /\ v.start + v.length <= Len(v1)
<1>1. v.start \in Nat /\ v.length \in Nat /\ v.start + v.length <= Len(v1) /\ v1 \in Seq(View!Range(v1))
  BY DEF Within, ViewsAreWithin
<1>2. View!Shown(v) = Part(v1, v.start, v.length)
  BY DEF View!Shown, Part
<1> DEFINE a == v.start
           n == v.length
           S == View!Range(v1)
<1>3. a \in Nat /\ n \in Nat /\ a + n <= Len(v1) /\ v1 \in Seq(S)
  BY <1>1
<1> HIDE DEF a, n, S
<1>4. /\ Part(v1, a, n) \in Seq(S) /\ Len(Part(v1, a, n)) = n
      /\ \A k \in 1..n : Part(v1, a, n)[k] = v1[a + k]
  BY <1>3, PartIs
<1> QED
  BY <1>1, <1>2, <1>4, Zenon DEF a, n, S

\* A view that another one is made of
LEMMA WithinPart ==
    ASSUME NEW v, Within(v), NEW i \in Nat, NEW n \in Nat, i + n <= v.length, Len(v1) \in Nat
    PROVE  Within([start |-> v.start + i, length |-> n])
<1> DEFINE w == [start |-> v.start + i, length |-> n]
<1>1. v.start \in Nat /\ v.length \in Nat /\ v.start + v.length <= Len(v1)
  BY DEF Within
<1>2. v.start + i \in Nat /\ v.start + i + n <= Len(v1)
  BY <1>1
<1>3. w.start = v.start + i /\ w.length = n /\ w \in [start : Nat, length : Nat]
  BY <1>2
<1> HIDE DEF w
<1>4. Within(w)
  BY <1>2, <1>3 DEF Within
<1> QED
  BY <1>4 DEF w

\* What the latest call has promised
SplitIsRight ==
    /\ v3.found <=> Delim \in View!Range(v3.before)
    /\ v3.found =>
          \E n \in 0..(Len(v3.before) - 1) :
              LET slice == SubSeq(v3.before, 1, n)
                  rest == SubSeq(v3.before, n + 2, Len(v3.before))
              IN  /\ v3.before = slice \o <<Delim>> \o rest
                  /\ Delim \notin View!Range(slice)
                  /\ v3.slice \notin {NULL, v3.rest} => View!Shown(v2[v3.slice]) = slice
                  /\ v3.rest # NULL => View!Shown(v2[v3.rest]) = rest

TrimIsRight ==
    LET shown == View!Shown(v2[v3.on])
    IN  /\ \E l, r \in 0..Len(v3.before) :
              v3.before = View!Delims(l) \o shown \o View!Delims(r)
        /\ shown # <<>> => View!Head(shown) # Delim /\ View!Last(shown) # Delim

PrefixIsRight == v3.found => v3.part \o View!Shown(v2[v3.on]) = v3.before
SuffixIsRight == v3.found => View!Shown(v2[v3.on]) \o v3.part = v3.before

CallIsRight ==
    /\ v3.call = "split" => SplitIsRight
    /\ v3.call = "trim" => TrimIsRight
    /\ v3.call = "remove prefix" => PrefixIsRight
    /\ v3.call = "remove suffix" => SuffixIsRight

ViewInv == ViewsAreWithin /\ CallIsRight

\* The invariant says what split() and the others promise.
LEMMA PromiseIs ==
    ASSUME ViewInv
    PROVE  View!SplitsAsPromised
<1>1. \A x \in Views : v2[x].start >= 0 /\ v2[x].length >= 0 /\ v2[x].start + v2[x].length <= Len(v1)
  <2> SUFFICES ASSUME NEW x \in Views
               PROVE  v2[x].start >= 0 /\ v2[x].length >= 0 /\ v2[x].start + v2[x].length <= Len(v1)
    OBVIOUS
  <2>1. Within(v2[x])
    BY DEF ViewInv, ViewsAreWithin
  <2> DEFINE a == v2[x].start
             n == v2[x].length
  <2>2. a \in Nat /\ n \in Nat /\ a + n <= Len(v1)
    BY <2>1 DEF Within
  <2> HIDE DEF a, n
  <2>3. a >= 0 /\ n >= 0 /\ a + n <= Len(v1)
    BY <2>2
  <2> QED
    BY <2>3, Zenon DEF a, n
<1> QED
  BY <1>1, Zenon
     DEF ViewInv, CallIsRight, View!SplitsAsPromised, SplitIsRight, TrimIsRight, PrefixIsRight, SuffixIsRight

\* At first every view shows the whole text.
LEMMA ViewsStart ==
    ASSUME View!Init
    PROVE  ViewInv
<1>1. v1 \in Seq(View!Range(v1)) /\ v2 = [x \in Views |-> [start |-> 0, length |-> Len(v1)]]
      /\ v3.call = "none"
  BY ViewAssumption DEF View!Init, View!StringViewAssumption
<1>2. Len(v1) \in Nat
  BY <1>1, LenProperties
<1>3. ViewsAreWithin
  BY <1>1, <1>2 DEF ViewsAreWithin, Within
<1> QED
  BY <1>1, <1>3 DEF ViewInv, CallIsRight

\* x = y.substr(start, length)
LEMMA SubstrKeeps ==
    ASSUME ViewInv, NEW x \in Views, NEW y \in Views, NEW start \in Nat, NEW length \in Nat,
           View!Substr(x, y, start, length)
    PROVE  ViewInv'
<1> DEFINE v == v2[y]
           n == IF length <= v.length - start THEN length ELSE v.length - start
           w == [start |-> v.start + start, length |-> n]
<1>1. v1' = v1 /\ v2' = [v2 EXCEPT ![x] = w] /\ v3'.call = "substr" /\ start <= v.length
  BY DEF View!Substr, View!Record
<1>2. ViewsAreWithin /\ Within(v) /\ v1 \in Seq(View!Range(v1)) /\ DOMAIN v2 = Views
  BY DEF ViewInv, ViewsAreWithin
<1>3. Len(v1) \in Nat /\ v.length \in Nat
  BY <1>2, LenProperties DEF Within
<1>4. n \in Nat /\ start + n <= v.length
  BY <1>1, <1>3
<1> HIDE DEF n, v
<1>5. Within(w)
  BY <1>2, <1>3, <1>4, WithinPart
<1> HIDE DEF w
<1>6. ViewsAreWithin'
  BY <1>1, <1>2, <1>5 DEF ViewsAreWithin, Within
<1> QED
  BY <1>1, <1>6 DEF ViewInv, CallIsRight

\* A sequence is cut at the first of its elements that is d.
LEMMA CutIs ==
    ASSUME NEW S, NEW s \in Seq(S), NEW a \in Nat, NEW n \in Nat, a + n <= Len(s),
           NEW pos \in 0..(n - 1), \A i \in 0..(pos - 1) : s[a + i + 1] # s[a + pos + 1]
    PROVE  LET b == Part(s, a, n)
               before == SubSeq(b, 1, pos)
               after == SubSeq(b, pos + 2, Len(b))
           IN  /\ before = Part(s, a, pos)
               /\ after = Part(s, a + pos + 1, n - pos - 1)
               /\ b = before \o << s[a + pos + 1] >> \o after
               /\ s[a + pos + 1] \notin View!Range(before)
<1> DEFINE d == s[a + pos + 1]
           m == n - pos - 1
           c == a + pos
           e == pos + 1
           slice == Part(s, a, pos)
           rest == Part(s, a + e, m)
           b == Part(s, a, n)
<1>0. b = Part(s, a, n) /\ pos \in Nat /\ pos < n
  OBVIOUS
<1>1. b \in Seq(S) /\ Len(b) = n /\ Len(s) \in Nat
  <2>1. Part(s, a, n) \in Seq(S) /\ Len(Part(s, a, n)) = n
    BY PartIs, Zenon
  <2> QED
    BY <2>1, LenProperties
<1>2. /\ m \in Nat /\ c \in Nat /\ e \in Nat /\ e + m = n /\ a + e = c + 1 /\ a + e = a + pos + 1
      /\ a + pos + 1 <= Len(s) /\ c + 1 <= Len(s) /\ a + e + m <= Len(s) /\ 0 \in Nat
      /\ e + m <= n /\ 0 + pos <= n /\ a + 0 = a /\ 1 \in Nat /\ a + pos <= Len(s)
      /\ a + pos = c /\ pos + 1 = e /\ m = n - pos - 1
  BY <1>0, <1>1
<1>3. d = s[c + 1]
  OBVIOUS
<1> HIDE DEF m, c, e, d, b
<1>4. SubSeq(b, 1, pos) = slice
  <2>1. Part(Part(s, a, n), 0, pos) = Part(s, a + 0, pos)
    BY <1>2, PartOfPart
  <2>2. Part(b, 0, pos) = SubSeq(b, 1, pos)
    BY DEF Part
  <2> QED
    BY <1>0, <1>2, <2>1, <2>2
<1>5. SubSeq(b, pos + 2, Len(b)) = rest
  <2>1. Part(Part(s, a, n), e, m) = Part(s, a + e, m)
    BY <1>2, PartOfPart
  <2>2. e + 1 = pos + 2 /\ e + m = Len(b)
    BY <1>1, <1>2
  <2>3. Part(b, e, m) = SubSeq(b, pos + 2, Len(b))
    BY <2>2 DEF Part
  <2> QED
    BY <1>0, <2>1, <2>3
<1>6. b = slice \o << d >> \o rest
  <2>1. Part(s, c, 1) = << d >>
    BY <1>2, <1>3, PartOfOne
  <2>2. slice \o << d >> = Part(s, a, e)
    <3>1. Part(s, a, pos) \o Part(s, a + pos, 1) = Part(s, a, pos + 1)
      BY <1>2, PartsJoin
    <3> QED
      BY <1>2, <2>1, <3>1
  <2>3. Part(s, a, e) \o Part(s, a + e, m) = Part(s, a, e + m)
    <3>1. e \in Nat /\ m \in Nat /\ a + e + m <= Len(s)
      BY <1>2
    <3> QED
      BY <3>1, PartsJoin
  <2> QED
    BY <1>0, <1>2, <2>2, <2>3
<1>7. d \notin View!Range(slice)
  <2>1. slice \in Seq(S) /\ Len(slice) = pos /\ \A k \in 1..pos : slice[k] = s[a + k]
    BY <1>2, PartIs
  <2>2. DOMAIN slice = 1..pos
    BY <2>1, LenProperties
  <2>3. ASSUME NEW k \in 1..pos
        PROVE  slice[k] # d
    <3> DEFINE i == k - 1
    <3>1. i \in 0..(pos - 1) /\ a + i + 1 = a + k
      OBVIOUS
    <3> HIDE DEF i
    <3>2. s[a + i + 1] # s[a + pos + 1]
      BY <3>1
    <3>3. slice[k] = s[a + k]
      BY <2>1
    <3> QED
      BY <3>1, <3>2, <3>3 DEF d
  <2> HIDE DEF slice
  <2> QED
    BY <2>2, <2>3 DEF View!Range
<1> QED
  BY <1>2, <1>4, <1>5, <1>6, <1>7 DEF d, b

\* split() at the first delimiter, into the views that the caller points out
LEMMA SplitKeeps ==
    ASSUME ViewInv, NEW x \in Views, NEW slice \in Views \cup {NULL}, NEW rest \in Views \cup {NULL},
           View!Split(x, slice, rest)
    PROVE  ViewInv'
<1> DEFINE v == v2[x]
           a == v2[x].start
           n == v2[x].length
           b == View!Shown(v)
           T == View!Positions(v, Delim)
           pos == View!Find(v, Delim)
<1>1. ViewsAreWithin /\ Within(v) /\ v1 \in Seq(View!Range(v1)) /\ DOMAIN v2 = Views
  BY DEF ViewInv, ViewsAreWithin
<1>2. /\ b = Part(v1, a, n) /\ b \in Seq(View!Range(v1)) /\ Len(b) = n
      /\ \A k \in 1..n : b[k] = v1[a + k]
      /\ a \in Nat /\ n \in Nat /\ a + n <= Len(v1)
  BY <1>1, ShownIs
<1>3. /\ v1' = v1
      /\ v2' = IF pos = View!NoDelim THEN v2 ELSE View!Cut(v2, x, pos, slice, rest)
      /\ v3' = [call |-> "split", on |-> x, before |-> b, slice |-> slice, rest |-> rest,
                found |-> pos # View!NoDelim]
  BY DEF View!Split
<1>4. T = {i \in 0..(n - 1) : v1[a + i + 1] = Delim}
  BY DEF View!Positions
<1>5. pos = IF T = {} THEN View!NoDelim ELSE CHOOSE i \in T : \A j \in T : i <= j
  BY DEF View!Find
<1>6. /\ v3'.call = "split" /\ v3'.before = b /\ v3'.slice = slice /\ v3'.rest = rest
      /\ v3'.found <=> pos # View!NoDelim
  BY <1>3
<1> HIDE DEF a, n, b, T, pos
<1>7. CASE T = {}
  <2>1. pos = View!NoDelim
    BY <1>5, <1>7
  <2>2. v2' = v2
    BY <1>3, <2>1
  <2>3. ViewsAreWithin'
    BY <1>1, <1>3, <2>2 DEF ViewsAreWithin, Within
  <2>4. Delim \notin View!Range(b)
    <3>1. ASSUME NEW k \in 1..n
          PROVE  b[k] # Delim
      <4> DEFINE i == k - 1
      <4>1. i \in 0..(n - 1) /\ a + i + 1 = a + k
        BY <1>2
      <4> HIDE DEF i
      <4>2. v1[a + i + 1] # Delim
        BY <1>4, <1>7, <4>1
      <4> QED
        BY <1>2, <4>1, <4>2
    <3>2. DOMAIN b = 1..n
      BY <1>2, LenProperties
    <3> QED
      BY <3>1, <3>2 DEF View!Range
  <2>5. SplitIsRight'
    BY <1>6, <2>1, <2>4 DEF SplitIsRight
  <2> QED
    BY <1>6, <2>3, <2>5 DEF ViewInv, CallIsRight
<1>8. CASE T # {}
  <2>1. /\ pos \in Nat /\ pos < n /\ v1[a + pos + 1] = Delim
        /\ \A i \in 0..(pos - 1) : v1[a + i + 1] # v1[a + pos + 1]
    <3>1. T \in SUBSET Nat
      BY <1>2, <1>4
    <3>2. \E i \in T : \A j \in T : i <= j
      BY <1>8, <3>1, LeastNatural
    <3>3. pos \in T /\ \A j \in T : pos <= j
      BY <1>5, <1>8, <3>2, Zenon
    <3>4. pos \in Nat /\ pos < n /\ v1[a + pos + 1] = Delim
      BY <1>2, <1>4, <3>3
    <3>5. ASSUME NEW i \in 0..(pos - 1)
          PROVE  v1[a + i + 1] # v1[a + pos + 1]
      <4>1. i \in 0..(n - 1) /\ ~(pos <= i)
        BY <1>2, <3>4
      <4>2. i \notin T
        BY <3>3, <4>1
      <4> QED
        BY <1>4, <3>4, <4>1, <4>2
    <3> QED
      BY <3>4, <3>5
  <2>2. pos # View!NoDelim
    BY <2>1 DEF View!NoDelim
  <2> DEFINE before == SubSeq(b, 1, pos)
             after == SubSeq(b, pos + 2, Len(b))
             w == [start |-> a, length |-> pos]
             z == [start |-> a + pos + 1, length |-> n - pos - 1]
             first == IF slice = NULL THEN v2 ELSE [v2 EXCEPT ![slice] = w]
  <2>3. /\ before = Part(v1, a, pos) /\ after = Part(v1, a + pos + 1, n - pos - 1)
        /\ b = before \o << Delim >> \o after /\ Delim \notin View!Range(before)
    <3>1. /\ SubSeq(b, 1, pos) = Part(v1, a, pos)
          /\ SubSeq(b, pos + 2, Len(b)) = Part(v1, a + pos + 1, n - pos - 1)
          /\ b = SubSeq(b, 1, pos) \o << v1[a + pos + 1] >> \o SubSeq(b, pos + 2, Len(b))
          /\ v1[a + pos + 1] \notin View!Range(SubSeq(b, 1, pos))
      <4> DEFINE S == View!Range(v1)
      <4>1. /\ v1 \in Seq(S) /\ a \in Nat /\ n \in Nat /\ a + n <= Len(v1) /\ pos \in 0..(n - 1)
            /\ b = Part(v1, a, n) /\ \A i \in 0..(pos - 1) : v1[a + i + 1] # v1[a + pos + 1]
        BY <1>1, <1>2, <2>1
      <4> HIDE DEF S
      <4>2. pos \in 0..(n - 1)
        BY <4>1
      <4>3. \A i \in 0..(pos - 1) : v1[a + i + 1] # v1[a + pos + 1]
        BY <4>1, Zenon
      <4>4. LET r == Part(v1, a, n)
                before1 == SubSeq(r, 1, pos)
                after1 == SubSeq(r, pos + 2, Len(r))
           IN  /\ before1 = Part(v1, a, pos)
               /\ after1 = Part(v1, a + pos + 1, n - pos - 1)
               /\ r = before1 \o << v1[a + pos + 1] >> \o after1
               /\ v1[a + pos + 1] \notin View!Range(before1)
        BY <4>1, <4>2, <4>3, CutIs, Zenon
      <4> QED
        BY <4>1, <4>4, Zenon
    <3> QED
      BY <2>1, <3>1
  <2>4. v2' = IF rest = NULL THEN first ELSE [first EXCEPT ![rest] = z]
    <3>1. first[x].start = a
      BY <1>1 DEF a
    <3>2. View!Cut(v2, x, pos, slice, rest) =
             IF rest = NULL THEN first
             ELSE [first EXCEPT ![rest] =
                      [start |-> first[x].start + pos + 1, length |-> n - pos - 1]]
      BY Zenon DEF View!Cut, a, n
    <3> HIDE DEF first
    <3> QED
      BY <1>3, <2>2, <3>1, <3>2
  <2>5. Within(w) /\ Within(z)
    <3>1. Len(v1) \in Nat /\ pos + 1 \in Nat /\ n - pos - 1 \in Nat /\ pos + 1 + (n - pos - 1) <= n
          /\ 0 \in Nat /\ 0 + pos <= n /\ a + 0 = a /\ a + (pos + 1) = a + pos + 1
      BY <1>1, <1>2, <2>1, LenProperties
    <3>2. Within([start |-> a + 0, length |-> pos])
      BY <1>1, <2>1, <3>1, WithinPart DEF a, n
    <3>3. Within([start |-> a + (pos + 1), length |-> n - pos - 1])
      BY <1>1, <3>1, WithinPart DEF a, n
    <3> QED
      BY <3>1, <3>2, <3>3
  <2> HIDE DEF w, z
  <2>6. /\ DOMAIN first = Views /\ \A y \in Views : first[y] \in {v2[y], w}
        /\ slice # NULL => first[slice] = w
    BY <1>1
  <2>7. /\ DOMAIN v2' = Views /\ \A y \in Views : v2'[y] \in {v2[y], w, z}
        /\ rest # NULL => v2'[rest] = z
        /\ slice \notin {NULL, rest} => v2'[slice] = w
    <3> HIDE DEF first
    <3> QED
      BY <2>4, <2>6
  <2>8. ViewsAreWithin'
    <3>1. \A y \in Views : Within(v2[y])
      BY <1>1 DEF ViewsAreWithin
    <3>2. \A y \in Views : Within(v2'[y])
      BY <2>5, <2>7, <3>1
    <3>3. \A y \in Views : Within(v2[y])'
      BY <1>3, <3>2 DEF Within
    <3> QED
      BY <1>1, <1>3, <2>7, <3>3 DEF ViewsAreWithin
  <2>9. View!Shown(w) = before /\ View!Shown(z) = after
    <3>1. w.start = a /\ w.length = pos /\ z.start = a + pos + 1 /\ z.length = n - pos - 1
      BY DEF w, z
    <3>2. View!Shown(w) = Part(v1, a, pos) /\ View!Shown(z) = Part(v1, a + pos + 1, n - pos - 1)
      BY <3>1 DEF View!Shown, Part
    <3> QED
      BY <2>3, <3>2
  <2>10. \A u : View!Shown(u)' = View!Shown(u)
    BY <1>3 DEF View!Shown
  <2>11. SplitIsRight'
    <3>1. Delim \in View!Range(b)
      <4> DEFINE k == pos + 1
      <4>1. k \in 1..n /\ a + k = a + pos + 1
        BY <1>2, <2>1
      <4> HIDE DEF k
      <4>2. b[k] = Delim
        BY <1>2, <2>1, <4>1
      <4>3. k \in DOMAIN b
        BY <1>2, <4>1, LenProperties
      <4> QED
        BY <4>2, <4>3 DEF View!Range
    <3>2. pos \in 0..(Len(b) - 1)
      BY <1>2, <2>1
    <3>3. /\ slice \notin {NULL, rest} => View!Shown(v2[slice])' = before
          /\ rest # NULL => View!Shown(v2[rest])' = after
      BY <1>3, <2>7, <2>9 DEF View!Shown
    <3> HIDE DEF first
    <3> QED
      BY <1>6, <2>2, <2>3, <3>1, <3>2, <3>3, Zenon DEF SplitIsRight
  <2> QED
    BY <1>6, <2>8, <2>11 DEF ViewInv, CallIsRight
<1> QED
  BY <1>7, <1>8

\* A part in which every element is the delimiter
LEMMA PartOfDelims ==
    ASSUME NEW S, NEW s \in Seq(S), NEW a \in Nat, NEW n \in Nat, a + n <= Len(s),
           \A k \in 1..n : s[a + k] = Delim
    PROVE  Part(s, a, n) = View!Delims(n)
<1> DEFINE p == Part(s, a, n)
           t == [k \in 1..n |-> Delim]
<1>1. p \in Seq(S) /\ Len(p) = n /\ \A k \in 1..n : p[k] = s[a + k]
  BY PartIs
<1> HIDE DEF p
<1>2. t = [k \in 1..n |-> t[k]] /\ \A k \in 1..n : p[k] = t[k]
  BY <1>1
<1> HIDE DEF t
<1>3. p = t
  BY <1>1, <1>2, SequenceEquals
<1> QED
  BY <1>3 DEF p, t, View!Delims

\* trim(): the view that is left ends after right characters and begins after left.
LEMMA TrimIs ==
    ASSUME NEW S, NEW s \in Seq(S), NEW a \in Nat, NEW n \in Nat, a + n <= Len(s),
           NEW right \in 0..n, NEW left \in 0..right,
           \A i \in right..(n - 1) : s[a + i + 1] = Delim,
           \A i \in 0..(left - 1) : s[a + i + 1] = Delim
    PROVE  Part(s, a, n) =
               View!Delims(left) \o Part(s, a + left, right - left) \o View!Delims(n - right)
<1> DEFINE b == a + left
           c == a + right
           m == right - left
           r == n - right
<1>1. Len(s) \in Nat
  BY LenProperties
<1>2. /\ left \in Nat /\ right \in Nat /\ b \in Nat /\ c \in Nat /\ m \in Nat /\ r \in Nat
      /\ a + left <= Len(s) /\ c + r <= Len(s) /\ a + left + m <= Len(s) /\ a + right + r <= Len(s)
      /\ a + left = b /\ a + right = c /\ left + m = right /\ right + r = n
      /\ right - left = m /\ n - right = r
  BY <1>1
<1> HIDE DEF b, c, m, r
<1>3. Part(s, a, left) = View!Delims(left)
  <2>1. ASSUME NEW k \in 1..left
        PROVE  s[a + k] = Delim
    <3> DEFINE i == k - 1
    <3>1. i \in 0..(left - 1) /\ a + i + 1 = a + k
      BY <1>2
    <3> HIDE DEF i
    <3>2. s[a + i + 1] = Delim
      BY <3>1
    <3> QED
      BY <3>1, <3>2
  <2> QED
    BY <1>2, <2>1, PartOfDelims
<1>4. Part(s, c, r) = View!Delims(r)
  <2>1. ASSUME NEW k \in 1..r
        PROVE  s[c + k] = Delim
    <3> DEFINE i == right + k - 1
    <3>1. i \in right..(n - 1) /\ a + i + 1 = c + k
      BY <1>2
    <3> HIDE DEF i
    <3>2. s[a + i + 1] = Delim
      BY <3>1
    <3> QED
      BY <3>1, <3>2
  <2> QED
    BY <1>2, <2>1, PartOfDelims
<1>5. Part(s, a, left) \o Part(s, b, m) = Part(s, a, right)
  <2>1. Part(s, a, left) \o Part(s, a + left, m) = Part(s, a, left + m)
    BY <1>2, PartsJoin
  <2> QED
    BY <1>2, <2>1
<1>6. Part(s, a, right) \o Part(s, c, r) = Part(s, a, n)
  <2>1. Part(s, a, right) \o Part(s, a + right, r) = Part(s, a, right + r)
    BY <1>2, PartsJoin
  <2> QED
    BY <1>2, <2>1
<1>7. Part(s, a, n) = View!Delims(left) \o Part(s, b, m) \o View!Delims(r)
  BY <1>3, <1>4, <1>5, <1>6, Zenon
<1> QED
  BY <1>2, <1>7

\* Where trim() finds the right end of a view
RightEnd(v) == CHOOSE n \in 0..v.length :
                 /\ \A i \in n..(v.length - 1) : v1[v.start + i + 1] = Delim
                 /\ n > 0 => v1[v.start + n] # Delim

\* There is such an end, since the number of delimiters is at most the length.
LEMMA RightEndIs ==
    ASSUME NEW v, v.length \in Nat, v.start \in Nat
    PROVE  /\ RightEnd(v) \in 0..v.length
           /\ \A i \in RightEnd(v)..(v.length - 1) : v1[v.start + i + 1] = Delim
           /\ RightEnd(v) > 0 => v1[v.start + RightEnd(v)] # Delim
<1> DEFINE n == v.length
           a == v.start
           T == {m \in 0..n : \A i \in m..(n - 1) : v1[a + i + 1] = Delim}
<1>1. n \in Nat /\ a \in Nat
  OBVIOUS
<1>2. RightEnd(v) = CHOOSE m \in 0..n : /\ \A i \in m..(n - 1) : v1[a + i + 1] = Delim
                                        /\ m > 0 => v1[a + m] # Delim
  BY DEF RightEnd
<1> HIDE DEF n, a
<1>3. n \in T /\ T \in SUBSET Nat
  BY <1>1
<1>4. PICK m \in T : \A k \in T : m <= k
  BY <1>3, LeastNatural
<1>5. m \in 0..n /\ \A i \in m..(n - 1) : v1[a + i + 1] = Delim
  BY <1>4
<1>6. ASSUME m > 0, v1[a + m] = Delim
      PROVE  FALSE
  <2> DEFINE k == m - 1
  <2>1. k \in 0..n /\ a + k + 1 = a + m /\ k < m
    BY <1>1, <1>5, <1>6
  <2>2. ASSUME NEW i \in k..(n - 1)
        PROVE  v1[a + i + 1] = Delim
    <3>1. CASE i = k
      BY <1>6, <2>1, <3>1
    <3>2. CASE i # k
      <4>1. i \in m..(n - 1)
        BY <1>1, <1>5, <3>2
      <4> QED
        BY <1>5, <4>1
    <3> QED
      BY <3>1, <3>2
  <2> HIDE DEF k
  <2>3. k \in T
    BY <2>1, <2>2
  <2> QED
    BY <1>1, <1>4, <1>5, <2>1, <2>3
<1>7. \E k \in 0..n : /\ \A i \in k..(n - 1) : v1[a + i + 1] = Delim
                      /\ k > 0 => v1[a + k] # Delim
  BY <1>5, <1>6, Zenon
<1>8. /\ RightEnd(v) \in 0..n
      /\ \A i \in RightEnd(v)..(n - 1) : v1[a + i + 1] = Delim
      /\ RightEnd(v) > 0 => v1[a + RightEnd(v)] # Delim
  BY <1>2, <1>7, Zenon
<1> QED
  BY <1>8, Zenon DEF n, a

\* Where trim() finds the left end
LEMMA LeftEndIs ==
    ASSUME NEW v, v.length \in Nat, v.start \in Nat
    PROVE  /\ View!AtLeft(v) \in 0..v.length
           /\ \A i \in 0..(View!AtLeft(v) - 1) : v1[v.start + i + 1] = Delim
           /\ View!AtLeft(v) < v.length => v1[v.start + View!AtLeft(v) + 1] # Delim
<1> DEFINE n == v.length
           a == v.start
           T == {m \in 0..n : m = n \/ v1[a + m + 1] # Delim}
<1>1. n \in Nat /\ a \in Nat
  OBVIOUS
<1>2. View!AtLeft(v) = CHOOSE m \in 0..n : /\ \A i \in 0..(m - 1) : v1[a + i + 1] = Delim
                                           /\ m < n => v1[a + m + 1] # Delim
  BY DEF View!AtLeft
<1> HIDE DEF n, a
<1>3. n \in T /\ T \in SUBSET Nat
  BY <1>1
<1>4. PICK m \in T : \A k \in T : m <= k
  BY <1>3, LeastNatural
<1>6. ASSUME NEW i \in 0..(m - 1)
      PROVE  v1[a + i + 1] = Delim
  <2>1. i \in 0..n /\ i # n /\ ~(m <= i) /\ m \in 0..n
    BY <1>1, <1>4
  <2>2. i \notin T
    BY <1>4, <2>1
  <2> QED
    BY <2>1, <2>2
<1>7. m \in 0..n /\ (m < n => v1[a + m + 1] # Delim)
  BY <1>1, <1>4
<1>8. \E k \in 0..n : /\ \A i \in 0..(k - 1) : v1[a + i + 1] = Delim
                      /\ k < n => v1[a + k + 1] # Delim
  BY <1>6, <1>7, Zenon
<1>9. /\ View!AtLeft(v) \in 0..n
      /\ \A i \in 0..(View!AtLeft(v) - 1) : v1[a + i + 1] = Delim
      /\ View!AtLeft(v) < n => v1[a + View!AtLeft(v) + 1] # Delim
  BY <1>2, <1>8, Zenon
<1> QED
  BY <1>9, Zenon DEF n, a

\* trim() from both ends
LEMMA TrimKeeps ==
    ASSUME ViewInv, NEW x \in Views, View!Trim(x)
    PROVE  ViewInv'
<1> DEFINE v == v2[x]
           a == v2[x].start
           n == v2[x].length
           b == View!Shown(v)
           right == RightEnd(v)
           u == [start |-> a, length |-> right]
           left == View!AtLeft(u)
           m == right - left
           w == [start |-> a + left, length |-> m]
           S == View!Range(v1)
           shown == View!Shown(w)
<1>1. ViewsAreWithin /\ Within(v) /\ v1 \in Seq(S) /\ DOMAIN v2 = Views
  BY DEF ViewInv, ViewsAreWithin
<1>2. /\ b = Part(v1, a, n) /\ b \in Seq(S) /\ Len(b) = n
      /\ a \in Nat /\ n \in Nat /\ a + n <= Len(v1) /\ Len(v1) \in Nat
  BY <1>1, ShownIs, LenProperties
<1>3. v = [start |-> a, length |-> n]
  BY <1>1 DEF Within
<1>4. /\ right \in 0..n /\ \A i \in right..(n - 1) : v1[a + i + 1] = Delim
      /\ right > 0 => v1[a + right] # Delim
  BY <1>2, RightEndIs, Zenon
<1>5. right \in Nat /\ right <= n
  BY <1>2, <1>4
<1>6. u.start = a /\ u.length = right
  OBVIOUS
<1>7. /\ left \in 0..right /\ \A i \in 0..(left - 1) : v1[a + i + 1] = Delim
      /\ left < right => v1[a + left + 1] # Delim
  <2> HIDE DEF u, right, a
  <2>1. u.length \in Nat /\ u.start \in Nat
    BY <1>2, <1>5, <1>6
  <2> QED
    BY <1>6, <2>1, LeftEndIs, Zenon
<1>8. View!AtRight(v) = n - right
  BY Zenon DEF View!AtRight, RightEnd
<1>9. /\ v1' = v1
      /\ v2' = [v2 EXCEPT ![x] = View!TrimmedLeft(View!TrimmedRight(v2[x]))]
      /\ v3' = [call |-> "trim", on |-> x, before |-> b]
  BY DEF View!Trim, View!Record
<1>10. View!TrimmedLeft(View!TrimmedRight(v2[x])) = w
  <2>1. n - (n - right) = right
    BY <1>2, <1>5
  <2>2. View!TrimmedRight(v2[x]) = [v EXCEPT !.length = n - (n - right)]
    BY <1>8, Zenon DEF View!TrimmedRight
  <2>3. [v EXCEPT !.length = right] = u
    <3> HIDE DEF a, n, right
    <3> QED
      BY <1>3
  <2>4. View!TrimmedRight(v2[x]) = u
    BY <2>1, <2>2, <2>3, Zenon
  <2>5. View!TrimmedLeft(u) = [start |-> u.start + left, length |-> u.length - left]
    BY Zenon DEF View!TrimmedLeft
  <2> QED
    BY <1>6, <2>4, <2>5, Zenon
<1> HIDE DEF right
<1> HIDE DEF left
<1>11. m \in Nat /\ left \in Nat /\ left + m <= n /\ left + m = right
  BY <1>2, <1>5, <1>7
<1> HIDE DEF a, n, b, S, v, u
<1>12. w.start = a + left /\ w.length = m
  OBVIOUS
<1>13. Within(w)
  <2>1. v.start = a /\ v.length = n
    BY DEF v, a, n
  <2>2. Within([start |-> v.start + left, length |-> m])
    BY <1>1, <1>2, <1>11, <2>1, WithinPart
  <2> QED
    BY <2>1, <2>2
<1> HIDE DEF m, w
<1>14. v2' = [v2 EXCEPT ![x] = w]
  BY <1>9, <1>10
<1>15. ViewsAreWithin'
  BY <1>1, <1>9, <1>13, <1>14 DEF ViewsAreWithin, Within
<1>16. /\ shown = Part(v1, a + left, m) /\ Len(shown) = m /\ shown \in Seq(S)
       /\ \A k \in 1..m : shown[k] = v1[a + left + k]
  <2>1. /\ View!Shown(w) = Part(v1, w.start, w.length)
        /\ View!Shown(w) \in Seq(S) /\ Len(View!Shown(w)) = w.length
        /\ \A k \in 1..w.length : View!Shown(w)[k] = v1[w.start + k]
    BY <1>1, <1>13, ShownIs, Zenon DEF S
  <2> QED
    BY <1>12, <2>1
<1>17. View!Shown(v2[x])' = shown
  <2>1. v2'[x] = w
    BY <1>1, <1>14
  <2> QED
    BY <1>9, <2>1 DEF View!Shown
<1> HIDE DEF shown
<1>18. b = View!Delims(left) \o shown \o View!Delims(n - right)
  <2>1. m = right - left
    BY DEF m
  <2>2. Part(v1, a, n) =
           View!Delims(left) \o Part(v1, a + left, right - left) \o View!Delims(n - right)
    <3>1. v1 \in Seq(S) /\ a \in Nat /\ n \in Nat /\ a + n <= Len(v1)
      BY <1>1, <1>2
    <3>2. right \in 0..n /\ left \in 0..right
      BY <1>4, <1>7
    <3>3. \A i \in right..(n - 1) : v1[a + i + 1] = Delim
      BY <1>4
    <3>4. \A i \in 0..(left - 1) : v1[a + i + 1] = Delim
      BY <1>7
    <3> QED
      BY <3>1, <3>2, <3>3, <3>4, TrimIs, Zenon
  <2> QED
    BY <1>2, <1>16, <2>1, <2>2, Zenon
<1>19. shown # <<>> => View!Head(shown) # Delim /\ View!Last(shown) # Delim
  <2>1. SUFFICES ASSUME shown # <<>>
                 PROVE  View!Head(shown) # Delim /\ View!Last(shown) # Delim
    OBVIOUS
  <2>2. m > 0
    BY <1>11, <1>16, <2>1, EmptySeq
  <2>3. left < right /\ right > 0 /\ 1 \in 1..m /\ m \in 1..m /\ a + left + m = a + right
    BY <1>2, <1>5, <1>11, <2>2
  <2>4. View!Head(shown) = shown[1] /\ View!Last(shown) = shown[m]
    BY <1>16, <2>1 DEF View!Last
  <2>5. shown[1] # Delim /\ shown[m] # Delim
    BY <1>4, <1>7, <1>16, <2>3
  <2> QED
    BY <2>4, <2>5
<1>20. left \in 0..Len(b) /\ n - right \in 0..Len(b)
  BY <1>2, <1>5, <1>11
<1>21. v3'.call = "trim" /\ v3'.on = x /\ v3'.before = b
  BY <1>9
<1>22. TrimIsRight'
  BY <1>17, <1>18, <1>19, <1>20, <1>21, Zenon DEF TrimIsRight
<1> QED
  BY <1>15, <1>21, <1>22 DEF ViewInv, CallIsRight

-----------------------------------------------------------------------------
(* Prefixes and suffixes of views                                          *)

\* Removing a prefix
LEMMA RemovePrefixKeeps ==
    ASSUME ViewInv, NEW x \in Views, NEW y \in Views, View!RemovePrefix(x, y)
    PROVE  ViewInv'
<1> DEFINE v == v2[x]
           a == v2[x].start
           n == v2[x].length
           m == v2[y].length
           b == View!Shown(v2[x])
           p == View!Shown(v2[y])
           w == [start |-> a + m, length |-> n - m]
           S == View!Range(v1)
           found == View!IsPrefix(p, b)
<1>1. ViewsAreWithin /\ Within(v2[x]) /\ Within(v2[y]) /\ v1 \in Seq(S) /\ DOMAIN v2 = Views
  BY DEF ViewInv, ViewsAreWithin
<1>2. /\ b = Part(v1, a, n) /\ b \in Seq(S) /\ Len(b) = n
      /\ a \in Nat /\ n \in Nat /\ a + n <= Len(v1) /\ Len(v1) \in Nat
  BY <1>1, ShownIs, LenProperties
<1>3. p \in Seq(S) /\ Len(p) = m /\ m \in Nat
  BY <1>1, ShownIs
<1>4. /\ v1' = v1
      /\ v2' = IF found THEN [v2 EXCEPT ![x] = w] ELSE v2
      /\ v3' = [call |-> "remove prefix", on |-> x, before |-> b, part |-> p, found |-> found]
  BY DEF View!RemovePrefix, View!RecordPart
<1>5. /\ v3'.call = "remove prefix" /\ v3'.on = x /\ v3'.before = b /\ v3'.part = p
      /\ v3'.found = found
  BY <1>4
<1>7. CASE found
  <2>1. m <= n /\ SubSeq(p, 1, m) = SubSeq(b, 1, m)
    BY <1>2, <1>3, <1>7 DEF View!IsPrefix
  <2>3. v2' = [v2 EXCEPT ![x] = w]
    BY <1>4, <1>7
  <2> HIDE DEF found, p, b, S
  <2>4. Within(w)
    <3>1. n - m \in Nat /\ m + (n - m) <= n
      BY <1>2, <1>3, <2>1
    <3>2. Within([start |-> v2[x].start + m, length |-> n - m])
      <4> HIDE DEF m
      <4> QED
        BY <1>1, <1>2, <1>3, <3>1, WithinPart
    <3> QED
      BY <3>2
  <2>5. p = Part(v1, a, m)
    <3> HIDE DEF a, n, m
    <3>1. SubSeq(p, 1, m) = p
      <4>1. m \in 0..Len(p)
        BY <1>3
      <4>2. /\ SubSeq(p, 1, m) \in Seq(S) /\ Len(SubSeq(p, 1, m)) = m
            /\ \A k \in 1..m : SubSeq(p, 1, m)[k] = p[k]
        BY <1>3, <4>1, FirstFacts
      <4> QED
        BY <1>3, <4>2, SeqEqual
    <3>2. Part(Part(v1, a, n), 0, m) = Part(v1, a + 0, m)
      <4>1. 0 \in Nat /\ 0 + m <= n
        BY <1>2, <1>3, <2>1
      <4> QED
        BY <1>1, <1>2, <1>3, <4>1, PartOfPart
    <3>3. Part(b, 0, m) = SubSeq(b, 1, m)
      BY <1>3 DEF Part
    <3>4. a + 0 = a
      BY <1>2
    <3> QED
      BY <1>2, <2>1, <3>1, <3>2, <3>3, <3>4
  <2>6. View!Shown(w) = Part(v1, a + m, n - m)
    <3>1. w.start = a + m /\ w.length = n - m
      OBVIOUS
    <3>2. View!Shown(w) = Part(v1, w.start, w.length)
      BY <1>1, <2>4, ShownIs, Zenon
    <3> QED
      BY <3>1, <3>2
  <2> HIDE DEF w, a, n, m
  <2>7. p \o View!Shown(w) = b
    <3> DEFINE k == n - m
    <3>1. k \in Nat /\ a + m + k <= Len(v1) /\ m + k = n /\ k = n - m
      BY <1>2, <1>3, <2>1
    <3> HIDE DEF k
    <3>2. v1 \in Seq(S) /\ a \in Nat /\ m \in Nat
      BY <1>1, <1>2, <1>3 DEF S
    <3>3. Part(v1, a, m) \o Part(v1, a + m, k) = Part(v1, a, m + k)
      BY <3>1, <3>2, PartsJoin, Zenon
    <3> QED
      BY <1>2, <2>5, <2>6, <3>1, <3>3
  <2>8. ViewsAreWithin'
    BY <1>1, <1>4, <2>3, <2>4 DEF ViewsAreWithin, Within
  <2>9. View!Shown(v2[x])' = View!Shown(w)
    <3>1. v2'[x] = w
      BY <1>1, <2>3
    <3> QED
      BY <1>4, <3>1 DEF View!Shown
  <2>10. PrefixIsRight'
    BY <1>5, <2>7, <2>9, Zenon DEF PrefixIsRight
  <2> QED
    BY <1>5, <2>8, <2>10 DEF ViewInv, CallIsRight
<1>8. CASE ~found
  <2>1. v2' = v2
    BY <1>4, <1>8
  <2>2. ViewsAreWithin'
    BY <1>1, <1>4, <2>1 DEF ViewsAreWithin, Within
  <2>3. PrefixIsRight'
    <3> HIDE DEF found
    <3> QED
      BY <1>5, <1>8, Zenon DEF PrefixIsRight
  <2> QED
    BY <1>5, <2>2, <2>3 DEF ViewInv, CallIsRight
<1> QED
  BY <1>7, <1>8

\* A sequence that another one ends with is its last part.
LEMMA SuffixIsPart ==
    ASSUME NEW S, NEW s \in Seq(S), NEW t \in Seq(S), View!IsSuffix(t, s)
    PROVE  Len(t) <= Len(s) /\ t = Part(s, Len(s) - Len(t), Len(t))
<1> DEFINE n == Len(s)
           m == Len(t)
           rs == View!Reverse(s)
           rt == View!Reverse(t)
           a == n - m
<1>1. n \in Nat /\ m \in Nat
  BY LenProperties
<1>2. /\ \A i \in 1..n : s[(n - i) + 1] \in S
      /\ \A i \in 1..m : t[(m - i) + 1] \in S
  <2>1. ASSUME NEW i \in 1..n
        PROVE  s[(n - i) + 1] \in S
    <3>1. (n - i) + 1 \in 1..Len(s)
      BY <1>1
    <3> QED
      BY <3>1, ElementOfSeq
  <2>2. ASSUME NEW i \in 1..m
        PROVE  t[(m - i) + 1] \in S
    <3>1. (m - i) + 1 \in 1..Len(t)
      BY <1>1
    <3> QED
      BY <3>1, ElementOfSeq
  <2> QED
    BY <2>1, <2>2
<1>3. /\ rs = [i \in 1..n |-> s[(n - i) + 1]]
      /\ rt = [i \in 1..m |-> t[(m - i) + 1]]
  BY DEF View!Reverse
<1>4. Len(rt) <= Len(rs) /\ SubSeq(rt, 1, Len(rt)) = SubSeq(rs, 1, Len(rt))
  BY Zenon DEF View!IsSuffix, View!IsPrefix
<1> HIDE DEF n, m, rs, rt
<1>5. /\ rs \in Seq(S) /\ Len(rs) = n /\ \A i \in 1..n : rs[i] = s[(n - i) + 1]
      /\ rt \in Seq(S) /\ Len(rt) = m /\ \A i \in 1..m : rt[i] = t[(m - i) + 1]
  <2>1. rs \in [1..n -> S] /\ rt \in [1..m -> S]
    BY <1>2, <1>3
  <2>2. rs \in Seq(S) /\ Len(rs) = n /\ rt \in Seq(S) /\ Len(rt) = m
    BY <1>1, <2>1, SeqDef, LenProperties
  <2> QED
    BY <1>3, <2>2
<1>6. m <= n /\ SubSeq(rt, 1, m) = SubSeq(rs, 1, m)
  BY <1>4, <1>5
<1>7. \A i \in 1..m : rt[i] = rs[i]
  <2>1. m \in 0..Len(rt) /\ m \in 0..Len(rs)
    BY <1>1, <1>5, <1>6
  <2>2. \A i \in 1..m : SubSeq(rt, 1, m)[i] = rt[i]
    BY <1>5, <2>1, FirstFacts
  <2>3. \A i \in 1..m : SubSeq(rs, 1, m)[i] = rs[i]
    BY <1>5, <2>1, FirstFacts
  <2> QED
    BY <1>6, <2>2, <2>3
<1>8. ASSUME NEW k \in 1..m
      PROVE  t[k] = s[a + k]
  <2> DEFINE i == (m - k) + 1
  <2>1. i \in 1..m /\ i \in 1..n /\ (m - i) + 1 = k /\ (n - i) + 1 = a + k
    BY <1>1, <1>6
  <2> HIDE DEF i, a
  <2>2. rt[i] = t[(m - i) + 1] /\ rs[i] = s[(n - i) + 1] /\ rt[i] = rs[i]
    BY <1>5, <1>7, <2>1
  <2> QED
    BY <2>1, <2>2
<1>9. a \in Nat /\ a + m <= Len(s) /\ Len(t) = m /\ Len(s) = n
  BY <1>1, <1>6 DEF m, n
<1>10. a = Len(s) - Len(t)
  BY DEF m, n
<1> HIDE DEF a
<1>11. t = Part(s, a, m)
  BY <1>1, <1>8, <1>9, PartEquals
<1> QED
  BY <1>6, <1>9, <1>10, <1>11

\* Removing a suffix
LEMMA RemoveSuffixKeeps ==
    ASSUME ViewInv, NEW x \in Views, NEW y \in Views, View!RemoveSuffix(x, y)
    PROVE  ViewInv'
<1> DEFINE a == v2[x].start
           n == v2[x].length
           m == v2[y].length
           b == View!Shown(v2[x])
           p == View!Shown(v2[y])
           w == [start |-> a, length |-> n - m]
           S == View!Range(v1)
           found == View!IsSuffix(p, b)
<1>1. ViewsAreWithin /\ Within(v2[x]) /\ Within(v2[y]) /\ v1 \in Seq(S) /\ DOMAIN v2 = Views
  BY DEF ViewInv, ViewsAreWithin
<1>2. /\ b = Part(v1, a, n) /\ b \in Seq(S) /\ Len(b) = n
      /\ a \in Nat /\ n \in Nat /\ a + n <= Len(v1) /\ Len(v1) \in Nat
  BY <1>1, ShownIs, LenProperties
<1>3. p \in Seq(S) /\ Len(p) = m /\ m \in Nat
  BY <1>1, ShownIs
<1>4. /\ v1' = v1
      /\ v2' = IF found THEN [v2 EXCEPT ![x] = w] ELSE v2
      /\ v3' = [call |-> "remove suffix", on |-> x, before |-> b, part |-> p, found |-> found]
  BY DEF View!RemoveSuffix, View!RecordPart
<1>5. /\ v3'.call = "remove suffix" /\ v3'.on = x /\ v3'.before = b /\ v3'.part = p
      /\ v3'.found = found
  BY <1>4
<1> HIDE DEF p, b, S
<1>6. CASE found
  <2>1. m <= n /\ p = Part(b, n - m, m)
    <3>1. View!IsSuffix(p, b) /\ p \in Seq(S) /\ b \in Seq(S)
      BY <1>2, <1>3, <1>6
    <3>2. Len(p) <= Len(b) /\ p = Part(b, Len(b) - Len(p), Len(p))
      BY <3>1, SuffixIsPart, Zenon
    <3> QED
      BY <1>2, <1>3, <3>2, Zenon
  <2>2. v2' = [v2 EXCEPT ![x] = w]
    BY <1>4, <1>6
  <2> HIDE DEF found
  <2>3. Within(w)
    <3>1. n - m \in Nat /\ 0 + (n - m) <= n /\ 0 \in Nat /\ a + 0 = a
      BY <1>2, <1>3, <2>1
    <3>2. Within([start |-> v2[x].start + 0, length |-> n - m])
      <4> HIDE DEF m
      <4> QED
        BY <1>1, <1>2, <1>3, <3>1, WithinPart
    <3> QED
      BY <3>1, <3>2
  <2>4. View!Shown(w) = Part(v1, a, n - m)
    <3>1. w.start = a /\ w.length = n - m
      OBVIOUS
    <3>2. View!Shown(w) = Part(v1, w.start, w.length)
      BY <1>1, <2>3, ShownIs, Zenon
    <3> QED
      BY <3>1, <3>2
  <2> HIDE DEF w, a, n, m
  <2>5. View!Shown(w) \o p = b
    <3> DEFINE k == n - m
    <3>1. k = n - m /\ k + m = n /\ k + m <= n /\ k \in Nat
      BY <1>2, <1>3, <2>1
    <3>2. v1 \in Seq(S) /\ a \in Nat /\ m \in Nat /\ n \in Nat /\ a + n <= Len(v1)
      BY <1>1, <1>2, <1>3 DEF S
    <3> HIDE DEF k
    <3>3. Part(v1, a, k) \o Part(v1, a + k, m) = Part(v1, a, k + m)
      <4>1. k \in Nat /\ a + k + m <= Len(v1)
        BY <1>2, <3>1, <3>2
      <4> QED
        BY <3>2, <4>1, PartsJoin, Zenon
    <3>4. Part(Part(v1, a, n), k, m) = Part(v1, a + k, m)
      BY <3>1, <3>2, PartOfPart
    <3>5. p = Part(v1, a + k, m)
      BY <1>2, <2>1, <3>1, <3>4, Zenon
    <3>6. View!Shown(w) = Part(v1, a, k)
      BY <2>4, <3>1, Zenon
    <3>7. b = Part(v1, a, k + m)
      BY <1>2, <3>1, Zenon
    <3> QED
      BY <3>3, <3>5, <3>6, <3>7, Zenon
  <2>6. ViewsAreWithin'
    BY <1>1, <1>4, <2>2, <2>3 DEF ViewsAreWithin, Within
  <2>7. View!Shown(v2[x])' = View!Shown(w)
    <3>1. v2'[x] = w
      BY <1>1, <2>2
    <3> QED
      BY <1>4, <3>1 DEF View!Shown
  <2>8. SuffixIsRight'
    BY <1>5, <2>5, <2>7, Zenon DEF SuffixIsRight
  <2> QED
    BY <1>5, <2>6, <2>8 DEF ViewInv, CallIsRight
<1>7. CASE ~found
  <2>1. v2' = v2
    BY <1>4, <1>7
  <2>2. ViewsAreWithin'
    BY <1>1, <1>4, <2>1 DEF ViewsAreWithin, Within
  <2>3. SuffixIsRight'
    <3> HIDE DEF found
    <3> QED
      BY <1>5, <1>7, Zenon DEF SuffixIsRight
  <2> QED
    BY <1>5, <2>2, <2>3 DEF ViewInv, CallIsRight
<1> QED
  BY <1>6, <1>7

-----------------------------------------------------------------------------
(* SplitsAsPromised for texts, variables and delimiters of every kind:     *)
(* whatever views the program cuts, and into whichever of them, split()    *)
(* gives the characters on both sides of the first delimiter, trim() what  *)
(* is between the delimiters at the ends, removing a prefix or a suffix    *)
(* the rest, and no view leaves the text.                                  *)
THEOREM ViewsAreRight == MCSpec => []SplitsAsPromised
<1> DEFINE Inv == component = "view" => ViewInv
<1>1. MCInit => Inv
  BY ViewsStart DEF MCInit
<1>2. Inv /\ [MCNext]_vars => Inv'
  <2> SUFFICES ASSUME Inv, [MCNext]_vars, component' = "view"
               PROVE  ViewInv'
    OBVIOUS
  <2>1. CASE UNCHANGED vars
    BY <2>1 DEF vars, ViewInv, ViewsAreWithin, Within, CallIsRight, SplitIsRight, TrimIsRight,
                PrefixIsRight, SuffixIsRight, View!Shown
  <2>2. CASE MCNext
    <3>1. component = "view" /\ ViewInv /\ View!Next
      BY <2>2 DEF MCNext
    <3>2. Len(v1) \in Nat
      BY <3>1, LenProperties DEF ViewInv, ViewsAreWithin
    <3> QED
      BY <3>1, <3>2, SplitKeeps, TrimKeeps, SubstrKeeps, RemovePrefixKeeps, RemoveSuffixKeeps
         DEF View!Next
  <2> QED
    BY <2>1, <2>2
<1>3. Inv => SplitsAsPromised
  BY PromiseIs DEF SplitsAsPromised
<1> QED
  BY <1>1, <1>2, <1>3, PTL DEF MCSpec

-----------------------------------------------------------------------------
(* The search tree and the map: what SortedMapProofs shows of them          *)

TreeTheory == INSTANCE SortedMapProofs WITH
    Node <- TreeNodes, KeyOf <- TreeKeys,
    tree <- v1, root <- v2, leftmost <- v3, rightmost <- v4, number_of_nodes <- v5,
    value <- v6, sr <- v7, iterator <- v8, alive <- v9, element_to_delete <- v10

MapTheory == INSTANCE SortedMapProofs WITH
    Node <- MapNodes, KeyOf <- MapKeys,
    tree <- v1, root <- v2, leftmost <- v3, rightmost <- v4, number_of_nodes <- v5,
    value <- v6, sr <- v7, iterator <- v8, alive <- v9, element_to_delete <- v10

IsTree == component = "tree"
IsMap  == component = "map"

\* The component of a behaviour never changes.
LEMMA TreeOrMap == MCSpec => ([]IsTree \/ []~IsTree) /\ ([]IsMap \/ []~IsMap)
<1>1. [MCNext]_vars => (IsTree' <=> IsTree) /\ (IsMap' <=> IsMap)
  BY DEF MCNext, vars, IsTree, IsMap
<1> QED
  BY <1>1, PTL DEF MCSpec

\* What the operators of the search tree mean there
LEMMA TreeOperators ==
    /\ TreeTheory!Linked = Tree!Linked /\ TreeTheory!Pointer = Tree!Pointer
    /\ \A n : /\ TreeTheory!LeftEnd(n) = Tree!LeftEnd(n) /\ TreeTheory!RightEnd(n) = Tree!RightEnd(n)
             /\ TreeTheory!NextNode(n) = Tree!NextNode(n) /\ TreeTheory!PrevNode(n) = Tree!PrevNode(n)
             /\ TreeTheory!Find(n) = Tree!Find(n) /\ TreeTheory!Search(n) = Tree!Search(n)
    /\ \A n, found : Tree!InsertAfterSearch(n, found) => TreeTheory!InsertAfterSearch(n, found)
    /\ \A n : Tree!RemoveNode(n) => TreeTheory!RemoveNode(n)
<1>1. TreeTheory!Linked = Tree!Linked /\ TreeTheory!Pointer = Tree!Pointer
  BY DEF Tree!Linked, TreeTheory!Linked, Tree!Pointer, TreeTheory!Pointer
<1>2. ASSUME NEW n PROVE TreeTheory!LeftEnd(n) = Tree!LeftEnd(n) /\ TreeTheory!RightEnd(n) = Tree!RightEnd(n)
  BY DEF Tree!LeftEnd, TreeTheory!LeftEnd, Tree!RightEnd, TreeTheory!RightEnd,
         Tree!Linked, TreeTheory!Linked
<1>3. ASSUME NEW n PROVE TreeTheory!NextNode(n) = Tree!NextNode(n) /\ TreeTheory!PrevNode(n) = Tree!PrevNode(n)
  BY DEF Tree!NextNode, TreeTheory!NextNode, Tree!PrevNode, TreeTheory!PrevNode,
         Tree!LeftEnd, TreeTheory!LeftEnd, Tree!RightEnd, TreeTheory!RightEnd,
         Tree!Linked, TreeTheory!Linked
<1>4. ASSUME NEW n PROVE TreeTheory!Find(n) = Tree!Find(n)
  BY DEF Tree!Find, TreeTheory!Find, Tree!Pointer, TreeTheory!Pointer, Tree!Linked,
         TreeTheory!Linked
<1>5. ASSUME NEW n PROVE TreeTheory!Search(n) = Tree!Search(n)
  BY DEF Tree!Search, TreeTheory!Search, Tree!Linked, TreeTheory!Linked
<1>6. ASSUME NEW n, NEW found, Tree!InsertAfterSearch(n, found)
      PROVE  TreeTheory!InsertAfterSearch(n, found)
  <2>1. Tree!InsertRoot(n) => TreeTheory!InsertRoot(n)
    BY DEF Tree!InsertRoot, TreeTheory!InsertRoot, Tree!Leaf, TreeTheory!Leaf
  <2>2. ASSUME NEW p
        PROVE  /\ Tree!InsertLeft(n, p) => TreeTheory!InsertLeft(n, p)
               /\ Tree!InsertRight(n, p) => TreeTheory!InsertRight(n, p)
    BY DEF Tree!InsertLeft, TreeTheory!InsertLeft, Tree!InsertRight, TreeTheory!InsertRight, Tree!Leaf, TreeTheory!Leaf
  <2>3. ASSUME NEW p, NEW q, Tree!LeftEnd(v1[p].right) = q, Tree!InsertNext(n, p)
        PROVE  TreeTheory!InsertNext(n, p)
    <3>1. TreeTheory!LeftEnd(v1[p].right) = q
      BY <1>2, <2>3
    <3> QED
      BY <2>3, <3>1 DEF Tree!InsertNext, TreeTheory!InsertNext, Tree!Leaf, TreeTheory!Leaf
  <2> QED
    BY <1>6, <2>1, <2>2, <2>3 DEF Tree!InsertAfterSearch, TreeTheory!InsertAfterSearch
<1>7. ASSUME NEW n, Tree!RemoveNode(n)
      PROVE  TreeTheory!RemoveNode(n)
  <2>1. ASSUME NEW t, NEW m, NEW child, Tree!PutInPlace(t, m, child)
        PROVE  TreeTheory!PutInPlace(t, m, child)
    BY <2>1 DEF Tree!PutInPlace, TreeTheory!PutInPlace
  <2>2. Tree!RemoveLeaf(n) => TreeTheory!RemoveLeaf(n)
    BY <1>2, <2>1 DEF Tree!RemoveLeaf, TreeTheory!RemoveLeaf
  <2>3. Tree!RemoveWithoutRight(n) => TreeTheory!RemoveWithoutRight(n)
    BY <1>2, <2>1 DEF Tree!RemoveWithoutRight, TreeTheory!RemoveWithoutRight
  <2>4. Tree!RemoveWithoutLeft(n) => TreeTheory!RemoveWithoutLeft(n)
    BY <1>2, <2>1 DEF Tree!RemoveWithoutLeft, TreeTheory!RemoveWithoutLeft
  <2>5. Tree!RaiseLeftChild(n) => TreeTheory!RaiseLeftChild(n)
    BY <1>2, <2>1 DEF Tree!RaiseLeftChild, TreeTheory!RaiseLeftChild
  <2>6. Tree!RaiseRightChild(n) => TreeTheory!RaiseRightChild(n)
    BY <1>2, <2>1 DEF Tree!RaiseRightChild, TreeTheory!RaiseRightChild
  <2>7. ASSUME Tree!RaiseSuccessor(n)
        PROVE  TreeTheory!RaiseSuccessor(n)
    <3> DEFINE l == v1[n].left
               r == v1[n].right
               s == TreeTheory!LeftEnd(v1[r].left)
               q == v1[s].parent
               c == v1[s].right
               t == [v1 EXCEPT ![q].left = c]
               u == IF c = NULL THEN t ELSE [t EXCEPT ![c].parent = q]
               w == [u EXCEPT ![s].left = l, ![l].parent = s, ![s].right = r, ![r].parent = s,
                              ![s].parent = v1[n].parent]
    <3>1. /\ l # NULL /\ r # NULL /\ v1[l].right # NULL /\ v1[r].left # NULL
          /\ UNCHANGED <<v3, v4>>
      BY <2>7 DEF Tree!RaiseSuccessor
    <3>2. Tree!PutInPlace(w, n, s)
      BY <2>7 DEF Tree!RaiseSuccessor, Tree!LeftEnd, TreeTheory!LeftEnd, Tree!Linked, TreeTheory!Linked
    <3>3. TreeTheory!PutInPlace(w, n, s)
      BY <2>1, <3>2
    <3> QED
      BY <3>1, <3>3 DEF TreeTheory!RaiseSuccessor
  <2> QED
    BY <1>7, <2>2, <2>3, <2>4, <2>5, <2>6, <2>7 DEF Tree!RemoveNode, TreeTheory!RemoveNode
<1> QED
  BY <1>1, <1>2, <1>3, <1>4, <1>5, <1>6, <1>7

\* A behaviour of the search tree is one of BinarySearchTree.
LEMMA TreeBehaviour == MCSpec /\ []IsTree => TreeTheory!TreeSpec
<1>1. MCInit /\ IsTree => TreeTheory!TreeInit
  BY DEF IsTree, MCInit, Tree!TreeInit, TreeTheory!TreeInit
<1>2. IsTree /\ [MCNext]_vars => [TreeTheory!TreeNext]_(TreeTheory!treeVars)
  BY TreeOperators DEF IsTree, MCNext, vars, Tree!treeVars, TreeTheory!treeVars,
         Tree!TreeNext, TreeTheory!TreeNext, Tree!Insert, TreeTheory!Insert,
         Tree!Remove, TreeTheory!Remove
<1> QED
  BY <1>1, <1>2, PTL DEF MCSpec, TreeTheory!TreeSpec

\* What the operators of the tree under the map mean there
LEMMA MapOperators ==
    /\ MapTheory!Linked = Map!Linked /\ MapTheory!Pointer = Map!Pointer
    /\ \A n : /\ MapTheory!LeftEnd(n) = Map!LeftEnd(n) /\ MapTheory!RightEnd(n) = Map!RightEnd(n)
             /\ MapTheory!NextNode(n) = Map!NextNode(n) /\ MapTheory!PrevNode(n) = Map!PrevNode(n)
             /\ MapTheory!Find(n) = Map!Find(n) /\ MapTheory!Search(n) = Map!Search(n)
    /\ \A n, found : Map!InsertAfterSearch(n, found) => MapTheory!InsertAfterSearch(n, found)
    /\ \A n : Map!RemoveNode(n) => MapTheory!RemoveNode(n)
<1>1. MapTheory!Linked = Map!Linked /\ MapTheory!Pointer = Map!Pointer
  BY DEF Map!Linked, MapTheory!Linked, Map!Pointer, MapTheory!Pointer
<1>2. ASSUME NEW n PROVE MapTheory!LeftEnd(n) = Map!LeftEnd(n) /\ MapTheory!RightEnd(n) = Map!RightEnd(n)
  BY DEF Map!LeftEnd, MapTheory!LeftEnd, Map!RightEnd, MapTheory!RightEnd,
         Map!Linked, MapTheory!Linked
<1>3. ASSUME NEW n PROVE MapTheory!NextNode(n) = Map!NextNode(n) /\ MapTheory!PrevNode(n) = Map!PrevNode(n)
  BY DEF Map!NextNode, MapTheory!NextNode, Map!PrevNode, MapTheory!PrevNode,
         Map!LeftEnd, MapTheory!LeftEnd, Map!RightEnd, MapTheory!RightEnd,
         Map!Linked, MapTheory!Linked
<1>4. ASSUME NEW n PROVE MapTheory!Find(n) = Map!Find(n)
  BY DEF Map!Find, MapTheory!Find, Map!Pointer, MapTheory!Pointer, Map!Linked,
         MapTheory!Linked
<1>5. ASSUME NEW n PROVE MapTheory!Search(n) = Map!Search(n)
  BY DEF Map!Search, MapTheory!Search, Map!Linked, MapTheory!Linked
<1>6. ASSUME NEW n, NEW found, Map!InsertAfterSearch(n, found)
      PROVE  MapTheory!InsertAfterSearch(n, found)
  <2>1. Map!InsertRoot(n) => MapTheory!InsertRoot(n)
    BY DEF Map!InsertRoot, MapTheory!InsertRoot, Map!Leaf, MapTheory!Leaf
  <2>2. ASSUME NEW p
        PROVE  /\ Map!InsertLeft(n, p) => MapTheory!InsertLeft(n, p)
               /\ Map!InsertRight(n, p) => MapTheory!InsertRight(n, p)
    BY DEF Map!InsertLeft, MapTheory!InsertLeft, Map!InsertRight, MapTheory!InsertRight, Map!Leaf, MapTheory!Leaf
  <2>3. ASSUME NEW p, NEW q, Map!LeftEnd(v1[p].right) = q, Map!InsertNext(n, p)
        PROVE  MapTheory!InsertNext(n, p)
    <3>1. MapTheory!LeftEnd(v1[p].right) = q
      BY <1>2, <2>3
    <3> QED
      BY <2>3, <3>1 DEF Map!InsertNext, MapTheory!InsertNext, Map!Leaf, MapTheory!Leaf
  <2> QED
    BY <1>6, <2>1, <2>2, <2>3 DEF Map!InsertAfterSearch, MapTheory!InsertAfterSearch
<1>7. ASSUME NEW n, Map!RemoveNode(n)
      PROVE  MapTheory!RemoveNode(n)
  <2>1. ASSUME NEW t, NEW m, NEW child, Map!PutInPlace(t, m, child)
        PROVE  MapTheory!PutInPlace(t, m, child)
    BY <2>1 DEF Map!PutInPlace, MapTheory!PutInPlace
  <2>2. Map!RemoveLeaf(n) => MapTheory!RemoveLeaf(n)
    BY <1>2, <2>1 DEF Map!RemoveLeaf, MapTheory!RemoveLeaf
  <2>3. Map!RemoveWithoutRight(n) => MapTheory!RemoveWithoutRight(n)
    BY <1>2, <2>1 DEF Map!RemoveWithoutRight, MapTheory!RemoveWithoutRight
  <2>4. Map!RemoveWithoutLeft(n) => MapTheory!RemoveWithoutLeft(n)
    BY <1>2, <2>1 DEF Map!RemoveWithoutLeft, MapTheory!RemoveWithoutLeft
  <2>5. Map!RaiseLeftChild(n) => MapTheory!RaiseLeftChild(n)
    BY <1>2, <2>1 DEF Map!RaiseLeftChild, MapTheory!RaiseLeftChild
  <2>6. Map!RaiseRightChild(n) => MapTheory!RaiseRightChild(n)
    BY <1>2, <2>1 DEF Map!RaiseRightChild, MapTheory!RaiseRightChild
  <2>7. ASSUME Map!RaiseSuccessor(n)
        PROVE  MapTheory!RaiseSuccessor(n)
    <3> DEFINE l == v1[n].left
               r == v1[n].right
               s == MapTheory!LeftEnd(v1[r].left)
               q == v1[s].parent
               c == v1[s].right
               t == [v1 EXCEPT ![q].left = c]
               u == IF c = NULL THEN t ELSE [t EXCEPT ![c].parent = q]
               w == [u EXCEPT ![s].left = l, ![l].parent = s, ![s].right = r, ![r].parent = s,
                              ![s].parent = v1[n].parent]
    <3>1. /\ l # NULL /\ r # NULL /\ v1[l].right # NULL /\ v1[r].left # NULL
          /\ UNCHANGED <<v3, v4>>
      BY <2>7 DEF Map!RaiseSuccessor
    <3>2. Map!PutInPlace(w, n, s)
      BY <2>7 DEF Map!RaiseSuccessor, Map!LeftEnd, MapTheory!LeftEnd, Map!Linked, MapTheory!Linked
    <3>3. MapTheory!PutInPlace(w, n, s)
      BY <2>1, <3>2
    <3> QED
      BY <3>1, <3>3 DEF MapTheory!RaiseSuccessor
  <2> QED
    BY <1>7, <2>2, <2>3, <2>4, <2>5, <2>6, <2>7 DEF Map!RemoveNode, MapTheory!RemoveNode
<1> QED
  BY <1>1, <1>2, <1>3, <1>4, <1>5, <1>6, <1>7

\* A behaviour of the map is one of SortedMap.
LEMMA MapBehaviour == MCSpec /\ []IsMap => MapTheory!Spec
<1>1. MCInit /\ IsMap => MapTheory!Init
  BY DEF IsMap, MCInit, Map!Init, MapTheory!Init, Map!TreeInit, MapTheory!TreeInit
<1>2. Map!Next => MapTheory!Next
  <2>1. Map!Key = MapTheory!Key /\ \A found : Map!IsMatch(found) <=> MapTheory!IsMatch(found)
    BY DEF Map!Key, MapTheory!Key, Map!IsMatch, MapTheory!IsMatch
  <2>2. ASSUME NEW key PROVE Map!SearchFor(key) => MapTheory!SearchFor(key)
    BY MapOperators DEF Map!SearchFor, MapTheory!SearchFor, Map!treeVars, MapTheory!treeVars
  <2>3. ASSUME NEW key, NEW v, NEW found
        PROVE  /\ Map!InsertElement(key, v, found) => MapTheory!InsertElement(key, v, found)
               /\ Map!Overwrite(key, v, found) => MapTheory!Overwrite(key, v, found)
    <3>1. Map!InsertElement(key, v, found) => MapTheory!InsertElement(key, v, found)
      BY MapOperators, <2>1 DEF Map!InsertElement, MapTheory!InsertElement
    <3>2. Map!Overwrite(key, v, found) => MapTheory!Overwrite(key, v, found)
      BY <2>1 DEF Map!Overwrite, MapTheory!Overwrite, Map!treeVars, MapTheory!treeVars
    <3> QED
      BY <3>1, <3>2
  <2>4. ASSUME NEW v PROVE Map!InsertNew(v) => MapTheory!InsertNew(v)
    BY <2>3 DEF Map!InsertNew, MapTheory!InsertNew
  <2>5. ASSUME NEW key, NEW v PROVE Map!InsertKey(key, v) => MapTheory!InsertKey(key, v)
    BY MapOperators, <2>3 DEF Map!InsertKey, MapTheory!InsertKey
  <2>6. ASSUME NEW key PROVE Map!RemoveKey(key) => MapTheory!RemoveKey(key)
    BY MapOperators DEF Map!RemoveKey, MapTheory!RemoveKey
  <2>7. /\ Map!Begin => MapTheory!Begin
        /\ (Map!Advance => MapTheory!Advance)
        /\ Map!Retreat => MapTheory!Retreat
    BY MapOperators DEF Map!Begin, MapTheory!Begin, Map!Advance, MapTheory!Advance,
       Map!Retreat, MapTheory!Retreat, Map!treeVars, MapTheory!treeVars
  <2>8. Map!Destroy => MapTheory!Destroy
    BY DEF Map!Destroy, MapTheory!Destroy, Map!treeVars, MapTheory!treeVars
  <2>9. Map!DeleteNext => MapTheory!DeleteNext
    BY MapOperators DEF Map!DeleteNext, MapTheory!DeleteNext
  <2>10. Map!Construct => MapTheory!Construct
    BY DEF Map!Construct, MapTheory!Construct
  <2> QED
    BY <2>1, <2>2, <2>4, <2>5, <2>6, <2>7, <2>8, <2>9, <2>10 DEF Map!Next, MapTheory!Next
<1>3. IsMap /\ [MCNext]_vars => [MapTheory!Next]_(MapTheory!mapVars)
  BY <1>2 DEF IsMap, MCNext, vars, MapTheory!treeVars, MapTheory!mapVars
<1> QED
  BY <1>1, <1>3, PTL DEF MCSpec, MapTheory!Spec

LEMMA TheoryAssumptions ==
    /\ TreeTheory!NodeAssumption /\ TreeTheory!KeyAssumption
    /\ MapTheory!NodeAssumption /\ MapTheory!KeyAssumption /\ MapTheory!NullAssumption
  BY TreeAssumption, MapAssumption
     DEF Tree!NodeAssumption, TreeTheory!NodeAssumption, Tree!KeyAssumption,
         TreeTheory!KeyAssumption, Map!NodeAssumption, MapTheory!NodeAssumption,
         Map!KeyAssumption, MapTheory!KeyAssumption, Map!NullAssumption,
         MapTheory!NullAssumption, Map!Key, MapTheory!Key, Tree!IsFiniteSet,
         TreeTheory!IsFiniteSet, Map!IsFiniteSet, MapTheory!IsFiniteSet

\* Links, order, iteration and find() are right after any sequence of operations.
THEOREM TreeIsRight == MCSpec => []TreeIsSound
<1>1. TreeTheory!TreeSpec => []TreeTheory!TreeIsSound
  BY TheoryAssumptions, TreeTheory!TreeStaysSound
<1>2. TreeTheory!TreeIsSound => Tree!TreeIsSound
  <2>1. TreeTheory!InOrder = Tree!InOrder
    BY DEF Tree!InOrder, TreeTheory!InOrder, Tree!Pointer, TreeTheory!Pointer,
           Tree!Linked, TreeTheory!Linked
  <2>2. TreeTheory!TypeOK => Tree!TypeOK
    BY TreeOperators DEF Tree!TypeOK, TreeTheory!TypeOK, Tree!Links,
           TreeTheory!Links
  <2>3. TreeTheory!LinksAgree => Tree!LinksAgree
    BY TreeOperators DEF Tree!LinksAgree, TreeTheory!LinksAgree
  <2>4. TreeTheory!AllReached => Tree!AllReached
    BY <2>1, TreeOperators DEF Tree!AllReached, TreeTheory!AllReached,
           Tree!Cardinality, TreeTheory!Cardinality
  <2>5. TreeTheory!IterationInOrder => Tree!IterationInOrder
    BY <2>1, TreeOperators DEF Tree!IterationInOrder, TreeTheory!IterationInOrder
  <2>6. TreeTheory!FindsKeys => Tree!FindsKeys
    BY TreeOperators DEF Tree!FindsKeys, TreeTheory!FindsKeys
  <2> QED
    BY <2>2, <2>3, <2>4, <2>5, <2>6 DEF TreeTheory!TreeIsSound, Tree!TreeIsSound
<1>3. TreeTheory!TreeIsSound => TreeIsSound
  BY <1>2 DEF TreeIsSound
<1>4. ~IsTree => TreeIsSound
  BY DEF IsTree, TreeIsSound
<1> QED
  BY <1>1, <1>3, <1>4, TreeOrMap, TreeBehaviour, PTL

\* Insertions and removals are those of a sequence of nodes sorted by key.
THEOREM TreeKeepsOrder == MCSpec => SortedByKey
<1> DEFINE Starts == IsTree => Tree!Order!Init
           Step == component = "tree" => [Tree!Order!Next]_(Tree!InOrder)
<1>1. TreeTheory!TreeSpec => TreeTheory!Order!Init /\ [][TreeTheory!Order!Next]_(TreeTheory!InOrder)
  BY TheoryAssumptions, TreeTheory!TreeIsSortedSequence DEF TreeTheory!SortedByKey, TreeTheory!Order!Spec
<1>2. TreeTheory!InOrder = Tree!InOrder
  BY DEF Tree!InOrder, TreeTheory!InOrder, Tree!Pointer, TreeTheory!Pointer,
         Tree!Linked, TreeTheory!Linked
<1>3. TreeTheory!InOrder' = Tree!InOrder'
  BY DEF Tree!InOrder, TreeTheory!InOrder, Tree!Pointer, TreeTheory!Pointer,
         Tree!Linked, TreeTheory!Linked
<1>4. TreeTheory!Order!Init => Starts
  BY <1>2 DEF Tree!Order!Init, TreeTheory!Order!Init
<1>5. TreeTheory!Order!Next => Tree!Order!Next
  BY <1>2, <1>3 DEF Tree!Order!Next, TreeTheory!Order!Next, Tree!Order!Insert,
         TreeTheory!Order!Insert, Tree!Order!Remove, TreeTheory!Order!Remove,
         Tree!Order!Has, TreeTheory!Order!Has, Tree!Order!IsSorted,
         TreeTheory!Order!IsSorted
<1>6. [TreeTheory!Order!Next]_(TreeTheory!InOrder) => Step
  BY <1>2, <1>3, <1>5
<1>7. ~IsTree => Starts /\ Step
  BY DEF IsTree
<1>8. Starts <=> (component = "tree" => Tree!Order!Init)
  BY DEF IsTree
<1> HIDE DEF Starts, Step
<1>9. MCSpec => Starts /\ [][Step]_vars
  BY <1>1, <1>4, <1>6, <1>7, TreeOrMap, TreeBehaviour, PTL DEF MCSpec
<1> QED
  BY <1>8, <1>9 DEF SortedByKey, Step

\* One element per key, none lost or forgotten, no pointer kept to a deleted one.
THEOREM MapIsRight == MCSpec => []MapIsSound
<1>1. MapTheory!Spec => []MapTheory!MapIsSound
  BY TheoryAssumptions, MapTheory!MapStaysSound
<1>2. MapTheory!MapIsSound => Map!MapIsSound
  BY DEF Map!MapIsSound, MapTheory!MapIsSound, Map!MapTypeOK, MapTheory!MapTypeOK,
         Map!UniqueKeys, MapTheory!UniqueKeys, Map!NothingLeaks,
         MapTheory!NothingLeaks, Map!TypeOK, MapTheory!TypeOK, Map!Linked,
         MapTheory!Linked, Map!Pointer, MapTheory!Pointer, Map!Links,
         MapTheory!Links
<1>3. MapTheory!MapIsSound => MapIsSound
  BY <1>2 DEF MapIsSound
<1>4. ~IsMap => MapIsSound
  BY DEF IsMap, MapIsSound
<1> QED
  BY <1>1, <1>3, <1>4, TreeOrMap, MapBehaviour, PTL

\* The container is a function from keys to values with an iterator over its keys.
THEOREM MapKeepsPromises == MCSpec => IsOrderedMap
<1> DEFINE Starts == IsMap => Map!Contents!Init
           Step == component = "map" => [Map!Contents!Next]_<<Map!Entries, Map!Position>>
           Shown == <<MapTheory!Entries, MapTheory!Position>>
<1>1. MapTheory!Spec => MapTheory!Contents!Init /\ [][MapTheory!Contents!Next]_Shown
  BY TheoryAssumptions, MapTheory!MapIsFunction
     DEF MapTheory!IsOrderedMap, MapTheory!Contents!Spec
<1>2. MapTheory!Entries = Map!Entries /\ MapTheory!Position = Map!Position
  BY DEF Map!Entries, MapTheory!Entries, Map!Position, MapTheory!Position,
         Map!Linked, MapTheory!Linked
<1>3. MapTheory!Entries' = Map!Entries' /\ MapTheory!Position' = Map!Position'
  BY DEF Map!Entries, MapTheory!Entries, Map!Position, MapTheory!Position,
         Map!Linked, MapTheory!Linked
<1>4. MapTheory!Contents!Init => Starts
  BY <1>2 DEF Map!Contents!Init, MapTheory!Contents!Init
<1>5. MapTheory!Contents!Next => Map!Contents!Next
  BY <1>2, <1>3 DEF Map!Key, MapTheory!Key, Map!Contents!Next,
         MapTheory!Contents!Next, Map!Contents!Put, MapTheory!Contents!Put,
         Map!Contents!Delete, MapTheory!Contents!Delete, Map!Contents!Begin,
         MapTheory!Contents!Begin, Map!Contents!Go, MapTheory!Contents!Go,
         Map!Contents!GoBack, MapTheory!Contents!GoBack, Map!Contents!Leave,
         MapTheory!Contents!Leave, Map!Contents!Above, MapTheory!Contents!Above,
         Map!Contents!Below, MapTheory!Contents!Below, Map!Contents!IsLeast,
         MapTheory!Contents!IsLeast, Map!Contents!IsGreatest,
         MapTheory!Contents!IsGreatest
<1>6. [MapTheory!Contents!Next]_Shown => Step
  BY <1>2, <1>3, <1>5
<1>7. ~IsMap => Starts /\ Step
  BY DEF IsMap
<1>8. Starts <=> (component = "map" => Map!Contents!Init)
  BY DEF IsMap
<1> HIDE DEF Starts, Step
<1>9. MCSpec => Starts /\ [][Step]_vars
  BY <1>1, <1>4, <1>6, <1>7, TreeOrMap, MapBehaviour, PTL DEF MCSpec
<1> QED
  BY <1>8, <1>9 DEF IsOrderedMap, Step

-----------------------------------------------------------------------------
(* Help texts: v1 is text, v2 is width, v3 is call, v4 is line, v5 is       *)
(* offset, v6 is indent, v7 is printed.                                     *)

IsBreak(c) == c \in {Space, Newline}

\* The last of the spaces that start at a position
LEMMA EndOfRunIs ==
    ASSUME Len(v1) \in Nat, NEW pos \in 1..Len(v1), v1[pos] = Space
    PROVE  LET last == Wrap!EndOfRun(pos)
           IN  /\ last \in pos..Len(v1)
               /\ \A i \in pos..last : v1[i] = Space
               /\ last = Len(v1) \/ v1[last + 1] # Space
<1> DEFINE T == {n \in Nat : pos + n <= Len(v1) /\ (pos + n = Len(v1) \/ v1[pos + n + 1] # Space)}
<1>1. T \in SUBSET Nat /\ Len(v1) - pos \in T
  OBVIOUS
<1>2. PICK n \in T : \A m \in T : n <= m
  BY <1>1, LeastNatural
<1>3. ASSUME NEW i \in pos..(pos + n), v1[i] # Space
      PROVE  FALSE
  <2>1. i > pos
    BY <1>3
  <2>2. i - pos - 1 \in Nat /\ pos + (i - pos - 1) + 1 = i /\ pos + (i - pos - 1) <= Len(v1) /\ i - pos - 1 < n
    BY <2>1, <1>3
  <2>3. i - pos - 1 \in T
    BY <1>3, <2>2
  <2>4. n <= i - pos - 1
    BY <1>2, <2>3
  <2> QED
    BY <2>2, <2>4
<1>4. /\ pos + n \in pos..Len(v1)
      /\ \A i \in pos..(pos + n) : v1[i] = Space
      /\ pos + n = Len(v1) \/ v1[pos + n + 1] # Space
  BY <1>3
<1>5. \E last \in pos..Len(v1) :
         /\ \A i \in pos..last : v1[i] = Space
         /\ last = Len(v1) \/ v1[last + 1] # Space
  BY <1>4
<1> QED
  BY <1>5 DEF Wrap!EndOfRun

\* A word reaches beyond its characters.
LEMMA WordReaches ==
    ASSUME Len(v1) \in Nat, NEW pos \in 1..(Len(v1) + 1), NEW q \in pos..(Len(v1) + 1),
           \A i \in pos..(q - 1) : ~IsBreak(v1[i])
    PROVE  Wrap!WordEnd(pos) \in Int /\ Wrap!WordEnd(pos) >= q
<1> DEFINE E == Len(v1) + 1
           T == {n \in Nat : pos + n <= E /\ (pos + n = E \/ IsBreak(v1[pos + n]))}
<1>1. T \in SUBSET Nat /\ E - pos \in T
  OBVIOUS
<1>2. PICK n \in T : \A m \in T : n <= m
  BY <1>1, LeastNatural
<1>3. ASSUME NEW i \in pos..(pos + n - 1), IsBreak(v1[i])
      PROVE  FALSE
  <2>1. i - pos \in Nat /\ pos + (i - pos) = i /\ i <= E /\ i - pos < n
    BY <1>2
  <2>2. i - pos \in T
    BY <1>3, <2>1
  <2>3. n <= i - pos
    BY <1>2, <2>2
  <2> QED
    BY <2>1, <2>3
<1>4. \E e \in pos..Wrap!TextEnd :
         /\ \A i \in pos..(e - 1) : v1[i] \notin {Space, Newline}
         /\ e = Wrap!TextEnd \/ v1[e] \in {Space, Newline}
  <2>1. /\ pos + n \in pos..Wrap!TextEnd
        /\ \A i \in pos..(pos + n - 1) : v1[i] \notin {Space, Newline}
        /\ pos + n = Wrap!TextEnd \/ v1[pos + n] \in {Space, Newline}
    BY <1>3 DEF IsBreak, Wrap!TextEnd
  <2> QED
    BY <2>1
<1> DEFINE w == Wrap!WordEnd(pos)
<1>5. w \in pos..E /\ (w = E \/ IsBreak(v1[w]))
  BY <1>4 DEF Wrap!WordEnd, IsBreak, Wrap!TextEnd
<1> HIDE DEF w
<1>6. w >= q
  BY <1>5
<1> QED
  BY <1>5, <1>6 DEF w

\* What PrintLine needs of the end of the line and the start of the next one
IsCut(from, end, next, max_pos) ==
    /\ end \in from..Wrap!TextEnd /\ next \in (from + 1)..Wrap!TextEnd
    /\ \A c \in from..(end - 1) : v1[c] # Newline
    /\ \/ end = next /\ next = Wrap!TextEnd
       \/ next = end + 1 /\ v1[end] = Newline
       \/ /\ v1[from] # Space
          /\ \A c \in end..(next - 1) : v1[c] = Space
          /\ Wrap!WordEnd(next) > max_pos
    /\ v1[from] # Space => end <= max_pos \/ \A c \in from..(end - 1) : v1[c] # Space

MaxPos == v4 + v2 - v6

\* What the loop knows when it comes to pos: end and next are those of the last run
\* of spaces, which is within the width, and 0 if there has been none.
Scanned(pos, end, next) ==
    /\ pos \in v4..Len(v1)
    /\ \A c \in v4..(pos - 1) : v1[c] # Newline
    /\ end = 0 => \A c \in v4..(pos - 1) : v1[c] # Space
    /\ end # 0 =>
          /\ v4 <= end /\ end < next /\ next <= pos /\ pos <= MaxPos
          /\ \A c \in end..(next - 1) : v1[c] = Space
          /\ \A c \in next..(pos - 1) : v1[c] # Space

Scans == (1..Len(v1)) \X (0..Len(v1)) \X (0..Wrap!TextEnd)

\* One iteration at pos
LastOf(pos) == IF v1[pos] = Space THEN Wrap!EndOfRun(pos) ELSE pos
EndAfter(pos, end) == IF v1[pos] = Space THEN pos ELSE end
NextAfter(pos, next) == IF v1[pos] = Space THEN LastOf(pos) + 1 ELSE next
Stops(pos, end) ==
    \/ v1[pos] = Newline
    \/ LastOf(pos) + 1 > MaxPos /\ EndAfter(pos, end) # 0
    \/ LastOf(pos) + 1 = Wrap!TextEnd
Found(pos, end, next) ==
    IF v1[pos] = Newline THEN <<pos, pos + 1>>
    ELSE IF LastOf(pos) + 1 > MaxPos /\ EndAfter(pos, end) # 0
         THEN <<EndAfter(pos, end), NextAfter(pos, next)>>
    ELSE <<Wrap!TextEnd, Wrap!TextEnd>>

LEMMA LastIs ==
    ASSUME Len(v1) \in Nat, NEW pos \in 1..Len(v1)
    PROVE  /\ LastOf(pos) \in pos..Len(v1)
           /\ v1[pos] = Space => /\ \A i \in pos..LastOf(pos) : v1[i] = Space
                                 /\ LastOf(pos) = Len(v1) \/ v1[LastOf(pos) + 1] # Space
           /\ v1[pos] # Space => LastOf(pos) = pos
  BY EndOfRunIs DEF LastOf

\* Where the loop stops, it has found a cut.
LEMMA StopIsCut ==
    ASSUME Space # Newline, Len(v1) \in Nat, v4 \in 1..Len(v1), v2 \in Nat, v6 \in Int, v1[v4] # Space,
           NEW pos, NEW end \in 0..Len(v1), NEW next \in 0..Wrap!TextEnd, Scanned(pos, end, next),
           Stops(pos, end)
    PROVE  LET r == Found(pos, end, next) IN IsCut(v4, r[1], r[2], MaxPos)
<1> DEFINE last == LastOf(pos)
           e == EndAfter(pos, end)
           n == NextAfter(pos, next)
           m == MaxPos
<1>1. /\ pos \in v4..Len(v1)
      /\ \A c \in v4..(pos - 1) : v1[c] # Newline
      /\ end = 0 => \A c \in v4..(pos - 1) : v1[c] # Space
      /\ end # 0 =>
            /\ v4 <= end /\ end < next /\ next <= pos /\ pos <= m
            /\ \A c \in end..(next - 1) : v1[c] = Space
            /\ \A c \in next..(pos - 1) : v1[c] # Space
  BY DEF Scanned
<1>2. m \in Int /\ Wrap!TextEnd = Len(v1) + 1 /\ pos \in 1..Len(v1)
  BY <1>1 DEF MaxPos, Wrap!TextEnd
<1>3. /\ last \in pos..Len(v1)
      /\ v1[pos] = Space => \A i \in pos..last : v1[i] = Space
      /\ v1[pos] # Space => last = pos
  BY <1>2, LastIs
<1>4. /\ v1[pos] = Space => e = pos /\ n = last + 1
      /\ v1[pos] # Space => e = end /\ n = next
  BY DEF EndAfter, NextAfter
<1>5. pos <= m \/ \A c \in v4..(pos - 1) : v1[c] # Space
  BY <1>1
<1> DEFINE r == Found(pos, end, next)
<1>6. CASE v1[pos] = Newline
  <2>1. r[1] = pos /\ r[2] = pos + 1
    BY <1>6 DEF Found
  <2>2. IsCut(v4, pos, pos + 1, m)
    BY <1>1, <1>2, <1>5, <1>6 DEF IsCut
  <2> QED
    BY <2>1, <2>2
<1>7. CASE v1[pos] # Newline /\ last + 1 > m /\ e # 0
  <2>1. r[1] = e /\ r[2] = n
    BY <1>7 DEF Found
  <2>2. CASE v1[pos] = Space
    <3>1. e = pos /\ n = last + 1 /\ n \in 1..(Len(v1) + 1) /\ n > v4 /\ n > m
      BY <1>1, <1>2, <1>3, <1>4, <1>7, <2>2
    <3>2. Wrap!WordEnd(n) > m
      <4>1. n \in n..(Len(v1) + 1) /\ \A i \in n..(n - 1) : ~IsBreak(v1[i])
        BY <3>1
      <4>2. Wrap!WordEnd(n) \in Int /\ Wrap!WordEnd(n) >= n
        BY <3>1, <4>1, WordReaches
      <4> DEFINE w == Wrap!WordEnd(n)
      <4>3. w \in Int /\ w >= n /\ n \in Int /\ n > m /\ m \in Int
        BY <1>2, <3>1, <4>2
      <4> HIDE DEF w, n, m
      <4>4. w > m
        BY ONLY <4>3
      <4> QED
        BY <4>4 DEF w, n, m
    <3> HIDE DEF n, last, m, e
    <3>3. pos < n
      BY <1>2, <1>3, <3>1
    <3>4. \A c \in pos..(n - 1) : v1[c] = Space
      BY <1>2, <1>3, <2>2, <3>1
    <3>5. IsCut(v4, pos, n, m)
      BY <1>1, <1>2, <1>5, <2>2, <3>1, <3>2, <3>3, <3>4 DEF IsCut
    <3> QED
      BY <2>1, <3>1, <3>5 DEF m, e, n
  <2>3. CASE v1[pos] # Space
    <3>1. e = end /\ n = next /\ end # 0 /\ pos + 1 > m
      BY <1>3, <1>4, <1>7, <2>3
    <3>2. next \in 1..(Len(v1) + 1) /\ pos + 1 \in next..(Len(v1) + 1)
      BY <1>1, <1>2, <3>1
    <3>3. \A i \in next..((pos + 1) - 1) : ~IsBreak(v1[i])
      BY <1>1, <1>2, <1>7, <2>3, <3>1, <3>2 DEF IsBreak
    <3>4. Wrap!WordEnd(next) \in Int /\ Wrap!WordEnd(next) >= pos + 1
      BY <3>2, <3>3, WordReaches
    <3>5. \A c \in v4..(end - 1) : v1[c] # Newline
      BY <1>1, <3>1
    <3>6. end \in v4..Wrap!TextEnd /\ next \in (v4 + 1)..Wrap!TextEnd /\ end <= m
      BY <1>1, <1>2, <3>1
    <3>7. \A c \in end..(next - 1) : v1[c] = Space
      BY <1>1, <3>1
    <3>8. Wrap!WordEnd(next) > m
      BY <1>2, <3>1, <3>4
    <3> HIDE DEF n, last, m, e
    <3>9. IsCut(v4, end, next, m)
      BY <3>5, <3>6, <3>7, <3>8 DEF IsCut
    <3> QED
      BY <2>1, <3>1, <3>9 DEF m, e, n
  <2> QED
    BY <2>2, <2>3
<1>8. CASE v1[pos] # Newline /\ ~(last + 1 > m /\ e # 0) /\ last + 1 = Wrap!TextEnd
  <2>1. r[1] = Wrap!TextEnd /\ r[2] = Wrap!TextEnd
    BY <1>8 DEF Found
  <2>2. \A c \in v4..(Wrap!TextEnd - 1) : v1[c] # Newline
    BY <1>1, <1>2, <1>3, <1>8
  <2>3. Wrap!TextEnd <= m \/ \A c \in v4..(Wrap!TextEnd - 1) : v1[c] # Space
    BY <1>1, <1>2, <1>3, <1>4, <1>8
  <2>4. IsCut(v4, Wrap!TextEnd, Wrap!TextEnd, m)
    BY <1>2, <2>2, <2>3 DEF IsCut
  <2> QED
    BY <2>1, <2>4
<1> QED
  BY <1>6, <1>7, <1>8 DEF Stops

\* Where it does not, it goes on with what it knows.
LEMMA ScanGoesOn ==
    ASSUME Space # Newline, Len(v1) \in Nat, v4 \in 1..Len(v1), v2 \in Nat, v6 \in Int,
           NEW pos, NEW end \in 0..Len(v1), NEW next \in 0..Wrap!TextEnd, Scanned(pos, end, next),
           ~Stops(pos, end)
    PROVE  Scanned(LastOf(pos) + 1, EndAfter(pos, end), NextAfter(pos, next))
<1> DEFINE last == LastOf(pos)
           e == EndAfter(pos, end)
           n == NextAfter(pos, next)
           m == MaxPos
<1>1. /\ pos \in v4..Len(v1)
      /\ \A c \in v4..(pos - 1) : v1[c] # Newline
      /\ end = 0 => \A c \in v4..(pos - 1) : v1[c] # Space
      /\ end # 0 =>
            /\ v4 <= end /\ end < next /\ next <= pos /\ pos <= m
            /\ \A c \in end..(next - 1) : v1[c] = Space
            /\ \A c \in next..(pos - 1) : v1[c] # Space
  BY DEF Scanned
<1>2. m \in Int /\ Wrap!TextEnd = Len(v1) + 1 /\ pos \in 1..Len(v1)
  BY <1>1 DEF MaxPos, Wrap!TextEnd
<1>3. /\ last \in pos..Len(v1)
      /\ v1[pos] = Space => \A i \in pos..last : v1[i] = Space
      /\ v1[pos] # Space => last = pos
  BY <1>2, LastIs
<1>4. /\ v1[pos] = Space => e = pos /\ n = last + 1
      /\ v1[pos] # Space => e = end /\ n = next
  BY DEF EndAfter, NextAfter
<1>5. v1[pos] # Newline /\ ~(last + 1 > m /\ e # 0) /\ last + 1 # Len(v1) + 1
  BY <1>2 DEF Stops
<1> HIDE DEF last, e, n, m
<1>6. last + 1 \in v4..Len(v1)
  BY <1>1, <1>3, <1>5
<1>7. \A c \in v4..((last + 1) - 1) : v1[c] # Newline
  BY <1>1, <1>3, <1>5
<1>8. e = 0 => \A c \in v4..((last + 1) - 1) : v1[c] # Space
  BY <1>1, <1>2, <1>3, <1>4
<1>9. e # 0 => /\ v4 <= e /\ e < n /\ n <= last + 1 /\ last + 1 <= m
               /\ \A c \in e..(n - 1) : v1[c] = Space
               /\ \A c \in n..((last + 1) - 1) : v1[c] # Space
  <2>1. CASE v1[pos] = Space
    BY <1>1, <1>2, <1>3, <1>4, <1>5, <2>1
  <2>2. CASE v1[pos] # Space
    BY <1>1, <1>2, <1>3, <1>4, <1>5, <2>2
  <2> QED
    BY <2>1, <2>2
<1> QED
  BY <1>6, <1>7, <1>8, <1>9 DEF Scanned, last, e, n, m

\* The loop comes to an end, so that the definition by recursion has a meaning.
LEMMA WrapIsCut ==
    ASSUME Space # Newline, Len(v1) \in Nat, v4 \in 1..Len(v1), v2 \in Nat, v6 \in Int, v1[v4] # Space
    PROVE  IsCut(v4, Wrap!Wrap[1], Wrap!Wrap[2], MaxPos)
<1> DEFINE S == Scans
           stop == {s \in S : Stops(s[1], s[2])}
           val == [s \in S |-> Found(s[1], s[2], s[3])]
           next == [s \in S |-> <<LastOf(s[1]) + 1, EndAfter(s[1], s[2]), NextAfter(s[1], s[3])>>]
           rank == [s \in S |-> Len(v1) - s[1]]
<1>1. ASSUME NEW s \in S
      PROVE  /\ s[1] \in 1..Len(v1) /\ s[2] \in 0..Len(v1) /\ s[3] \in 0..(Len(v1) + 1)
             /\ s = <<s[1], s[2], s[3]>>
  BY DEF Scans, Wrap!TextEnd
<1>2. ASSUME NEW s \in S, ~Stops(s[1], s[2])
      PROVE  next[s] \in S /\ next[s][1] > s[1]
  <2> DEFINE pos == s[1]
             last == LastOf(pos)
  <2>1. last \in pos..Len(v1) /\ pos \in 1..Len(v1)
    BY <1>1, LastIs
  <2>2. last + 1 # Len(v1) + 1
    BY <1>2 DEF Stops, Wrap!TextEnd
  <2>3. last + 1 \in 1..Len(v1) /\ last + 1 > pos
    BY <2>1, <2>2
  <2>4. EndAfter(pos, s[2]) \in 0..Len(v1)
    BY <1>1, <2>1 DEF EndAfter
  <2>5. NextAfter(pos, s[3]) \in 0..(Len(v1) + 1)
    BY <1>1, <2>3 DEF NextAfter
  <2>6. next[s] = <<last + 1, EndAfter(pos, s[2]), NextAfter(pos, s[3])>>
    OBVIOUS
  <2> HIDE DEF next, last, pos
  <2> QED
    BY <2>3, <2>4, <2>5, <2>6 DEF Scans, Wrap!TextEnd, pos
<1>3. TreeTheory!Descends(S, stop, next, rank, Len(v1))
  <2>1. \A s \in S : rank[s] \in 0..Len(v1)
    BY <1>1
  <2>2. ASSUME NEW s \in S, s \notin stop
        PROVE  next[s] \in S /\ rank[next[s]] < rank[s]
    <3>1. next[s] \in S /\ next[s][1] > s[1]
      BY <1>2, <2>2
    <3> HIDE DEF next, S
    <3>2. next[s][1] \in 1..Len(v1) /\ s[1] \in 1..Len(v1)
      BY <1>1, <3>1
    <3>3. rank[next[s]] = Len(v1) - next[s][1] /\ rank[s] = Len(v1) - s[1]
      BY <3>1
    <3> QED
      BY <3>1, <3>2, <3>3
  <2> HIDE DEF S, stop, next, rank
  <2> QED
    BY <2>1, <2>2 DEF TreeTheory!Descends
<1> DEFINE IsScan(f) == f = [s \in S |-> IF s \in stop THEN val[s] ELSE f[next[s]]]
<1>4. \E f : IsScan(f)
  <2> HIDE DEF S, stop, val, next, rank
  <2>1. \E f : TreeTheory!IsWalk(f, S, stop, val, next)
    BY <1>3, TreeTheory!WalkExists
  <2> QED
    BY <2>1 DEF TreeTheory!IsWalk
<1> DEFINE step(f, s) ==
             LET pos == s[1]
                 last == IF v1[pos] = Space THEN Wrap!EndOfRun(pos) ELSE pos
                 end == IF v1[pos] = Space THEN pos ELSE s[2]
                 nxt == IF v1[pos] = Space THEN last + 1 ELSE s[3]
             IN  IF v1[pos] = Newline THEN <<pos, pos + 1>>
                 ELSE IF last + 1 > v4 + v2 - v6 /\ end # 0 THEN <<end, nxt>>
                 ELSE IF last + 1 = Wrap!TextEnd THEN <<Wrap!TextEnd, Wrap!TextEnd>>
                 ELSE f[<<last + 1, end, nxt>>]
           scan == CHOOSE f : f = [s \in S |-> step(f, s)]
<1>5. ASSUME NEW f, NEW s \in S
      PROVE  step(f, s) = IF s \in stop THEN val[s] ELSE f[next[s]]
  BY DEF Stops, Found, LastOf, EndAfter, NextAfter, MaxPos
<1>6. Wrap!Wrap = scan[<<v4, 0, 0>>]
  BY DEF Wrap!Wrap, Scans
<1>7. scan = [s \in S |-> step(scan, s)]
  <2> HIDE DEF S, stop, val, next, step
  <2>1. PICK f : IsScan(f)
    BY <1>4
  <2>2. f = [s \in S |-> step(f, s)]
    BY <1>5, <2>1
  <2> QED
    BY <2>2
<1> HIDE DEF scan
<1>8. \A s \in S : scan[s] = IF s \in stop THEN val[s] ELSE scan[next[s]]
  <2> HIDE DEF S, stop, val, next, step
  <2>1. \A s \in S : scan[s] = step(scan, s)
    BY <1>7
  <2> QED
    BY <1>5, <2>1
<1> DEFINE Right(s) == Scanned(s[1], s[2], s[3]) => IsCut(v4, scan[s][1], scan[s][2], MaxPos)
           Fine == {s \in S : Right(s)}
<1>9. ASSUME NEW s \in S, s \in stop, Scanned(s[1], s[2], s[3])
      PROVE  IsCut(v4, scan[s][1], scan[s][2], MaxPos)
  <2>1. scan[s] = Found(s[1], s[2], s[3])
    BY <1>8, <1>9
  <2>2. s[2] \in 0..Len(v1) /\ s[3] \in 0..Wrap!TextEnd
    BY <1>1 DEF Wrap!TextEnd
  <2>3. Stops(s[1], s[2])
    BY <1>9
  <2> DEFINE a == s[1]
             b == s[2]
             c == s[3]
             r == Found(a, b, c)
  <2>4. IsCut(v4, r[1], r[2], MaxPos)
    <3> HIDE DEF a, b, c
    <3>1. b \in 0..Len(v1) /\ c \in 0..Wrap!TextEnd /\ Stops(a, b) /\ Scanned(a, b, c)
      BY <1>9, <2>2, <2>3 DEF a, b, c
    <3> QED
      BY <3>1, StopIsCut
  <2> QED
    BY <2>1, <2>4
<1>10. ASSUME NEW s \in S, s \notin stop, next[s] \in Fine, Scanned(s[1], s[2], s[3])
       PROVE  IsCut(v4, scan[s][1], scan[s][2], MaxPos)
  <2>1. scan[s] = scan[next[s]]
    BY <1>8, <1>10
  <2>2. s[2] \in 0..Len(v1) /\ s[3] \in 0..Wrap!TextEnd
    BY <1>1 DEF Wrap!TextEnd
  <2>3. ~Stops(s[1], s[2])
    BY <1>10
  <2>4. Scanned(LastOf(s[1]) + 1, EndAfter(s[1], s[2]), NextAfter(s[1], s[3]))
    BY <1>10, <2>2, <2>3, ScanGoesOn
  <2>5. next[s][1] = LastOf(s[1]) + 1 /\ next[s][2] = EndAfter(s[1], s[2]) /\ next[s][3] = NextAfter(s[1], s[3])
    OBVIOUS
  <2> HIDE DEF next
  <2>6. Scanned(next[s][1], next[s][2], next[s][3])
    BY <2>4, <2>5
  <2> QED
    BY <1>10, <2>1, <2>6
<1>11. TreeTheory!PassesOn(S, stop, next, Fine)
  <2> HIDE DEF S, stop, next
  <2> QED
    BY <1>9, <1>10 DEF TreeTheory!PassesOn
<1>12. \A s \in S : s \in Fine
  <2> HIDE DEF S, stop, next, rank, Fine
  <2> QED
    BY <1>3, <1>11, TreeTheory!WalkInduction
<1> DEFINE first == <<v4, 0, 0>>
<1>13. first \in S /\ first[1] = v4 /\ first[2] = 0 /\ first[3] = 0
  BY DEF Scans, Wrap!TextEnd
<1> HIDE DEF first, S
<1>14. Scanned(v4, 0, 0)
  BY DEF Scanned
<1>15. Right(first)
  BY <1>12, <1>13
<1>16. IsCut(v4, scan[first][1], scan[first][2], MaxPos)
  BY <1>13, <1>14, <1>15
<1> QED
  BY <1>6, <1>16 DEF first

\* A line that starts with a space ends at the first newline.
LEMMA VerbatimIsCut ==
    ASSUME Space # Newline, Len(v1) \in Nat, v4 \in 1..Len(v1), v1[v4] = Space, NEW m
    PROVE  IsCut(v4, Wrap!Verbatim[1], Wrap!Verbatim[2], m)
<1> DEFINE T == {i \in v4..Len(v1) : v1[i] = Newline}
<1>1. CASE T = {}
  <2>1. Wrap!Verbatim = <<Wrap!TextEnd, Wrap!TextEnd>>
    BY <1>1 DEF Wrap!Verbatim
  <2> QED
    BY <1>1, <2>1 DEF IsCut, Wrap!TextEnd
<1>2. CASE T # {}
  <2> DEFINE first == CHOOSE i \in T : \A j \in T : i <= j
  <2>1. Wrap!Verbatim = <<first, first + 1>>
    BY <1>2 DEF Wrap!Verbatim
  <2>2. T \in SUBSET Nat
    OBVIOUS
  <2>3. first \in T /\ \A j \in T : first <= j
    BY <1>2, <2>2, LeastNatural
  <2> HIDE DEF first
  <2>4. first \in v4..Len(v1) /\ v1[first] = Newline
    BY <2>3
  <2>5. \A c \in v4..(first - 1) : v1[c] # Newline
    BY <2>3
  <2>6. Wrap!Verbatim[1] = first /\ Wrap!Verbatim[2] = first + 1
    BY <2>1
  <2> QED
    BY <2>4, <2>5, <2>6 DEF IsCut, Wrap!TextEnd
<1> QED
  BY <1>1, <1>2

LEMMA LineIsCut ==
    ASSUME Space # Newline, Len(v1) \in Nat, v4 \in 1..Len(v1), v2 \in Nat, v6 \in Int
    PROVE  IsCut(v4, Wrap!LineAndNext[1], Wrap!LineAndNext[2], MaxPos)
<1>1. CASE v1[v4] = Space
  BY <1>1, VerbatimIsCut DEF Wrap!LineAndNext
<1>2. CASE v1[v4] # Space
  BY <1>2, WrapIsCut DEF Wrap!LineAndNext
<1> QED
  BY <1>1, <1>2

-----------------------------------------------------------------------------
\* The i-th line of output, which is not blank, is right: what LinesAreWrapped says of it.
LineIsRight(i) ==
    LET p == v7[i]
    IN  /\ p.column = Wrap!Column(i)
        /\ p.from = (IF i = 1 THEN 1 ELSE v7[i - 1].next)
        /\ IsCut(p.from, p.end, p.next, p.from + v2 - Wrap!Column(i))

ContIndent == IF v3.cont_indent < 0 THEN v3.indent ELSE v3.cont_indent

\* The place to go on at, and the column that the next line will start in
WrapInv ==
    /\ v1 \in Seq(Wrap!Range(v1)) /\ v2 \in Nat
    /\ v3 \in [topic_len : Nat, indent : Nat, cont_indent : Int]
    /\ v4 \in Nat
    /\ v7 \in Seq([column : Int, from : Int, end : Int, next : Int])
    /\ v4 = 0 => v7 = <<>>
    /\ v4 = 1 => /\ v6 = v3.indent /\ v7 \in {<<>>, <<Wrap!Blank>>}
                 /\ v5 = v6 \/ (v7 = <<>> /\ v3.topic_len + v5 = v6) \/ v1 = <<>>
    /\ v4 > 1 => /\ v5 = ContIndent /\ v6 = ContIndent
                 /\ v7 # <<>> /\ v7[Len(v7)].next = v4
    /\ \A i \in DOMAIN v7 : v7[i] = Wrap!Blank \/ LineIsRight(i)

LEMMA WrapStarts ==
    ASSUME Wrap!Init PROVE WrapInv
<1>1. /\ v1 \in Seq(Wrap!Range(v1)) /\ v2 \in Nat
      /\ v3 \in [topic_len : Nat, indent : Nat, cont_indent : Int]
  BY WrapAssumption DEF Wrap!Init, Wrap!WordWrapAssumption
<1>2. v4 = 0 /\ v7 = <<>>
  BY DEF Wrap!Init
<1> QED
  BY <1>1, <1>2 DEF WrapInv

LEMMA StartKeeps ==
    ASSUME WrapInv, Wrap!Start PROVE WrapInv'
<1> DEFINE Lines == [column : Int, from : Int, end : Int, next : Int]
           room == v3.indent - v3.topic_len
<1>1. /\ v1' = v1 /\ v2' = v2 /\ v3' = v3 /\ v4' = 1 /\ v6' = v3.indent
      /\ v5' = (IF v3.topic_len > 0 /\ room > 0 THEN room ELSE v3.indent)
      /\ v7' = (IF v1 = <<>> \/ (v3.topic_len > 0 /\ room < 1) THEN <<Wrap!Blank>> ELSE <<>>)
  BY DEF Wrap!Start
<1>2. /\ v1 \in Seq(Wrap!Range(v1)) /\ v2 \in Nat
      /\ v3 \in [topic_len : Nat, indent : Nat, cont_indent : Int]
  BY DEF WrapInv
<1>3. Wrap!Blank \in Lines
  BY DEF Wrap!Blank
<1>4. v7' \in Seq(Lines) /\ v7' \in {<<>>, <<Wrap!Blank>>}
  <2> HIDE DEF Lines
  <2>1. <<>> \in Seq(Lines) /\ <<Wrap!Blank>> \in Seq(Lines)
    BY <1>3
  <2> QED
    BY <1>1, <2>1
<1>5. \A i \in DOMAIN v7' : v7'[i] = Wrap!Blank
  BY <1>1
<1>6. v1' \in Seq(Wrap!Range(v1)')
  <2>1. Wrap!Range(v1)' = Wrap!Range(v1)
    BY <1>1 DEF Wrap!Range
  <2> QED
    BY <1>1, <1>2, <2>1
<1>7. v3.topic_len \in Nat /\ v3.indent \in Nat
  BY <1>2
<1>8. v5' = v6' \/ (v7' = <<>> /\ v3'.topic_len + v5' = v6') \/ v1 = <<>>
  BY <1>1, <1>7
<1> QED
  BY <1>1, <1>2, <1>4, <1>5, <1>6, <1>8 DEF WrapInv

\* A cut does not depend on anything but the text.
LEMMA CutStays ==
    ASSUME v1' = v1, NEW CONSTANT a, NEW CONSTANT b, NEW CONSTANT c, NEW CONSTANT m, IsCut(a, b, c, m)
    PROVE  IsCut(a, b, c, m)'
<1>1. Wrap!TextEnd' = Wrap!TextEnd
  BY DEF Wrap!TextEnd
<1>2. Wrap!WordEnd(c)' = Wrap!WordEnd(c)
  BY <1>1 DEF Wrap!WordEnd
<1> QED
  BY <1>1, <1>2 DEF IsCut

LEMMA LineStays ==
    ASSUME v1' = v1, v2' = v2, v3' = v3, NEW CONSTANT i, LineIsRight(i),
           v7'[i] = v7[i], i # 1 => v7'[i - 1] = v7[i - 1]
    PROVE  LineIsRight(i)'
<1>1. PICK p, col, before : p = v7[i] /\ col = Wrap!Column(i) /\ before = v7[i - 1]
  OBVIOUS
<1>2. p = v7'[i] /\ (i # 1 => before = v7'[i - 1])
  BY <1>1
<1>3. col = Wrap!Column(i)'
  BY <1>1 DEF Wrap!Column
<1>4. /\ p.column = col /\ p.from = (IF i = 1 THEN 1 ELSE before.next)
      /\ IsCut(p.from, p.end, p.next, p.from + v2 - col)
  BY <1>1 DEF LineIsRight
<1>5. PICK m : m = p.from + v2 - col
  OBVIOUS
<1>6. IsCut(p.from, p.end, p.next, m)'
  BY <1>4, <1>5, CutStays
<1> QED
  BY <1>2, <1>3, <1>4, <1>5, <1>6 DEF LineIsRight

LEMMA PrintLineKeeps ==
    ASSUME WrapInv, Wrap!PrintLine PROVE WrapInv'
<1> DEFINE Lines == [column : Int, from : Int, end : Int, next : Int]
           end == Wrap!LineAndNext[1]
           next == Wrap!LineAndNext[2]
           topic == IF v4 = 1 /\ v7 = <<>> /\ v5 # v6 THEN v3.topic_len ELSE 0
           column == topic + v5
           new == [column |-> column, from |-> v4, end |-> end, next |-> next]
<1>0. PICK n : n = Len(v7)
  OBVIOUS
<1>1. /\ v4 > 0 /\ v4 < Wrap!TextEnd
      /\ v7' = Append(v7, new)
      /\ v4' = next /\ v5' = ContIndent /\ v6' = ContIndent
      /\ v1' = v1 /\ v2' = v2 /\ v3' = v3
  BY DEF Wrap!PrintLine, ContIndent
<1>2. /\ v1 \in Seq(Wrap!Range(v1)) /\ v2 \in Nat
      /\ v3 \in [topic_len : Nat, indent : Nat, cont_indent : Int]
      /\ v4 \in Nat /\ v7 \in Seq(Lines)
  BY DEF WrapInv
<1>3. /\ v4 = 1 => /\ v6 = v3.indent /\ v7 \in {<<>>, <<Wrap!Blank>>}
                   /\ v5 = v6 \/ (v7 = <<>> /\ v3.topic_len + v5 = v6) \/ v1 = <<>>
      /\ v4 > 1 => /\ v5 = ContIndent /\ v6 = ContIndent
                   /\ v7 # <<>> /\ v7[Len(v7)].next = v4
      /\ \A i \in DOMAIN v7 : v7[i] = Wrap!Blank \/ LineIsRight(i)
  BY DEF WrapInv
<1>4. Len(v1) \in Nat /\ Wrap!TextEnd = Len(v1) + 1 /\ v4 \in 1..Len(v1)
  BY <1>1, <1>2, LenProperties DEF Wrap!TextEnd
<1>5. ContIndent \in Int /\ v3.indent \in Int /\ v3.topic_len \in Int
  BY <1>2 DEF ContIndent
<1>6. v6 \in Int /\ (v5 = v6 \/ (v4 = 1 /\ v7 = <<>> /\ v3.topic_len + v5 = v6) \/ v1 = <<>>)
  BY <1>1, <1>2, <1>3, <1>5
<1>7. v1 # <<>>
  BY <1>4
<1>8. column = v6
  BY <1>3, <1>5, <1>6, <1>7
<1>9. v6 = (IF v4 = 1 \/ v3.cont_indent < 0 THEN v3.indent ELSE v3.cont_indent)
  BY <1>1, <1>2, <1>3 DEF ContIndent
<1>10. IsCut(v4, end, next, v4 + v2 - v6)
  <2>1. Space # Newline
    BY WrapAssumption DEF Wrap!WordWrapAssumption
  <2> QED
    BY <1>2, <1>4, <1>6, <2>1, LineIsCut DEF MaxPos
<1>11. end \in Int /\ next \in Nat /\ next > 1
  <2> HIDE DEF end, next
  <2>1. end \in v4..Wrap!TextEnd /\ next \in (v4 + 1)..Wrap!TextEnd
    BY <1>10 DEF IsCut
  <2> QED
    BY <1>2, <1>4, <2>1
<1> HIDE DEF end, next, column, topic
<1>12. new \in Lines /\ new.column = v6 /\ new.from = v4 /\ new.end = end /\ new.next = next
  BY <1>2, <1>6, <1>8, <1>11
<1> HIDE DEF Lines, new
<1>13. n \in Nat /\ DOMAIN v7 = 1..n
  BY <1>0, <1>2, LenProperties
<1>14. /\ v7' \in Seq(Lines) /\ Len(v7') = n + 1 /\ DOMAIN v7' = 1..(n + 1)
       /\ \A i \in 1..n : v7'[i] = v7[i]
       /\ v7'[n + 1] = new
  BY <1>0, <1>1, <1>2, <1>12, AppendProperties, LenProperties
<1>15. ASSUME NEW i \in 1..n, LineIsRight(i)
       PROVE  LineIsRight(i)'
  <2>1. v7'[i] = v7[i] /\ (i # 1 => v7'[i - 1] = v7[i - 1])
    BY <1>13, <1>14
  <2> QED
    BY <1>1, <1>15, <2>1, LineStays
<1>16. LineIsRight(n + 1)'
  <2>1. v7'[n + 1] = new
    BY <1>14
  <2>2. v6 = Wrap!Column(n + 1)'
    BY <1>1, <1>9, <1>12, <2>1 DEF Wrap!Column
  <2>3. v4 = IF n + 1 = 1 THEN 1 ELSE v7'[(n + 1) - 1].next
    <3>1. CASE v4 = 1
      <4>1. CASE v7 = <<>>
        <5>1. n = 0
          BY <1>0, <4>1
        <5> QED
          BY <3>1, <5>1
      <4>2. CASE v7 = <<Wrap!Blank>>
        <5>1. n = 1 /\ v7[1] = Wrap!Blank
          BY <1>0, <4>2
        <5>2. v7'[1].next = 1
          BY <1>14, <5>1 DEF Wrap!Blank
        <5> QED
          BY <3>1, <5>1, <5>2
      <4> QED
        BY <1>3, <3>1, <4>1, <4>2
    <3>2. CASE v4 > 1
      <4>1. n # 0 /\ v7[n].next = v4
        BY <1>0, <1>2, <1>3, <3>2, EmptySeq
      <4>2. n \in 1..n /\ (n + 1) - 1 = n /\ n + 1 # 1
        BY <1>13, <4>1
      <4> QED
        BY <1>14, <4>1, <4>2
    <3>3. v4 = 1 \/ v4 > 1
      BY <1>4
    <3> QED
      BY <3>1, <3>2, <3>3
  <2>4. PICK p, m : p = new /\ m = v4 + v2 - v6
    OBVIOUS
  <2>5. IsCut(p.from, p.end, p.next, m)
    BY <1>10, <1>12, <2>4
  <2>6. IsCut(p.from, p.end, p.next, m)'
    BY <1>1, <2>5, CutStays
  <2>7. p = v7'[n + 1] /\ p.column = v6 /\ p.from = v4 /\ m = v4 + v2' - v6
    BY <1>1, <1>12, <2>1, <2>4
  <2> QED
    BY <2>2, <2>3, <2>6, <2>7 DEF LineIsRight
<1>17. ASSUME NEW i \in DOMAIN v7'
       PROVE  v7'[i] = Wrap!Blank \/ LineIsRight(i)'
  <2>1. CASE i \in 1..n
    BY <1>3, <1>13, <1>14, <1>15, <2>1
  <2>2. CASE i = n + 1
    BY <1>16, <2>2
  <2> QED
    BY <1>13, <1>14, <2>1, <2>2
<1>18. v1' \in Seq(Wrap!Range(v1)')
  <2>1. Wrap!Range(v1)' = Wrap!Range(v1)
    BY <1>1 DEF Wrap!Range
  <2> QED
    BY <1>1, <1>2, <2>1
<1>19. v4' > 1 /\ v4' \in Nat /\ v7' # <<>> /\ v7'[Len(v7')].next = v4'
  <2>1. v7'[n + 1].next = next
    BY <1>12, <1>14
  <2>2. v7' # <<>>
    BY <1>13, <1>14
  <2> QED
    BY <1>1, <1>11, <1>14, <2>1, <2>2
<1>20. v7' \in Seq([column : Int, from : Int, end : Int, next : Int])
  BY <1>14 DEF Lines
<1>21. ContIndent' = ContIndent
  BY <1>1 DEF ContIndent
<1>22. /\ v2' \in Nat /\ v3' \in [topic_len : Nat, indent : Nat, cont_indent : Int]
       /\ v5' = ContIndent' /\ v6' = ContIndent'
  BY <1>1, <1>2, <1>21
<1>23. v4' # 0 /\ v4' # 1
  BY <1>19
<1> QED
  BY ONLY <1>17, <1>18, <1>19, <1>20, <1>22, <1>23 DEF WrapInv

LEMMA WrapStays ==
    ASSUME WrapInv, UNCHANGED <<v1, v2, v3, v4, v5, v6, v7>> PROVE WrapInv'
<1>1. /\ v1' = v1 /\ v2' = v2 /\ v3' = v3 /\ v4' = v4 /\ v5' = v5 /\ v6' = v6 /\ v7' = v7
  OBVIOUS
<1>2. \A i : LineIsRight(i) => LineIsRight(i)'
  BY <1>1, LineStays
<1>3. Wrap!Range(v1)' = Wrap!Range(v1) /\ ContIndent' = ContIndent
  BY <1>1 DEF Wrap!Range, ContIndent
<1> HIDE DEF LineIsRight, ContIndent
<1> QED
  BY <1>1, <1>2, <1>3 DEF WrapInv

\* What LinesAreWrapped says follows.
LEMMA WrapPromises ==
    ASSUME WrapInv PROVE Wrap!LinesAreWrapped
<1> SUFFICES ASSUME NEW i \in DOMAIN v7, v7[i] # Wrap!Blank
             PROVE  LET p == v7[i]
                        margin == p.from + v2 - Wrap!Column(i)
                    IN  /\ p.column = Wrap!Column(i)
                        /\ p.from = (IF i = 1 THEN 1 ELSE v7[i - 1].next)
                        /\ p.from < p.next
                        /\ \A c \in Wrap!Chars(i) : v1[c] # Newline
                        /\ \/ p.end = p.next /\ p.next = Wrap!TextEnd
                           \/ p.next = p.end + 1 /\ v1[p.end] = Newline
                           \/ /\ v1[p.from] # Space
                              /\ \A c \in p.end..(p.next - 1) : v1[c] = Space
                              /\ Wrap!WordEnd(p.next) > margin
                        /\ v1[p.from] # Space =>
                              p.end <= margin \/ \A c \in Wrap!Chars(i) : v1[c] # Space
  BY DEF Wrap!LinesAreWrapped
<1> DEFINE p == v7[i]
<1>1. LineIsRight(i)
  BY DEF WrapInv
<1>2. /\ p.column = Wrap!Column(i)
      /\ p.from = (IF i = 1 THEN 1 ELSE v7[i - 1].next)
      /\ IsCut(p.from, p.end, p.next, p.from + v2 - Wrap!Column(i))
  BY <1>1 DEF LineIsRight
<1>3. p.from \in Int /\ p.next \in Int /\ p.end \in Int
  <2> DEFINE Lines == [column : Int, from : Int, end : Int, next : Int]
  <2>1. v7 \in Seq(Lines)
    BY DEF WrapInv
  <2> HIDE DEF Lines
  <2>2. p \in Lines
    BY <2>1, ElementOfSeq, LenProperties
  <2> QED
    BY <2>2 DEF Lines
<1>4. p.from < p.next
  <2> HIDE DEF p
  <2>1. p.next \in (p.from + 1)..Wrap!TextEnd
    BY <1>2 DEF IsCut
  <2> QED
    BY <1>3, <2>1
<1> QED
  BY <1>2, <1>4 DEF IsCut, Wrap!Chars

-----------------------------------------------------------------------------
(* LinesAreWrapped for texts, widths and indentations of every kind: the   *)
(* lines take over the text from one end to the other but for the spaces   *)
(* and newlines at the breaks, each starts in its column, and a line that  *)
(* is wrapped is as full as it can be.                                     *)
THEOREM HelpIsWrapped == MCSpec => []LinesAreWrapped
<1> DEFINE Inv == component = "wrap" => WrapInv
<1>1. MCInit => Inv
  BY WrapStarts DEF MCInit
<1>2. Inv /\ [MCNext]_vars => Inv'
  <2> SUFFICES ASSUME Inv, [MCNext]_vars, component' = "wrap"
               PROVE  WrapInv'
    OBVIOUS
  <2>1. CASE UNCHANGED vars
    BY <2>1, WrapStays DEF vars
  <2>2. CASE MCNext
    <3>1. component = "wrap" /\ WrapInv /\ Wrap!Next
      BY <2>2 DEF MCNext
    <3> QED
      BY <3>1, StartKeeps, PrintLineKeeps DEF Wrap!Next
  <2> QED
    BY <2>1, <2>2
<1>3. Inv => LinesAreWrapped
  BY WrapPromises DEF LinesAreWrapped
<1> QED
  BY <1>1, <1>2, <1>3, PTL DEF MCSpec

-----------------------------------------------------------------------------
(* Pathnames                                                               *)

PathTheory == INSTANCE PathnameProofs WITH
    Strings <- PathStrings, Objects <- Pathnames,
    paths <- v1, shared <- v2, text <- v3

\* Path and PathTheory have the same definitions.
LEMMA SamePaths ==
    /\ \A p : Path!GoUpOneLevel(p) = PathTheory!GoUpOneLevel(p)
    /\ \A p, n : Path!GoUp(p, n) = PathTheory!GoUp(p, n)
    /\ \A p, r : Path!JoinPath(p, r) = PathTheory!JoinPath(p, r)
    /\ \A p, r : Path!Relatable(p, r) = PathTheory!Relatable(p, r)
    /\ \A p, r : Path!RelativeTo(p, r) = PathTheory!RelativeTo(p, r)
    /\ \A n : Path!DoubleDots(n) = PathTheory!DoubleDots(n)
    /\ \A p : Path!Names(p) = PathTheory!Names(p)
<1>1. \A p : Path!GoUpOneLevel(p) = PathTheory!GoUpOneLevel(p)
  BY DEF Path!GoUpOneLevel, PathTheory!GoUpOneLevel, Path!Front, PathTheory!Front,
         Path!Absolute, PathTheory!Absolute, Path!Wrapped, PathTheory!Wrapped
<1>2. \A p, n : Path!GoUp(p, n) = PathTheory!GoUp(p, n)
  BY DEF Path!GoUp, PathTheory!GoUp, Path!IsAbsolute, PathTheory!IsAbsolute,
         Path!Absolute, PathTheory!Absolute, Path!Wrapped, PathTheory!Wrapped
<1>3. \A p, r : Path!JoinPath(p, r) = PathTheory!JoinPath(p, r)
  BY DEF Path!JoinPath, PathTheory!JoinPath, Path!IsAbsolute, PathTheory!IsAbsolute,
         Path!Absolute, PathTheory!Absolute, Path!Wrapped, PathTheory!Wrapped,
         Path!Overwritten, PathTheory!Overwritten
<1>4. \A p, r : Path!Relatable(p, r) = PathTheory!Relatable(p, r)
  BY DEF Path!Relatable, PathTheory!Relatable, Path!IsAbsolute, PathTheory!IsAbsolute,
         Path!Absolute, PathTheory!Absolute
<1>5. \A p, r : Path!RelativeTo(p, r) = PathTheory!RelativeTo(p, r)
  BY DEF Path!RelativeTo, PathTheory!RelativeTo, Path!Wrapped, PathTheory!Wrapped,
         Path!Equal, PathTheory!Equal
<1>6. \A n : Path!DoubleDots(n) = PathTheory!DoubleDots(n)
  BY DEF Path!DoubleDots, PathTheory!DoubleDots, Path!DoubleDot, PathTheory!DoubleDot
<1>7. \A p : Path!Names(p) = PathTheory!Names(p)
  BY DEF Path!Names, PathTheory!Names
<1> QED
  BY <1>1, <1>2, <1>3, <1>4, <1>5, <1>6, <1>7

LEMMA SameStrings ==
    /\ \A s : Path!Split(s) = PathTheory!Split(s)
    /\ \A s : Path!HasNames(s) = PathTheory!HasNames(s)
    /\ \A p, s : Path!JoinString(p, s) = PathTheory!JoinString(p, s)
<1>1. \A s : Path!Split(s) = PathTheory!Split(s)
  BY DEF Path!Split, PathTheory!Split, Path!IsEnd, PathTheory!IsEnd,
         Path!Root, PathTheory!Root, Path!StartOf, PathTheory!StartOf
<1>2. \A s : Path!HasNames(s) = PathTheory!HasNames(s)
  BY <1>1 DEF Path!HasNames, PathTheory!HasNames, Path!Root, PathTheory!Root,
         Path!DoubleDot, PathTheory!DoubleDot
<1>3. \A q, s, i : Path!AppendComponent(q, s, i) = PathTheory!AppendComponent(q, s, i)
  BY DEF Path!AppendComponent, PathTheory!AppendComponent
<1>4. \A q, s, i : Path!Read(q, s, i) = PathTheory!Read(q, s, i)
  BY <1>3, SamePaths DEF Path!Read, PathTheory!Read, Path!Begin, PathTheory!Begin,
         Path!BeginDot, PathTheory!BeginDot, Path!Absolute, PathTheory!Absolute
<1>5. \A q, s : Path!Finish(q, s) = PathTheory!Finish(q, s)
  BY <1>3, SamePaths DEF Path!Finish, PathTheory!Finish
<1>6. \A p : Path!Parser(p) = PathTheory!Parser(p)
  BY DEF Path!Parser, PathTheory!Parser
<1>7. \A p, s : Path!JoinString(p, s) = PathTheory!JoinString(p, s)
  BY <1>4, <1>5, <1>6 DEF Path!JoinString, PathTheory!JoinString
<1> QED
  BY <1>1, <1>2, <1>7

\* A step of the pathnames is one that PathnameProofs is about.
LEMMA PathStep == ASSUME Path!Next PROVE PathTheory!Next
<1>1. \A o, p, t, b : Path!Update(o, p, t, b) = PathTheory!Update(o, p, t, b)
  BY DEF Path!Update, PathTheory!Update, Path!Absolute, PathTheory!Absolute,
         Path!Isolated, PathTheory!Isolated
<1>2. \A o, r, p, t : Path!ShareWith(o, r, p, t) = PathTheory!ShareWith(o, r, p, t)
  BY DEF Path!ShareWith, PathTheory!ShareWith, Path!Absolute, PathTheory!Absolute,
         Path!Isolated, PathTheory!Isolated
<1>3. \A o, s : Path!AssignString(o, s) => PathTheory!AssignString(o, s)
  BY <1>1, SameStrings DEF Path!AssignString, PathTheory!AssignString
<1>4. \A o, s : Path!JoinWithString(o, s) => PathTheory!JoinWithString(o, s)
  BY <1>1, SameStrings DEF Path!JoinWithString, PathTheory!JoinWithString
<1>5. \A o, r : Path!AssignPath(o, r) => PathTheory!AssignPath(o, r)
  BY <1>2 DEF Path!AssignPath, PathTheory!AssignPath
<1>6. \A o, r : Path!JoinWithPath(o, r) => PathTheory!JoinWithPath(o, r)
  BY <1>1, <1>2, SamePaths DEF Path!JoinWithPath, PathTheory!JoinWithPath,
         Path!IsAbsolute, PathTheory!IsAbsolute, Path!Absolute, PathTheory!Absolute
<1>7. \A o : Path!GoOneUp(o) => PathTheory!GoOneUp(o)
  BY <1>1, SamePaths DEF Path!GoOneUp, PathTheory!GoOneUp, Path!DoubleDot, PathTheory!DoubleDot
<1>8. \A o, n : Path!GoLevelsUp(o, n) => PathTheory!GoLevelsUp(o, n)
  BY <1>1, SamePaths DEF Path!GoLevelsUp, PathTheory!GoLevelsUp
<1>9. \A o, r, base : Path!MakeRelative(o, r, base) => PathTheory!MakeRelative(o, r, base)
  BY <1>1, <1>2, SamePaths DEF Path!MakeRelative, PathTheory!MakeRelative
<1> QED
  BY <1>3, <1>4, <1>5, <1>6, <1>7, <1>8, <1>9 DEF Path!Next, PathTheory!Next

LEMMA PathIsRight == MCSpec => [](component = "path" => PathTheory!PathInv)
<1> DEFINE Inv == component = "path" => PathTheory!PathInv
<1>1. PathTheory!PathnameAssumption
  BY PathAssumption DEF Path!PathnameAssumption, PathTheory!PathnameAssumption,
         Path!Range, PathTheory!Range
<1>2. MCInit => Inv
  <2>1. Path!Init => PathTheory!Init
    BY DEF Path!Init, PathTheory!Init, Path!Empty, PathTheory!Empty
  <2> QED
    BY <1>1, <2>1, PathTheory!PathStarts DEF MCInit
<1>3. Inv /\ [MCNext]_vars => Inv'
  <2> SUFFICES ASSUME Inv, [MCNext]_vars, component' = "path"
               PROVE  PathTheory!PathInv'
    OBVIOUS
  <2>1. CASE UNCHANGED vars
    BY <1>1, <2>1, PathTheory!PathStays DEF vars
  <2>2. CASE MCNext
    <3>1. component = "path" /\ PathTheory!PathInv /\ Path!Next
      BY <2>2 DEF MCNext, PathNext
    <3> QED
      BY <1>1, <3>1, PathStep, PathTheory!PathKeeps
  <2> QED
    BY <2>1, <2>2
<1> QED
  BY <1>2, <1>3, PTL DEF MCSpec

LEMMA PathsPromise ==
    ASSUME component = "path" => PathTheory!PathInv
    PROVE  PathMeansText /\ RelativeToIsUndone /\ NormalForm
<1> SUFFICES ASSUME component = "path"
             PROVE  Path!PathMeansText /\ Path!RelativeToIsUndone /\ Path!NormalForm
  BY DEF PathMeansText, RelativeToIsUndone, NormalForm
<1>1. PathTheory!PathMeansText /\ PathTheory!RelativeToIsUndone /\ PathTheory!NormalForm
  <2>1. PathTheory!PathnameAssumption
    BY PathAssumption DEF Path!PathnameAssumption, PathTheory!PathnameAssumption,
           Path!Range, PathTheory!Range
  <2> QED
    BY <2>1, PathTheory!PathPromises
<1>2. Path!PathMeansText
  BY <1>1 DEF Path!PathMeansText, PathTheory!PathMeansText, Path!Directories,
         PathTheory!Directories, Path!Denotes, PathTheory!Denotes, Path!Walk,
         PathTheory!Walk, Path!Step, PathTheory!Step, Path!Root, PathTheory!Root,
         Path!DoubleDot, PathTheory!DoubleDot, Path!Front, PathTheory!Front,
         Path!IsAbsolute, PathTheory!IsAbsolute, Path!Absolute, PathTheory!Absolute,
         Path!Names, PathTheory!Names
<1>3. Path!RelativeToIsUndone
  BY <1>1, SamePaths DEF Path!RelativeToIsUndone, PathTheory!RelativeToIsUndone
<1>4. Path!NormalForm
  <2>1. \A ps : Path!Joined(ps) = PathTheory!Joined(ps)
    BY DEF Path!Joined, PathTheory!Joined
  <2>2. \A p : Path!Str(p) = PathTheory!Str(p)
    BY <2>1, SamePaths DEF Path!Str, PathTheory!Str, Path!IsAbsolute, PathTheory!IsAbsolute,
           Path!Absolute, PathTheory!Absolute
  <2>3. \A name : Path!BaseLength(name) = PathTheory!BaseLength(name)
    BY DEF Path!BaseLength, PathTheory!BaseLength
  <2>4. \A s : Path!Range(s) = PathTheory!Range(s)
    BY DEF Path!Range, PathTheory!Range
  <2>5. Path!Empty = PathTheory!Empty /\ Path!DoubleDot = PathTheory!DoubleDot
    BY DEF Path!Empty, PathTheory!Empty, Path!DoubleDot, PathTheory!DoubleDot
  <2> QED
    BY <1>1, <2>2, <2>3, <2>4, <2>5, SameStrings DEF Path!NormalForm, PathTheory!NormalForm
<1> QED
  BY <1>2, <1>3, <1>4

(* PathMeansText for strings of every kind and any number of pathnames:    *)
(* assigned, joined, gone up from or made relative, an object leads from   *)
(* any directory to where the components it was made from lead.            *)
THEOREM PathsMeanTheirText == MCSpec => []PathMeansText
BY PathIsRight, PathsPromise, PTL

(* RelativeToIsUndone: of all pathnames a program can make, one that is    *)
(* made relative to another and joined to that other is the first again.   *)
THEOREM RelativePathsAreUndone == MCSpec => []RelativeToIsUndone
BY PathIsRight, PathsPromise, PTL

(* NormalForm: a program cannot make a pathname with an empty, "." or ".." *)
(* component, or with a suffix elsewhere than at the last dot, and what    *)
(* str() returns is parsed back to the same levels and components.         *)
THEOREM PathsAreNormal == MCSpec => []NormalForm
BY PathIsRight, PathsPromise, PTL
=============================================================================
