----------------------------- MODULE Algorithms -----------------------------
(***************************************************************************)
(* Functions of fn.h, fn.cc and levenshtein_distance.h, one call per step: *)
(* the distance of two strings, computed in a row that the object keeps    *)
(* between calls; find_lower_bound(); compare_versions(); and the base64url *)
(* functions that return a string.                                         *)
(*                                                                         *)
(* Strings are sequences; a string that ends with a NUL is one without it. *)
(* The characters of encoded data are the values that they stand for.      *)
(***************************************************************************)
EXTENDS Integers, Sequences, FiniteSets, Functions, SequencesExt

CONSTANTS
    Strings,        \* what distances are computed of
    Ordered,        \* sequences that find_lower_bound() is called for
    Versions,       \* what is compared, as sequences of digits and Period
    Period,
    Data,           \* sequences of bytes
    Encoded,        \* sequences of values below 64, and Invalid
    Invalid         \* 0200 in the table of the decoder

VARIABLES
    row,            \* of the levenshtein_distance object
    called,         \* the latest call
    args, returned  \* its arguments and what it returned
vars == <<row, called, args, returned>>

Init ==
    /\ row = <<>>
    /\ called = "none" /\ args = <<>> /\ returned = 0

Call(name, arguments, result) ==
    called' = name /\ args' = arguments /\ returned' = result

Least(a, b) == IF a < b THEN a ELSE b

-----------------------------------------------------------------------------
(* levenshtein_distance                                                    *)

\* Mutant of Boundary: only the elements that are new are set.
BoundaryOfNew(old, length) ==
    old \o [j \in 1..(length + 1 - Least(Len(old), length + 1)) |-> Len(old) + j - 1]

\* The row before the first character, in a buffer that is never made shorter.
Boundary(old, length) ==
    [j \in 1..(IF Len(old) <= length THEN length + 1 ELSE Len(old)) |->
        IF j <= length + 1 THEN j - 1 ELSE old[j]]

\* The row after one more character of the longer string, from the row before.
NextRow(upper, char, shorter) ==
    LET element[j \in 0..Len(shorter)] ==
            IF j = 0 THEN upper[1] + 1
            ELSE Least(Least(element[j - 1], upper[j + 1]) + 1,
                       upper[j] + (IF char = shorter[j] THEN 0 ELSE 1))
    IN  [j \in DOMAIN upper |->
            IF j <= Len(shorter) + 1 THEN element[j - 1] ELSE upper[j]]

Distance(string1, string2) ==
    LET longer == IF Len(string1) < Len(string2) THEN string2 ELSE string1
        shorter == IF Len(string1) < Len(string2) THEN string1 ELSE string2
    IN  /\ row' = FoldLeft(LAMBDA upper, char : NextRow(upper, char, shorter),
                           Boundary(row, Len(shorter)), longer)
        /\ Call("distance", <<string1, string2>>, row'[Len(shorter) + 1])

-----------------------------------------------------------------------------
(* find_lower_bound() and compare_versions()                               *)

\* The loop; first counts from 0.
LowerBound(seq, value) ==
    LET search[first \in 0..Len(seq), count \in 0..Len(seq)] ==
            LET half == count \div 2
            IN  IF count = 0 THEN first
                ELSE IF seq[first + half + 1] < value
                THEN search[first + half + 1, IF count % 2 = 1 THEN half ELSE half - 1]
                ELSE search[first, half]
    IN  search[0, Len(seq)]

FindLowerBound(seq, value) ==
    /\ Call("lower bound", <<seq, value>>, LowerBound(seq, value))
    /\ UNCHANGED row

\* The character codes that the code subtracts: the end, then '.', then digits.
Code(version, n) ==
    IF n > Len(version) THEN 0 ELSE IF version[n] = Period THEN 46 ELSE 48 + version[n]

EndsAt(version, n) == Code(version, n) \in {0, 46}

\* The end of a number that starts, or goes on, at n.
EndOfNumber(version, n) ==
    CHOOSE e \in n..(Len(version) + 1) :
        EndsAt(version, e) /\ \A m \in n..(e - 1) : ~EndsAt(version, m)

CompareVersions(version1, version2) ==
    LET same == {n \in 0..Least(Len(version1), Len(version2)) :
                    \A m \in 1..n : version1[m] = version2[m]}
        differ == 1 + CHOOSE n \in same : \A m \in same : m <= n
        left1 == EndOfNumber(version1, differ) - differ
        left2 == EndOfNumber(version2, differ) - differ
    IN  CASE left1 > left2 -> 1
          [] left1 = left2 -> Code(version1, differ) - Code(version2, differ)
          [] left1 < left2 -> -1

Compare(version1, version2) ==
    /\ Call("versions", <<version1, version2>>, CompareVersions(version1, version2))
    /\ UNCHANGED row

-----------------------------------------------------------------------------
(* base64url                                                               *)

EncodedSize(size) == (4 * size + 2) \div 3
DecodedSize(size) == (size * 3) \div 4

\* base64url_encode() and base64url_decode() first ask for the size, of a call with
\* no buffer, which asserts that there is one when the size is zero: what has an
\* empty result is no input of these functions.

\* Byte n of the data, counted from 0; none has no bits.
ByteAt(data, n) == IF n < Len(data) THEN data[n + 1] ELSE 0

\* Character n of the result, the n % 4 th of a group.
EncodedChar(data, n) ==
    LET byte(m) == ByteAt(data, (n \div 4) * 3 + m)
    IN  CASE n % 4 = 0 -> byte(0) \div 4
          [] n % 4 = 1 -> (byte(0) % 4) * 16 + (byte(1) \div 16)
          [] n % 4 = 2 -> (byte(1) % 16) * 4 + (byte(2) \div 64)
          [] n % 4 = 3 -> byte(2) % 64

EncodedData(data) == [n \in 1..EncodedSize(Len(data)) |-> EncodedChar(data, n - 1)]

DecodedByte(text, n) ==
    LET char(m) == text[(n \div 3) * 4 + m + 1]
    IN  CASE n % 3 = 0 -> (char(0) * 4 + (char(1) \div 16)) % 256
          [] n % 3 = 1 -> (char(1) * 16 + (char(2) \div 4)) % 256
          [] n % 3 = 2 -> (char(2) * 64 + char(3)) % 256

IsDecodable(text) == Invalid \notin Range(text) /\ Len(text) % 4 # 1

DecodedData(text) == [n \in 1..DecodedSize(Len(text)) |-> DecodedByte(text, n - 1)]

Encode(data) ==
    /\ EncodedSize(Len(data)) > 0
    /\ Call("encode", <<data>>, EncodedData(data))
    /\ UNCHANGED row

\* A single character that is left over, and gives no byte, is refused.
Decode(text) ==
    /\ DecodedSize(Len(text)) > 0
    /\ \/ IsDecodable(text) /\ Call("decode", <<text>>, DecodedData(text))
       \/ ~IsDecodable(text) /\ Call("invalid", <<text>>, <<>>)
    /\ UNCHANGED row

PureCall ==
    \/ \E seq \in Ordered, value \in 0..6 : FindLowerBound(seq, value)
    \/ \E v1, v2 \in Versions : Compare(v1, v2)
    \/ \E data \in Data : Encode(data)
    \/ \E text \in Encoded : Decode(text)

Next ==
    \/ \E s, t \in Strings : Distance(s, t)
    \/ PureCall

Spec == Init /\ [][Next]_vars

-----------------------------------------------------------------------------
(* Properties                                                              *)

\* The least number of insertions, deletions and changes, by its definition.
Edits(a, b) ==
    LET edits[n \in 0..Len(a), m \in 0..Len(b)] ==
            IF n = 0 THEN m ELSE IF m = 0 THEN n
            ELSE Least(Least(edits[n - 1, m], edits[n, m - 1]) + 1,
                       edits[n - 1, m - 1] + (IF a[n] = b[m] THEN 0 ELSE 1))
    IN  edits[Len(a), Len(b)]

\* The numbers of a version.
Numbers(version) ==
    LET number[n \in 0..Len(version)] ==
            IF n = 0 THEN <<0>>
            ELSE IF version[n] = Period THEN Append(number[n - 1], 0)
            ELSE Append(Front(number[n - 1]), 10 * Last(number[n - 1]) + version[n])
    IN  number[Len(version)]

IsOlder(a, b) ==
    \/ IsStrictPrefix(a, b)
    \/ \E n \in DOMAIN a : n \in DOMAIN b /\ a[n] < b[n] /\ \A m \in 1..(n - 1) : a[m] = b[m]

(* Every call returns what its mathematical definition says, whatever the   *)
(* earlier calls left in the row: the edit distance; the lowest position    *)
(* that keeps the order; the order of versions, number by number; base64url *)
(* data that decodes to the original, alone or divided into chunks after    *)
(* each third byte; and data that encodes to the text it came from, but for *)
(* bits of its last character that no byte takes.                           *)
AnswersAreRight ==
    /\ called = "distance" => returned = Edits(args[1], args[2])
    /\ called = "lower bound" =>
          /\ returned \in 0..Len(args[1])
          /\ \A n \in DOMAIN args[1] : n <= returned <=> args[1][n] < args[2]
    /\ called = "versions" =>
          /\ returned < 0 <=> IsOlder(Numbers(args[1]), Numbers(args[2]))
          /\ returned > 0 <=> IsOlder(Numbers(args[2]), Numbers(args[1]))
    /\ called = "encode" =>
          /\ IsDecodable(returned) /\ DecodedData(returned) = args[1]
          /\ \A n \in 0..(Len(args[1]) \div 3) :
                returned = EncodedData(SubSeq(args[1], 1, 3 * n))
                                \o EncodedData(SubSeq(args[1], 3 * n + 1, Len(args[1])))
    /\ called = "decode" =>
          LET again == EncodedData(returned)
          IN  /\ Len(again) = Len(args[1])
              /\ \A n \in 1..(Len(again) - 1) : again[n] = args[1][n]
              /\ Len(again) % 4 = 0 => again = args[1]
=============================================================================
