---------------------------- MODULE StringStream ----------------------------
(***************************************************************************)
(* string_stream.h and string_stream.cc: a string that is read and written *)
(* like a file. The position is a size_t, computed modulo SIZE_MAX + 1; it *)
(* may lie past the end of the string, and seek() may take it anywhere.    *)
(* The size of a buffer is computed in the same width, and can come out as *)
(* less than what the string is about to hold.                             *)
(***************************************************************************)
EXTENDS Integers, Sequences, SequencesExt

CONSTANTS
    Byte, Space,
    Data,        \* what is written in one call
    Offsets,     \* arguments of seek(), of the signed type off_t
    SIZE_MAX,
    Overhead,    \* sizeof(buffer), what a buffer holds beside its characters
    MaxLength    \* the longest string that memory has room for

\* extra_capacity() of fn.h, before it is cut to the width of size_t
Extended(n) ==
    LET extra == n \div 8
    IN  n + (IF extra <= 4 THEN 4 ELSE IF extra <= 1024 THEN extra ELSE 1024)

Wrapped(n) == n % (SIZE_MAX + 1)

\* What the constants have to be; the module that gives them values assumes it.
StringStreamAssumption ==
    /\ Space \in Byte /\ Data \subseteq Seq(Byte)
    /\ Offsets \subseteq Int
    /\ \A data \in Data : Len(data) <= MaxLength
    /\ SIZE_MAX \in Nat /\ MaxLength \in Nat /\ MaxLength < SIZE_MAX /\ SIZE_MAX >= 2
    /\ Overhead \in Nat
    /\ \A n \in 0..(2 * MaxLength) : Extended(n) + Overhead <= SIZE_MAX

VARIABLES
    buf_str, pos,
    got,         \* what the latest read() returned, and from where
    bytes,       \* history: the byte last written at each offset
    size,        \* history: the end of what was written, with failed writes
    overran      \* history: characters were written past the end of a buffer
vars == <<buf_str, pos, got, bytes, size, overran>>

Nothing == [at |-> 0, data |-> <<>>]

\* string_stream(b, p).
Init ==
    /\ buf_str \in Data
    /\ pos \in 0..2
    /\ got = Nothing
    /\ bytes = [i \in 0..(Len(buf_str) - 1) |-> buf_str[i + 1]]
    /\ size = Len(buf_str)
    /\ overran = FALSE

Seek ==
    /\ \E offset \in Offsets, base \in {0, pos, Len(buf_str)} :
          pos' = Wrapped(base + offset)
    /\ got' = Nothing
    /\ UNCHANGED <<buf_str, bytes, size, overran>>

Read(n) ==
    LET available == IF pos >= Len(buf_str) THEN 0 ELSE Len(buf_str) - pos
        count == IF n > available THEN available ELSE n
    IN  /\ got' = [at |-> pos, data |-> SubSeq(buf_str, pos + 1, pos + count)]
        /\ pos' = pos + count
        /\ UNCHANGED <<buf_str, bytes, size, overran>>

\* string::replace(), which may make the string longer.
Replaced(s, at, data) ==
    SubSeq(s, 1, at) \o data \o SubSeq(s, at + Len(data) + 1, Len(s))

Blanks(n) == [i \in 1..n |-> Space]

Record(at, data) ==
    /\ LET written == at..(at + Len(data) - 1)
       IN  bytes' = [i \in DOMAIN bytes \cup written |->
                        IF i \in written THEN data[i - at + 1] ELSE bytes[i]]
    /\ size' = IF pos + Len(data) > size THEN pos + Len(data) ELSE size
    /\ got' = Nothing
    /\ UNCHANGED overran

\* Mutant of Write: the gap before the position is not filled.
WriteAtEnd(data) ==
    /\ buf_str' = IF pos <= Len(buf_str) THEN Replaced(buf_str, pos, data)
                  ELSE buf_str \o data
    /\ Len(buf_str') <= MaxLength
    /\ pos' = IF pos <= Len(buf_str) THEN pos + Len(data) ELSE Len(buf_str')
    /\ Record(pos, data)

Write(data) ==
    /\ pos <= MaxLength
    /\ buf_str' = IF pos <= Len(buf_str) THEN Replaced(buf_str, pos, data)
                  ELSE buf_str \o Blanks(pos - Len(buf_str)) \o data
    /\ Len(buf_str') <= MaxLength
    /\ pos' = IF pos <= Len(buf_str) THEN pos + Len(data) ELSE Len(buf_str')
    /\ Record(pos, data)

\* The length that the first call of replace() or append() gives the string, and
\* the size of the buffer that is allocated for it
FirstLength(data) == IF pos <= Len(buf_str) THEN pos + Len(data) ELSE pos
BufferSize(n)     == Wrapped(Wrapped(Extended(n)) + Overhead)
IsWrapped(n)      == BufferSize(n) < n

\* There is no memory for the first or for the second call, which throws; in the
\* second case the gap has been filled by then.
WriteThrows(data) ==
    /\ pos + Len(data) > MaxLength
    /\ ~IsWrapped(FirstLength(data))
    /\ \/ UNCHANGED <<buf_str, size>>
       \/ /\ pos > Len(buf_str) /\ pos <= MaxLength
          /\ buf_str' = buf_str \o Blanks(pos - Len(buf_str))
          /\ size' = pos
    /\ got' = Nothing
    /\ UNCHANGED <<pos, bytes, overran>>

\* The buffer is as small as its size came out, and the call runs past its end.
\* What the program does after that is not defined; here it does nothing more.
Overrun(data) ==
    /\ IsWrapped(FirstLength(data))
    /\ overran' = TRUE
    /\ UNCHANGED <<buf_str, pos, got, bytes, size>>

Next ==
    /\ ~overran
    /\ \/ Seek
       \/ \E n \in 0..2 : Read(n)
       \/ \E data \in Data : Write(data) \/ WriteThrows(data) \/ Overrun(data)

Spec == Init /\ [][Next]_vars

-----------------------------------------------------------------------------
(* Properties                                                              *)

FileByte(i) == IF i \in DOMAIN bytes THEN bytes[i] ELSE Space

(* The stream behaves like a file: wherever the position has been moved to, *)
(* reads past the end included, each offset holds the byte last written     *)
(* there, and a gap that a write left, or began to leave and threw, holds   *)
(* spaces; a read returns bytes of the file and leaves the position after   *)
(* them. The exception is a write() that overruns a buffer, because its     *)
(* size has wrapped around: this takes a seek() so far past the end that    *)
(* the gap alone is more than memory has room for, as seek(-1) does.        *)
BehavesLikeAFile ==
    /\ buf_str = [i \in 1..size |-> FileByte(i - 1)]
    /\ \A i \in DOMAIN bytes : i < size
    /\ pos \in 0..SIZE_MAX
    /\ got.data # <<>> =>
          /\ got.data = [i \in DOMAIN got.data |-> FileByte(got.at + i - 1)]
          /\ pos = got.at + Len(got.data) /\ pos <= size
    /\ overran => pos - size > MaxLength
=============================================================================
