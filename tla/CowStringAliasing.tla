--------------------------- MODULE CowStringAliasing ---------------------------
(* CowString when a string that nothing shares is appended to itself and its *)
(* buffer is too small: append(source.data(), source.length()) is called     *)
(* with a pointer into the buffer, alloc_and_copy() frees the buffer, and    *)
(* the characters are then copied from memory that is free.                  *)
EXTENDS CowString

VARIABLE appended       \* history: the string just appended to itself, and
                        \* what it was; << >> after any other operation

AppendItself(h) ==
    /\ IsObject(h) /\ ~IsLocked(h)
    /\ LET size == 2 * Length(h)
       IN  /\ 0 < size /\ size <= MaxLength
           /\ ~IsShared(h) /\ size > Capacity(h)
           /\ \E s \in [1..Length(h) -> Char] :
                  Reallocate(h, NewBuffer(ExtraCapacity(size), Data(h) \o s, TRUE))
    /\ UNCHANGED locks

InitAliasing == Init /\ appended = << >>

NextAliasing ==
    \/ Next /\ appended' = << >>
    \/ \E h \in Handle : AppendItself(h) /\ appended' = <<h, Data(h)>>

SpecAliasing == InitAliasing /\ [][NextAliasing]_<<vars, appended>>

\* append(source): "Appends the contents of 'source' at the end of this string."
\* A string that is appended to itself is doubled.
AppendDoubles ==
    appended # << >> => Data(appended[1]) = appended[2] \o appended[2]
=============================================================================
