----------------------------- MODULE StringView -----------------------------
(***************************************************************************)
(* string_view.h, string_view_impl.h and array_slice.h: objects that point *)
(* to a part of a text they do not own, and the operations that shift      *)
(* their two ends. split() writes to objects that the caller points out,   *)
(* the one that is split among them.                                       *)
(*                                                                         *)
(* A view is the number of characters before it and its length.            *)
(***************************************************************************)
EXTENDS Integers, Sequences, FiniteSets, Functions, SequencesExt

CONSTANTS
    Texts,      \* what the views look at
    Views,      \* the variables of type string_view
    Delim,      \* the delimiter that the program splits at, and trims
    NULL

\* What the constants have to be; the module that gives them values assumes it.
StringViewAssumption ==
    /\ NULL \notin Views
    /\ \A t \in Texts : t \in Seq(Range(t))

VARIABLES
    text,
    view,       \* [start, length] of each variable
    latest      \* history: the latest call, with what its receiver showed before
vars == <<text, view, latest>>

NoDelim == -1      \* (size_t) -1

Shown(v) == SubSeq(text, v.start + 1, v.start + v.length)

Init ==
    /\ text \in Texts
    /\ view = [x \in Views |-> [start |-> 0, length |-> Len(text)]]
    /\ latest = [call |-> "none"]

Record(call, x) == [call |-> call, on |-> x, before |-> Shown(view[x])]

-----------------------------------------------------------------------------
(* Searching                                                               *)

Positions(v, ch) == {i \in 0..(v.length - 1) : text[v.start + i + 1] = ch}

Find(v, ch) ==
    IF Positions(v, ch) = {} THEN NoDelim
    ELSE CHOOSE i \in Positions(v, ch) : \A j \in Positions(v, ch) : i <= j

\* Mutant of Cut: the length that is left is computed after slice was written.
CutInPlace(views, x, pos, slice, rest) ==
    LET v == views[x]
        first == IF slice = NULL THEN views
                 ELSE [views EXCEPT ![slice] = [start |-> v.start, length |-> pos]]
    IN  IF rest = NULL THEN first
        ELSE [first EXCEPT ![rest] =
                 [start |-> first[x].start + pos + 1, length |-> first[x].length - pos - 1]]

\* Where split() leaves the views, if the delimiter is at pos.
Cut(views, x, pos, slice, rest) ==
    LET v == views[x]
        first == IF slice = NULL THEN views
                 ELSE [views EXCEPT ![slice] = [start |-> v.start, length |-> pos]]
    IN  IF rest = NULL THEN first
        ELSE [first EXCEPT ![rest] =
                 [start |-> first[x].start + pos + 1, length |-> v.length - pos - 1]]

\* Both pointers may be the same; it is the rest that stays then.
Split(x, slice, rest) ==
    LET pos == Find(view[x], Delim)
    IN  /\ view' = IF pos = NoDelim THEN view ELSE Cut(view, x, pos, slice, rest)
        /\ latest' = [call |-> "split", on |-> x, before |-> Shown(view[x]),
                      slice |-> slice, rest |-> rest, found |-> pos # NoDelim]
        /\ UNCHANGED text

-----------------------------------------------------------------------------
(* Cutting                                                                 *)

\* The number of samples, which are the delimiters here, at the end and at the
\* start of a view.
AtRight(v) == v.length - (CHOOSE n \in 0..v.length :
                 /\ \A i \in n..(v.length - 1) : text[v.start + i + 1] = Delim
                 /\ n > 0 => text[v.start + n] # Delim)

AtLeft(v) == CHOOSE n \in 0..v.length :
                 /\ \A i \in 0..(n - 1) : text[v.start + i + 1] = Delim
                 /\ n < v.length => text[v.start + n + 1] # Delim

TrimmedRight(v) == [v EXCEPT !.length = @ - AtRight(v)]
TrimmedLeft(v) == [start |-> v.start + AtLeft(v), length |-> v.length - AtLeft(v)]

Trim(x) ==
    /\ view' = [view EXCEPT ![x] = TrimmedLeft(TrimmedRight(@))]
    /\ latest' = Record("trim", x)
    /\ UNCHANGED text

\* x = y.substr(start, length), y.slice(start, length), y.remainder(start).
Substr(x, y, start, length) ==
    /\ start <= view[y].length
    /\ view' = [view EXCEPT ![x] =
          [start |-> view[y].start + start,
           length |-> IF length <= view[y].length - start
                      THEN length ELSE view[y].length - start]]
    /\ latest' = Record("substr", y)
    /\ UNCHANGED text

RecordPart(call, x, y, found) ==
    [call |-> call, on |-> x, before |-> Shown(view[x]), part |-> Shown(view[y]),
     found |-> found]

RemovePrefix(x, y) ==
    LET found == IsPrefix(Shown(view[y]), Shown(view[x]))
    IN  /\ view' = IF found
                   THEN [view EXCEPT ![x] = [start |-> @.start + view[y].length,
                                             length |-> @.length - view[y].length]]
                   ELSE view
        /\ latest' = RecordPart("remove prefix", x, y, found)
        /\ UNCHANGED text

RemoveSuffix(x, y) ==
    LET found == IsSuffix(Shown(view[y]), Shown(view[x]))
    IN  /\ view' = IF found
                   THEN [view EXCEPT ![x] = [start |-> @.start,
                                             length |-> @.length - view[y].length]]
                   ELSE view
        /\ latest' = RecordPart("remove suffix", x, y, found)
        /\ UNCHANGED text

Next ==
    \E x, y \in Views :
        \/ \E slice, rest \in Views \cup {NULL} : Split(x, slice, rest)
        \/ Trim(x)
        \/ \E start, length \in 0..Len(text) : Substr(x, y, start, length)
        \/ RemovePrefix(x, y)
        \/ RemoveSuffix(x, y)

Spec == Init /\ [][Next]_vars

-----------------------------------------------------------------------------
(* Properties                                                              *)

Delims(n) == [i \in 1..n |-> Delim]

(* split() gives the characters before the first delimiter and those after  *)
(* it, to whichever of the caller's views it is told to, also to the view   *)
(* that is split ("Either of the output pointers can be NULL or point to    *)
(* this string_view"); a view that is to take both is left with the second. *)
(* trim() removes every sample from both ends, and no other character;      *)
(* removing a prefix or suffix leaves the rest. No view leaves the text.    *)
SplitsAsPromised ==
    /\ \A x \in Views : view[x].start >= 0 /\ view[x].length >= 0
                           /\ view[x].start + view[x].length <= Len(text)
    /\ latest.call = "split" =>
          /\ latest.found <=> Delim \in Range(latest.before)
          /\ latest.found =>
                \E n \in 0..(Len(latest.before) - 1) :
                    LET slice == SubSeq(latest.before, 1, n)
                        rest == SubSeq(latest.before, n + 2, Len(latest.before))
                    IN  /\ latest.before = slice \o <<Delim>> \o rest
                        /\ Delim \notin Range(slice)
                        /\ latest.slice \notin {NULL, latest.rest} => Shown(view[latest.slice]) = slice
                        /\ latest.rest # NULL => Shown(view[latest.rest]) = rest
    /\ latest.call = "trim" =>
          LET shown == Shown(view[latest.on])
          IN  /\ \E l, r \in 0..Len(latest.before) :
                    latest.before = Delims(l) \o shown \o Delims(r)
              /\ shown # <<>> => Head(shown) # Delim /\ Last(shown) # Delim
    /\ latest.call = "remove prefix" /\ latest.found =>
          latest.part \o Shown(view[latest.on]) = latest.before
    /\ latest.call = "remove suffix" /\ latest.found =>
          Shown(view[latest.on]) \o latest.part = latest.before
=============================================================================
