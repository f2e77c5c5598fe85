------------------------------ MODULE Pathname ------------------------------
(***************************************************************************)
(* pathname.h and pathname.cc: pathname objects, the parser of join(), and *)
(* the operations that go up, join and make relative.                      *)
(*                                                                         *)
(* A string is a sequence of the separator, the dot and other characters.  *)
(* A component is the record of its name and of the number of characters   *)
(* before its suffix. levels_up is an unsigned int: it is computed modulo  *)
(* UINT_MAX + 1, and UINT_MAX marks an absolute pathname.                   *)
(***************************************************************************)
EXTENDS Integers, Sequences, SequencesExt

CONSTANTS
    Slash, Dot,   \* B_PATH_SEPARATOR and '.'
    Strings,      \* what is parsed
    Objects,      \* the pathname variables
    UINT_MAX,     \* the greatest unsigned int
    MaxLevels,    \* bound on levels_up of a relative pathname
    MaxText       \* bound on the components that an object is made from

\* What the constants have to be; the module that gives them values assumes it.
\* No operation on objects within the bounds reaches UINT_MAX levels.
PathnameAssumption ==
    /\ Slash # Dot
    /\ \A s \in Strings : s \in Seq(Range(s))
    /\ UINT_MAX \in Nat /\ MaxLevels \in Nat \ {0} /\ MaxText \in Nat
    /\ MaxLevels + MaxLevels < UINT_MAX /\ MaxLevels + MaxText < UINT_MAX

VARIABLES
    paths,    \* the objects
    shared,   \* the pairs of objects whose component arrays share a buffer
    text      \* history: the components each object was made from, in order
vars == <<paths, shared, text>>

Absolute == UINT_MAX
IsAbsolute(p) == p.up = Absolute
Wrapped(n) == n % (UINT_MAX + 1)

Empty == [up |-> 0, comps |-> <<>>, file |-> FALSE]

\* How the code splits a string into components; Root stands for a leading
\* separator.
Root == <<Slash>>
DoubleDot == <<Dot, Dot>>

DoubleDots(n) == [i \in 1..n |-> DoubleDot]

IsEnd(s, i) == i = Len(s) + 1 \/ s[i] = Slash

\* Where the piece that ends before i starts.
StartOf(s, i) ==
    CHOOSE first \in 1..i :
        /\ first = 1 \/ s[first - 1] = Slash
        /\ \A j \in first..(i - 1) : s[j] # Slash

\* split[i]: what the pieces that end at i or before it amount to.
Split(s) ==
    LET split[i \in 0..(Len(s) + 1)] ==
            IF i = 0 THEN <<>>
            ELSE IF ~IsEnd(s, i) THEN split[i - 1]
            ELSE IF i = 1 THEN IF s = <<>> THEN <<>> ELSE <<Root>>
            ELSE LET piece == SubSeq(s, StartOf(s, i), i - 1)
                 IN  IF piece \in {<<>>, <<Dot>>} THEN split[i - 1]
                     ELSE Append(split[i - 1], piece)
    IN  split[Len(s) + 1]

-----------------------------------------------------------------------------
(* The operations as functions of the object                               *)

GoUpOneLevel(p) ==
    IF p.comps # <<>> THEN [p EXCEPT !.comps = Front(@), !.file = FALSE]
    ELSE [p EXCEPT !.up = IF @ = Absolute THEN @ ELSE Wrapped(@ + 1), !.file = FALSE]

GoUp(p, levels) ==
    IF Len(p.comps) >= levels
    THEN [p EXCEPT !.comps = SubSeq(@, 1, Len(@) - levels), !.file = FALSE]
    ELSE [up |-> IF IsAbsolute(p) THEN p.up
                 ELSE Wrapped(p.up + levels - Len(p.comps)),
          comps |-> <<>>, file |-> FALSE]

\* array::overwrite().
Overwritten(s, i, t) ==
    SubSeq(s, 1, i) \o t \o SubSeq(s, i + Len(t) + 1, Len(s))

\* Mutant of JoinPath: what is left behind the overwritten part stays.
JoinPathOver(p, rhs) ==
    IF IsAbsolute(rhs) THEN rhs
    ELSE IF Len(p.comps) <= rhs.up
         THEN [up |-> IF IsAbsolute(p) THEN p.up
                      ELSE Wrapped(p.up + rhs.up - Len(p.comps)),
               comps |-> rhs.comps, file |-> rhs.file]
    ELSE [p EXCEPT !.comps = Overwritten(@, Len(@) - rhs.up, rhs.comps),
                   !.file = rhs.file]

JoinPath(p, rhs) ==
    IF IsAbsolute(rhs) THEN rhs
    ELSE IF rhs.up = 0
         THEN [p EXCEPT !.comps = @ \o rhs.comps, !.file = rhs.file]
    ELSE IF Len(p.comps) <= rhs.up
         THEN [up |-> IF IsAbsolute(p) THEN p.up
                      ELSE Wrapped(p.up + rhs.up - Len(p.comps)),
               comps |-> rhs.comps, file |-> rhs.file]
    ELSE LET over == Overwritten(p.comps, Len(p.comps) - rhs.up, rhs.comps)
             remainder == IF rhs.up > Len(rhs.comps)
                          THEN rhs.up - Len(rhs.comps) ELSE 0
         IN  [p EXCEPT !.comps = SubSeq(over, 1, Len(over) - remainder),
                       !.file = rhs.file]

\* The parser: a state, the first character of a component, and the position
\* of the last dot that may start a suffix, 0 for none. Its states are the
\* labels of the code.
Parser(p) == [path |-> p, at |-> "start", first |-> 0, suffix |-> 0]

\* Mutant of Begin: the suffix of the component before is not forgotten.
BeginOnly(q, i) == [q EXCEPT !.at = "component", !.first = i]

Begin(q, i) == [q EXCEPT !.at = "component", !.first = i, !.suffix = 0]
BeginDot(q, i) == [q EXCEPT !.at = "dot", !.first = i, !.suffix = 0]

AppendComponent(q, s, i) ==
    LET name == SubSeq(s, q.first, i - 1)
        base == IF q.suffix = 0 THEN Len(name) ELSE q.suffix - q.first
    IN  [q EXCEPT !.path.comps = Append(@, [name |-> name, base |-> base])]

\* The i-th character of s is read.
Read(q, s, i) ==
    CASE q.at = "start" ->
             (CASE s[i] = Slash -> [q EXCEPT !.path = [@ EXCEPT !.comps = <<>>, !.up = Absolute],
                                             !.at = "slash"]
                [] s[i] = Dot -> BeginDot(q, i)
                [] OTHER -> Begin(q, i))
      [] q.at = "slash" ->
             (CASE s[i] = Slash -> q
                [] s[i] = Dot -> BeginDot(q, i)
                [] OTHER -> Begin(q, i))
      [] q.at = "component" ->
             (CASE s[i] = Slash -> [AppendComponent(q, s, i) EXCEPT !.at = "slash"]
                [] s[i] = Dot -> [q EXCEPT !.suffix = i]
                [] OTHER -> q)
      [] q.at = "dot" ->
             (CASE s[i] = Slash -> [q EXCEPT !.at = "slash"]
                [] s[i] = Dot -> [q EXCEPT !.suffix = i, !.at = "double dot"]
                [] OTHER -> [q EXCEPT !.at = "component"])
      [] q.at = "double dot" ->
             (CASE s[i] = Slash -> [q EXCEPT !.path = GoUpOneLevel(@), !.at = "slash"]
                [] s[i] = Dot -> [q EXCEPT !.suffix = i, !.at = "component"]
                [] OTHER -> [q EXCEPT !.at = "component"])

\* The end of the string.
Finish(q, s) ==
    CASE q.at = "component" ->
             [AppendComponent(q, s, Len(s) + 1).path EXCEPT !.file = TRUE]
      [] q.at = "double dot" -> GoUpOneLevel(q.path)
      [] OTHER -> q.path

JoinString(p, s) ==
    LET read[i \in 0..Len(s)] ==
            IF i = 0 THEN Parser([p EXCEPT !.file = FALSE]) ELSE Read(read[i - 1], s, i)
    IN  Finish(read[Len(s)], s)

Relatable(p, base) ==
    /\ IsAbsolute(p) <=> IsAbsolute(base)
    /\ base.up <= p.up

\* The number of leading components that two pathnames have in common.
Equal(p, base) ==
    LET common == {n \in 0..Len(p.comps) :
                      /\ n <= Len(base.comps)
                      /\ \A i \in 1..n : p.comps[i].name = base.comps[i].name}
    IN  CHOOSE n \in common : \A m \in common : m <= n

\* Mutant of RelativeTo: the components of the base are not gone up from when
\* its levels are fewer.
RelativeToLevels(p, base) ==
    IF base.up < p.up THEN [p EXCEPT !.up = Wrapped(@ - base.up)]
    ELSE LET equal == Equal(p, base)
         IN  [p EXCEPT !.up = Len(base.comps) - equal,
                       !.comps = SubSeq(@, equal + 1, Len(@))]

RelativeTo(p, base) ==
    IF base.up < p.up
    THEN [p EXCEPT !.up = Wrapped(@ - base.up + Len(base.comps))]
    ELSE LET equal == Equal(p, base)
         IN  [p EXCEPT !.up = Len(base.comps) - equal,
                       !.comps = SubSeq(@, equal + 1, Len(@))]

Names(p) == [i \in DOMAIN p.comps |-> p.comps[i].name]

\* The pieces with a separator between any two of them.
Joined(pieces) ==
    LET joined[i \in 0..Len(pieces)] ==
            IF i = 0 THEN <<>>
            ELSE IF i = 1 THEN pieces[1]
            ELSE joined[i - 1] \o <<Slash>> \o pieces[i]
    IN  joined[Len(pieces)]

Str(p) ==
    IF IsAbsolute(p) THEN <<Slash>> \o Joined(Names(p))
    ELSE IF p.up = 0 /\ p.comps = <<>> THEN <<Dot>>
    ELSE Joined(DoubleDots(p.up) \o Names(p))

-----------------------------------------------------------------------------
(* The operations on the objects of a program                              *)

Init ==
    /\ paths = [o \in Objects |-> Empty]
    /\ shared = {}
    /\ text = [o \in Objects |-> <<>>]

\* The array of o is written to: isolated from those it shared its buffer with.
Isolated(o) == {pair \in shared : o \notin pair}

\* The object becomes p, from the given components; its array was written to
\* unless nothing was appended or removed.
Update(o, p, source, written) ==
    /\ Len(source) <= MaxText
    /\ p.up \in 0..MaxLevels \cup {Absolute}
    /\ paths' = [paths EXCEPT ![o] = p]
    /\ text' = [text EXCEPT ![o] = source]
    /\ shared' = IF written \/ p.comps # paths[o].comps THEN Isolated(o) ELSE shared

\* The object becomes p and shares its component array with r.
ShareWith(o, r, p, source) ==
    /\ Len(source) <= MaxText
    /\ p.up \in 0..MaxLevels \cup {Absolute}
    /\ paths' = [paths EXCEPT ![o] = p]
    /\ text' = [text EXCEPT ![o] = source]
    /\ shared' = Isolated(o) \cup {{o, r}}
                    \cup {{o, x} : x \in {y \in Objects \ {o} : {r, y} \in shared}}

HasNames(s) == \E i \in DOMAIN Split(s) : Split(s)[i] \notin {Root, DoubleDot}

AssignString(o, s) ==
    Update(o, JoinString([paths[o] EXCEPT !.up = 0, !.comps = <<>>], s), Split(s), TRUE)

JoinWithString(o, s) ==
    Update(o, JoinString(paths[o], s), text[o] \o Split(s), HasNames(s))

AssignPath(o, r) == o # r /\ ShareWith(o, r, paths[r], text[r])

\* A program that joins an object to itself is left out: see Overlap.
JoinWithPath(o, r) ==
    LET p == paths[o]
        rhs == paths[r]
        joined == JoinPath(p, rhs)
    IN  /\ o # r
        /\ IF IsAbsolute(rhs) \/ (rhs.up > 0 /\ Len(p.comps) <= rhs.up)
           THEN ShareWith(o, r, joined, text[o] \o text[r])
           ELSE Update(o, joined, text[o] \o text[r], rhs.comps # <<>>)

GoOneUp(o) == Update(o, GoUpOneLevel(paths[o]), text[o] \o <<DoubleDot>>, FALSE)

GoLevelsUp(o, n) ==
    Update(o, GoUp(paths[o], n), text[o] \o DoubleDots(n), FALSE)

\* o = r.relative_to(base).
MakeRelative(o, r, base) ==
    LET p == RelativeTo(paths[r], paths[base])
        source == DoubleDots(p.up) \o Names(p)
    IN  /\ o # r
        /\ Relatable(paths[r], paths[base])
        /\ IF p.comps = paths[r].comps THEN ShareWith(o, r, p, source)
           ELSE Update(o, p, source, TRUE)

Next ==
    \E o \in Objects :
        \/ \E s \in Strings : AssignString(o, s) \/ JoinWithString(o, s)
        \/ \E r \in Objects : AssignPath(o, r) \/ JoinWithPath(o, r)
        \/ GoOneUp(o)
        \/ \E n \in 0..MaxLevels : GoLevelsUp(o, n)
        \/ \E r, base \in Objects : MakeRelative(o, r, base)

Spec == Init /\ [][Next]_vars

-----------------------------------------------------------------------------
(* Properties                                                              *)

\* Where one arrives from a directory by following components one by one.
Step(dir, c) ==
    CASE c = Root -> <<>>
      [] c = DoubleDot -> IF dir = <<>> THEN <<>> ELSE Front(dir)
      [] OTHER -> Append(dir, c)

Walk(dir, comps) ==
    LET at[i \in 0..Len(comps)] == IF i = 0 THEN dir ELSE Step(at[i - 1], comps[i])
    IN  at[Len(comps)]

Denotes(dir, p) ==
    IF IsAbsolute(p) THEN Names(p)
    ELSE SubSeq(dir, 1, IF p.up > Len(dir) THEN 0 ELSE Len(dir) - p.up) \o Names(p)

Directories == {[i \in 1..n |-> <<Dot, Dot, Dot>>] : n \in 0..(MaxLevels + 1)}

(* However an object was made - parsed, joined, gone up from, made relative *)
(* - it leads from any directory to where the components it was made from   *)
(* lead, followed one at a time: normalisation changes the spelling only.   *)
PathMeansText ==
    \A o \in Objects, dir \in Directories :
        Denotes(dir, paths[o]) = Walk(dir, text[o])

\* The characters before the last dot, unless the name starts with it.
BaseLength(name) ==
    LET dots == {i \in 2..Len(name) : name[i] = Dot}
    IN  IF dots = {} THEN Len(name)
        ELSE CHOOSE n \in 1..Len(name) :
                 n + 1 \in dots /\ \A i \in dots : i <= n + 1

(* No object keeps a component that is empty, ".", or "..", or that holds a *)
(* separator; suffixes start at the last dot; and str() is parsed back to   *)
(* the same levels and components.                                          *)
NormalForm ==
    \A o \in Objects :
        LET p == paths[o]
            again == JoinString(Empty, Str(p))
        IN  /\ \A i \in DOMAIN p.comps :
                  /\ p.comps[i].name \notin {<<>>, <<Dot>>, DoubleDot}
                  /\ Slash \notin Range(p.comps[i].name)
                  /\ p.comps[i].base = BaseLength(p.comps[i].name)
            /\ again.up = p.up /\ again.comps = p.comps

(* The comment of relative_to() in pathname.h: joined to basepath, its      *)
(* result gives an object equal to the original.                            *)
RelativeToIsUndone ==
    \A o, base \in Objects :
        Relatable(paths[o], paths[base]) =>
            JoinPath(paths[base], RelativeTo(paths[o], paths[base])) = paths[o]

(* The assertions of array::append() and array::overwrite() in array.h,     *)
(* which JoinPath calls: this and the source array must not overlap.        *)
Overlap(o, r) ==
    /\ {o, r} \in shared
    /\ ~IsAbsolute(paths[r])
    /\ paths[r].up = 0 \/ paths[r].up < Len(paths[o].comps)
    /\ paths[r].comps # <<>>

ArraysDoNotOverlap ==
    [][\A o, r \in Objects : JoinWithPath(o, r) => ~Overlap(o, r)]_vars
=============================================================================
