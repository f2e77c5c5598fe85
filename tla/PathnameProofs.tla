-------------------------- MODULE PathnameProofs ---------------------------
(***************************************************************************)
(* Theorems about Pathname, for strings of every kind.                     *)
(*                                                                         *)
(* Everything is said with Denotes(dir, p), where p leads from dir, and    *)
(* Walk(dir, comps), where comps lead one at a time; both go up with       *)
(* GoneUp(dir, n).  The parser's invariant, ReadTo, says which piece of    *)
(* the string is being read and where its suffix starts; Leads says that   *)
(* the object read so far leads where the finished pieces do.  The         *)
(* invariant of the objects, PathInv, says that each denotes what the      *)
(* components it was made from walk to.  Cuts says where the pieces lie    *)
(* that str() has joined, so that the parser finds them again.             *)
(***************************************************************************)
EXTENDS Pathname, SequenceTheorems, WellFoundedInduction, TLAPS

LEMMA LeastNatural ==
    ASSUME NEW T \in SUBSET Nat, T # {}
    PROVE  \E n \in T : \A m \in T : n <= m
<1> DEFINE R == OpToRel(<, Nat)
<1>1. \A x, y \in Nat : x < y => <<x, y>> \in R
  BY DEF OpToRel
<1>2. IsWellFoundedOn(R, Nat)
  BY NatLessThanWellFounded
<1> HIDE DEF R
<1>3. PICK x \in T : \A y \in T : ~(<<y, x>> \in R)
  BY <1>2, WFMin, Zenon
<1>4. \A y \in T : ~(y < x)
  BY <1>1, <1>3
<1>5. \A y \in T : x <= y
  BY <1>4
<1> QED
  BY <1>5

\* A part of a sequence, given by the number of elements before it and its length
LEMMA PartFacts ==
    ASSUME NEW S, NEW s \in Seq(S), NEW i \in Nat, NEW n \in Nat, i + n <= Len(s)
    PROVE  /\ SubSeq(s, i + 1, i + n) \in Seq(S)
           /\ Len(SubSeq(s, i + 1, i + n)) = n
           /\ \A k \in 1..n : SubSeq(s, i + 1, i + n)[k] = s[i + k]
<1>1. Len(s) \in Nat
  BY LenProperties
<1>2. i + 1 \in Int /\ i + n \in Int /\ i + 1 .. i + n \subseteq 1..Len(s)
  BY <1>1
<1>3. \A k \in i + 1 .. i + n : s[k] \in S
  BY <1>2, ElementOfSeq
<1>4. /\ SubSeq(s, i + 1, i + n) \in Seq(S)
      /\ Len(SubSeq(s, i + 1, i + n)) = IF i + 1 <= i + n THEN (i + n) - (i + 1) + 1 ELSE 0
      /\ \A k \in 1 .. (i + n) - (i + 1) + 1 : SubSeq(s, i + 1, i + n)[k] = s[(i + 1) + k - 1]
  BY <1>2, <1>3, SubSeqProperties
<1> QED
  BY <1>4

\* The first elements of a sequence
LEMMA FirstFacts ==
    ASSUME NEW S, NEW s \in Seq(S), NEW n \in 0..Len(s)
    PROVE  /\ SubSeq(s, 1, n) \in Seq(S)
           /\ Len(SubSeq(s, 1, n)) = n
           /\ \A k \in 1..n : SubSeq(s, 1, n)[k] = s[k]
<1>1. n \in Nat /\ n <= Len(s)
  BY LenProperties
<1>2. 0 + n <= Len(s)
  BY <1>1
<1>3. /\ SubSeq(s, 0 + 1, 0 + n) \in Seq(S) /\ Len(SubSeq(s, 0 + 1, 0 + n)) = n
      /\ \A k \in 1..n : SubSeq(s, 0 + 1, 0 + n)[k] = s[0 + k]
  BY <1>1, <1>2, PartFacts
<1> QED
  BY <1>1, <1>3

\* The first elements of the first elements
LEMMA FirstOfFirst ==
    ASSUME NEW S, NEW s \in Seq(S), NEW n \in 0..Len(s), NEW m \in 0..n
    PROVE  SubSeq(SubSeq(s, 1, n), 1, m) = SubSeq(s, 1, m)
<1> DEFINE t == SubSeq(s, 1, n)
<1>1. Len(s) \in Nat /\ n \in Nat /\ m \in Nat /\ m <= n /\ m \in 0..Len(s)
  BY LenProperties
<1>2. t \in Seq(S) /\ Len(t) = n /\ \A k \in 1..n : t[k] = s[k]
  BY FirstFacts
<1> HIDE DEF t
<1>3. m \in 0..Len(t)
  BY <1>1, <1>2
<1>4. SubSeq(t, 1, m) \in Seq(S) /\ Len(SubSeq(t, 1, m)) = m /\ \A k \in 1..m : SubSeq(t, 1, m)[k] = t[k]
  BY <1>2, <1>3, FirstFacts
<1>5. SubSeq(s, 1, m) \in Seq(S) /\ Len(SubSeq(s, 1, m)) = m /\ \A k \in 1..m : SubSeq(s, 1, m)[k] = s[k]
  BY <1>1, FirstFacts
<1>6. \A k \in 1..m : SubSeq(t, 1, m)[k] = SubSeq(s, 1, m)[k]
  BY <1>1, <1>2, <1>4, <1>5
<1>7. SubSeq(t, 1, m) = SubSeq(s, 1, m)
  BY <1>4, <1>5, <1>6, SeqEqual
<1> QED
  BY <1>7 DEF t

\* A sequence is the function of its elements.
LEMMA SequenceIs ==
    ASSUME NEW S, NEW s \in Seq(S)
    PROVE  s = [k \in 1..Len(s) |-> s[k]]
BY LenProperties

\* Functions with the same values are equal.
LEMMA SequenceEquals ==
    ASSUME NEW S, NEW s \in Seq(S), NEW n \in Nat, Len(s) = n, NEW t, t = [k \in 1..n |-> t[k]],
           \A k \in 1..n : s[k] = t[k]
    PROVE  s = t
<1>1. s = [k \in 1..n |-> s[k]]
  BY SequenceIs
<1> QED
  BY <1>1

-----------------------------------------------------------------------------
(* Recursion on a number                                                   *)

\* What is true of 0 and of the number after each one is true of all.
LEMMA CountUp ==
    ASSUME NEW N \in Nat, NEW T, 0 \in T, \A i \in 1..N : i - 1 \in T => i \in T
    PROVE  \A i \in 0..N : i \in T
<1> SUFFICES ASSUME {i \in 0..N : i \notin T} # {}
             PROVE  FALSE
  OBVIOUS
<1> DEFINE B == {i \in 0..N : i \notin T}
<1>1. B \in SUBSET Nat /\ B # {}
  OBVIOUS
<1>2. PICK n \in B : \A m \in B : n <= m
  BY <1>1, LeastNatural
<1>3. n \in 1..N /\ n - 1 \notin T
  BY <1>2
<1>4. n - 1 \in B /\ ~(n <= n - 1)
  BY <1>3
<1> QED
  BY <1>2, <1>4

\* A definition by recursion has a meaning: step[<<i, v>>] is the value at i if v is
\* the one before.
Recurs(f, base, N, step) == f = [i \in 0..N |-> IF i = 0 THEN base ELSE step[<<i, f[i - 1]>>]]

LEMMA RecursionExists ==
    ASSUME NEW V, NEW base \in V, NEW N \in Nat, NEW step \in [(1..N) \X V -> V]
    PROVE  \E f \in [0..N -> V] : Recurs(f, base, N, step)
<1> DEFINE Good(k, f) == f[0] = base /\ \A i \in 1..k : f[i] = step[<<i, f[i - 1]>>]
           T == {k \in 0..N : \E f \in [0..N -> V] : Good(k, f)}
<1>1. 0 \in T
  <2> DEFINE f == [i \in 0..N |-> base]
  <2>1. f \in [0..N -> V] /\ Good(0, f)
    OBVIOUS
  <2> HIDE DEF f, Good
  <2>2. 0 \in 0..N
    OBVIOUS
  <2> QED
    BY <2>1, <2>2
<1>2. ASSUME NEW k \in 1..N, k - 1 \in T
      PROVE  k \in T
  <2>1. PICK f \in [0..N -> V] : Good(k - 1, f)
    BY <1>2
  <2> DEFINE x == step[<<k, f[k - 1]>>]
             g == [f EXCEPT ![k] = x]
  <2>2. x \in V
    OBVIOUS
  <2> HIDE DEF x
  <2>3. g \in [0..N -> V] /\ g[k] = x /\ \A i \in 0..(k - 1) : g[i] = f[i]
    BY <2>2
  <2>4. g[0] = base
    BY <2>1, <2>3
  <2>5. ASSUME NEW i \in 1..k
        PROVE  g[i] = step[<<i, g[i - 1]>>]
    <3>1. CASE i = k
      BY <2>3, <3>1 DEF x
    <3>2. CASE i # k
      <4>1. i \in 1..(k - 1) /\ i - 1 \in 0..(k - 1) /\ i \in 0..(k - 1)
        BY <3>2
      <4>2. g[i] = f[i] /\ g[i - 1] = f[i - 1]
        BY <2>3, <4>1
      <4> QED
        BY <2>1, <4>1, <4>2
    <3> QED
      BY <3>1, <3>2
  <2>6. Good(k, g)
    BY <2>4, <2>5
  <2> HIDE DEF Good, g
  <2> QED
    BY <2>3, <2>6
<1>3. N \in T
  <2> HIDE DEF T
  <2>1. \A i \in 0..N : i \in T
    BY <1>1, <1>2, CountUp
  <2> QED
    BY <2>1
<1>4. PICK f \in [0..N -> V] : Good(N, f)
  BY <1>3
<1>5. f = [i \in 0..N |-> f[i]]
  OBVIOUS
<1>6. \A i \in 0..N : f[i] = IF i = 0 THEN base ELSE step[<<i, f[i - 1]>>]
  BY <1>4
<1> QED
  BY <1>5, <1>6 DEF Recurs

-----------------------------------------------------------------------------
(* Going up: a sequence without its last n elements                        *)

GoneUp(d, n) == SubSeq(d, 1, IF n > Len(d) THEN 0 ELSE Len(d) - n)

LEMMA GoneUpIs ==
    ASSUME NEW S, NEW d \in Seq(S), NEW n \in Nat
    PROVE  LET u == GoneUp(d, n)
           IN  /\ u \in Seq(S)
               /\ Len(u) = (IF n > Len(d) THEN 0 ELSE Len(d) - n)
               /\ Len(u) \in 0..Len(d)
               /\ \A k \in 1..Len(u) : u[k] = d[k]
<1> DEFINE m == IF n > Len(d) THEN 0 ELSE Len(d) - n
<1>1. m \in 0..Len(d)
  BY LenProperties
<1> HIDE DEF m
<1>2. /\ SubSeq(d, 1, m) \in Seq(S) /\ Len(SubSeq(d, 1, m)) = m
      /\ \A k \in 1..m : SubSeq(d, 1, m)[k] = d[k]
  BY <1>1, FirstFacts
<1>3. GoneUp(d, n) = SubSeq(d, 1, m)
  BY DEF GoneUp, m
<1> HIDE DEF GoneUp
<1> QED
  BY <1>1, <1>2, <1>3 DEF m

\* A sequence of the right length and elements is what remains.
LEMMA GoneUpEquals ==
    ASSUME NEW S, NEW d \in Seq(S), NEW n \in Nat, NEW t \in Seq(S),
           Len(t) = (IF n > Len(d) THEN 0 ELSE Len(d) - n),
           \A k \in 1..Len(t) : t[k] = d[k]
    PROVE  GoneUp(d, n) = t
<1> DEFINE u == GoneUp(d, n)
<1>1. u \in Seq(S) /\ Len(u) = Len(t) /\ \A k \in 1..Len(u) : u[k] = d[k]
  BY GoneUpIs
<1> HIDE DEF u
<1>2. \A k \in 1..Len(u) : u[k] = t[k]
  BY <1>1
<1>3. u = t
  BY <1>1, <1>2, SeqEqual
<1> QED
  BY <1>3 DEF u

LEMMA UpNone ==
    ASSUME NEW S, NEW d \in Seq(S)
    PROVE  GoneUp(d, 0) = d
<1>1. Len(d) \in Nat
  BY LenProperties
<1> QED
  BY <1>1, GoneUpEquals

LEMMA UpAll ==
    ASSUME NEW S, NEW d \in Seq(S), NEW n \in Nat, n >= Len(d)
    PROVE  GoneUp(d, n) = <<>>
<1> DEFINE t == <<>>
<1>1. Len(d) \in Nat /\ t \in Seq(S) /\ Len(t) = 0
  BY LenProperties
<1> HIDE DEF t
<1>2. Len(t) = IF n > Len(d) THEN 0 ELSE Len(d) - n
  BY <1>1
<1>3. \A k \in 1..Len(t) : t[k] = d[k]
  BY <1>1
<1>4. GoneUp(d, n) = t
  BY <1>1, <1>2, <1>3, GoneUpEquals
<1> QED
  BY <1>4 DEF t

LEMMA UpTwice ==
    ASSUME NEW S, NEW d \in Seq(S), NEW n \in Nat, NEW m \in Nat
    PROVE  GoneUp(GoneUp(d, n), m) = GoneUp(d, n + m)
<1> DEFINE u == GoneUp(d, n)
           t == GoneUp(u, m)
           s == n + m
<1>1. /\ u \in Seq(S) /\ Len(u) = (IF n > Len(d) THEN 0 ELSE Len(d) - n)
      /\ Len(u) \in 0..Len(d) /\ \A k \in 1..Len(u) : u[k] = d[k]
  BY GoneUpIs
<1> HIDE DEF u
<1>2. /\ t \in Seq(S) /\ Len(t) = (IF m > Len(u) THEN 0 ELSE Len(u) - m)
      /\ Len(t) \in 0..Len(u) /\ \A k \in 1..Len(t) : t[k] = u[k]
  BY <1>1, GoneUpIs
<1> HIDE DEF t
<1>3. Len(d) \in Nat /\ s \in Nat /\ s = n + m
  BY LenProperties
<1> HIDE DEF s
<1>4. Len(t) = IF s > Len(d) THEN 0 ELSE Len(d) - s
  BY <1>1, <1>2, <1>3
<1>5. \A k \in 1..Len(t) : t[k] = d[k]
  BY <1>1, <1>2, <1>3
<1>6. GoneUp(d, s) = t
  BY <1>2, <1>3, <1>4, <1>5, GoneUpEquals
<1> QED
  BY <1>6 DEF t, u, s

\* As long as there are enough, the elements are taken from the second sequence...
LEMMA UpWithin ==
    ASSUME NEW S, NEW a \in Seq(S), NEW b \in Seq(S), NEW n \in Nat, n <= Len(b)
    PROVE  GoneUp(a \o b, n) = a \o GoneUp(b, n)
<1> DEFINE c == a \o b
           u == GoneUp(b, n)
           t == a \o u
<1>1. Len(a) \in Nat /\ Len(b) \in Nat
  BY LenProperties
<1>2. /\ c \in Seq(S) /\ Len(c) = Len(a) + Len(b)
      /\ \A i \in 1..Len(a) + Len(b) : c[i] = IF i <= Len(a) THEN a[i] ELSE b[i - Len(a)]
  BY ConcatProperties
<1> HIDE DEF c
<1>3. u \in Seq(S) /\ Len(u) = Len(b) - n /\ \A k \in 1..Len(u) : u[k] = b[k]
  BY <1>1, GoneUpIs
<1> HIDE DEF u
<1>4. /\ t \in Seq(S) /\ Len(t) = Len(a) + Len(u)
      /\ \A i \in 1..Len(a) + Len(u) : t[i] = IF i <= Len(a) THEN a[i] ELSE u[i - Len(a)]
  BY <1>3, ConcatProperties
<1> HIDE DEF t
<1>5. Len(t) = IF n > Len(c) THEN 0 ELSE Len(c) - n
  BY <1>1, <1>2, <1>3, <1>4
<1>6. ASSUME NEW k \in 1..Len(t)
      PROVE  t[k] = c[k]
  <2>1. k \in 1..Len(a) + Len(u) /\ k \in 1..Len(a) + Len(b)
    BY <1>1, <1>3, <1>4
  <2>2. CASE k <= Len(a)
    BY <1>2, <1>4, <2>1, <2>2
  <2>3. CASE ~(k <= Len(a))
    <3> DEFINE j == k - Len(a)
    <3>1. j \in 1..Len(u)
      BY <1>1, <1>3, <2>1, <2>3
    <3>2. t[k] = u[j] /\ c[k] = b[j]
      BY <1>2, <1>4, <2>1, <2>3
    <3> HIDE DEF j
    <3> QED
      BY <1>3, <3>1, <3>2
  <2> QED
    BY <2>2, <2>3
<1>7. GoneUp(c, n) = t
  BY <1>2, <1>4, <1>5, <1>6, GoneUpEquals
<1> QED
  BY <1>7 DEF c, t, u

\* ...and then from the first one.
LEMMA UpBeyond ==
    ASSUME NEW S, NEW a \in Seq(S), NEW b \in Seq(S), NEW n \in Nat, n >= Len(b)
    PROVE  GoneUp(a \o b, n) = GoneUp(a, n - Len(b))
<1> DEFINE c == a \o b
           m == n - Len(b)
           t == GoneUp(a, m)
<1>1. Len(a) \in Nat /\ Len(b) \in Nat /\ m \in Nat /\ n = m + Len(b)
  BY LenProperties
<1>2. /\ c \in Seq(S) /\ Len(c) = Len(a) + Len(b)
      /\ \A i \in 1..Len(a) + Len(b) : c[i] = IF i <= Len(a) THEN a[i] ELSE b[i - Len(a)]
  BY ConcatProperties
<1> HIDE DEF c, m
<1>3. /\ t \in Seq(S) /\ Len(t) = (IF m > Len(a) THEN 0 ELSE Len(a) - m)
      /\ Len(t) \in 0..Len(a) /\ \A k \in 1..Len(t) : t[k] = a[k]
  BY <1>1, GoneUpIs
<1> HIDE DEF t
<1>4. Len(t) = IF n > Len(c) THEN 0 ELSE Len(c) - n
  BY <1>1, <1>2, <1>3
<1>5. \A k \in 1..Len(t) : k \in 1..Len(a) + Len(b) /\ k <= Len(a)
  BY <1>1, <1>3
<1>6. \A k \in 1..Len(t) : t[k] = c[k]
  BY <1>2, <1>3, <1>5
<1>7. GoneUp(c, n) = t
  BY <1>2, <1>3, <1>4, <1>6, GoneUpEquals
<1> QED
  BY <1>7 DEF c, t, m

-----------------------------------------------------------------------------
(* What the objects are made of                                            *)

PathChar == {Slash, Dot} \cup UNION {Range(s) : s \in Strings}
PathText == Seq(PathChar)
Dirs == Seq(PathText)

\* A name that can be a component, and not "", "." or ".."
IsName(c) == /\ c \in PathText /\ c \notin {<<>>, <<Dot>>, DoubleDot}
             /\ \A k \in 1..Len(c) : c[k] # Slash

PathComp == {c \in [name : PathText, base : Nat] : IsName(c.name) /\ c.base = BaseLength(c.name)}
PathObject == [up : 0..UINT_MAX, comps : Seq(PathComp), file : BOOLEAN]

LEMMA Specials ==
    ASSUME PathnameAssumption
    PROVE  /\ Slash # Dot
           /\ Root \in PathText /\ DoubleDot \in PathText /\ Root # DoubleDot
           /\ \A c : IsName(c) => c # Root /\ c # DoubleDot /\ c \in PathText /\ Len(c) \in Nat \ {0}
<1>1. Slash # Dot
  BY DEF PathnameAssumption
<1>2. Slash \in PathChar /\ Dot \in PathChar
  BY DEF PathChar
<1>3. Root \in PathText /\ DoubleDot \in PathText
  BY <1>2 DEF Root, DoubleDot, PathText
<1>4. Len(Root) = 1 /\ Root[1] = Slash /\ Len(DoubleDot) = 2
  BY DEF Root, DoubleDot
<1>5. \A c : IsName(c) => c # Root
  BY <1>4 DEF IsName
<1>6. \A c : IsName(c) => Len(c) \in Nat \ {0}
  <2>1. ASSUME NEW c, IsName(c)
        PROVE  c \in Seq(PathChar) /\ c # <<>>
    BY <2>1 DEF IsName, PathText
  <2> QED
    BY <2>1, EmptySeq, LenProperties
<1>7. Root # DoubleDot
  BY <1>4
<1>8. \A c : IsName(c) => c # DoubleDot /\ c \in PathText
  BY DEF IsName
<1> QED
  BY <1>1, <1>3, <1>5, <1>6, <1>7, <1>8

LEMMA StepIs ==
    ASSUME PathnameAssumption, NEW d \in Dirs, NEW c \in PathText
    PROVE  /\ Step(d, c) \in Dirs
           /\ c = DoubleDot => Step(d, c) = GoneUp(d, 1)
           /\ c = Root => Step(d, c) = <<>>
           /\ c # Root /\ c # DoubleDot => Step(d, c) = Append(d, c)
<1>1. Root # DoubleDot
  BY Specials
<1>2. CASE c = DoubleDot
  <2>1. Step(d, c) = IF d = <<>> THEN <<>> ELSE SubSeq(d, 1, Len(d) - 1)
    BY <1>1, <1>2 DEF Step, Front
  <2>2. Len(d) \in Nat /\ (d # <<>> => Len(d) > 0) /\ (d = <<>> => Len(d) = 0)
    BY EmptySeq, LenProperties DEF Dirs
  <2>3. CASE d = <<>>
    <3>1. GoneUp(d, 1) = <<>>
      <4>1. 1 \in Nat /\ 1 >= Len(d)
        BY <2>2, <2>3
      <4> QED
        BY <4>1, UpAll DEF Dirs
    <3> QED
      BY <1>1, <1>2, <2>1, <2>3, <3>1 DEF Dirs
  <2>4. CASE d # <<>>
    <3>1. GoneUp(d, 1) = SubSeq(d, 1, Len(d) - 1)
      BY <2>2, <2>4 DEF GoneUp
    <3>2. GoneUp(d, 1) \in Dirs
      BY GoneUpIs DEF Dirs
    <3> QED
      BY <1>1, <1>2, <2>1, <2>4, <3>1, <3>2
  <2> QED
    BY <2>3, <2>4
<1>3. CASE c = Root
  BY <1>1, <1>3 DEF Step, Dirs
<1>4. CASE c # Root /\ c # DoubleDot
  BY <1>4 DEF Step, Dirs
<1> QED
  BY <1>2, <1>3, <1>4

-----------------------------------------------------------------------------
(* Where one arrives by following components                               *)

LEMMA WalkIs ==
    ASSUME PathnameAssumption, NEW d \in Dirs, NEW cs \in Seq(PathText)
    PROVE  \E f \in [0..Len(cs) -> Dirs] :
               /\ f[0] = d
               /\ \A i \in 1..Len(cs) : f[i] = Step(f[i - 1], cs[i])
               /\ Walk(d, cs) = f[Len(cs)]
<1> DEFINE N == Len(cs)
           step == [x \in (1..N) \X Dirs |-> Step(x[2], cs[x[1]])]
           IsAt(f) == f = [i \in 0..N |-> IF i = 0 THEN d ELSE Step(f[i - 1], cs[i])]
           at == CHOOSE f : IsAt(f)
<1>1. N \in Nat /\ \A i \in 1..N : cs[i] \in PathText
  BY LenProperties, ElementOfSeq
<1> HIDE DEF N
<1>2. step \in [(1..N) \X Dirs -> Dirs]
  BY <1>1, StepIs
<1>3. \A i \in 1..N, v \in Dirs : step[<<i, v>>] = Step(v, cs[i])
  OBVIOUS
<1> HIDE DEF step
<1>4. PICK f \in [0..N -> Dirs] : Recurs(f, d, N, step)
  BY <1>1, <1>2, RecursionExists
<1>5. IsAt(f)
  <2>1. ASSUME NEW i \in 0..N, i # 0
        PROVE  step[<<i, f[i - 1]>>] = Step(f[i - 1], cs[i])
    <3>1. i \in 1..N /\ f[i - 1] \in Dirs
      BY <1>1, <2>1
    <3> QED
      BY <1>3, <3>1
  <2> QED
    BY <1>4, <2>1 DEF Recurs
<1>6. IsAt(at)
  <2> HIDE DEF IsAt
  <2> QED
    BY <1>5
<1>7. Walk(d, cs) = at[N]
  BY DEF Walk, N
<1> HIDE DEF at
<1>8. at[0] = d /\ \A i \in 1..N : at[i] = Step(at[i - 1], cs[i])
  BY <1>1, <1>6
<1> DEFINE T == {i \in 0..N : at[i] \in Dirs}
<1>9. 0 \in T
  BY <1>1, <1>8
<1>10. ASSUME NEW i \in 1..N, i - 1 \in T
       PROVE  i \in T
  <2>1. at[i] = Step(at[i - 1], cs[i])
    BY <1>8
  <2> QED
    BY <1>1, <1>10, <2>1, StepIs
<1>11. \A i \in 0..N : i \in T
  <2> HIDE DEF T
  <2> QED
    BY <1>1, <1>9, <1>10, CountUp
<1>12. at \in [0..N -> Dirs]
  BY <1>6, <1>11
<1> QED
  BY <1>7, <1>8, <1>12 DEF N

LEMMA WalkType ==
    ASSUME PathnameAssumption, NEW d \in Dirs, NEW cs \in Seq(PathText)
    PROVE  Walk(d, cs) \in Dirs
<1>1. Len(cs) \in 0..Len(cs)
  BY LenProperties
<1> QED
  BY <1>1, WalkIs

LEMMA WalkNowhere ==
    ASSUME PathnameAssumption, NEW d \in Dirs
    PROVE  Walk(d, <<>>) = d
<1> DEFINE cs == <<>>
<1>1. cs \in Seq(PathText) /\ Len(cs) = 0
  OBVIOUS
<1> HIDE DEF cs
<1>2. PICK f \in [0..Len(cs) -> Dirs] :
           /\ f[0] = d
           /\ \A i \in 1..Len(cs) : f[i] = Step(f[i - 1], cs[i])
           /\ Walk(d, cs) = f[Len(cs)]
  BY <1>1, WalkIs
<1>3. Walk(d, cs) = d
  BY <1>1, <1>2
<1> QED
  BY <1>3 DEF cs

LEMMA WalkOn ==
    ASSUME PathnameAssumption, NEW d \in Dirs, NEW cs \in Seq(PathText), NEW c \in PathText
    PROVE  Walk(d, Append(cs, c)) = Step(Walk(d, cs), c)
<1> DEFINE N == Len(cs)
           t == Append(cs, c)
<1>1. /\ t \in Seq(PathText) /\ Len(t) = N + 1 /\ N \in Nat
      /\ \A i \in 1..N : t[i] = cs[i]
      /\ t[N + 1] = c
  BY AppendProperties, LenProperties
<1> HIDE DEF t
<1>2. PICK f : /\ f[0] = d
               /\ \A i \in 1..N : f[i] = Step(f[i - 1], cs[i])
               /\ Walk(d, cs) = f[N]
  BY WalkIs
<1>2a. t \in Seq(PathText)
  BY <1>1
<1>2b. PICK g : /\ g[0] = d
               /\ \A i \in 1..Len(t) : g[i] = Step(g[i - 1], t[i])
               /\ Walk(d, t) = g[Len(t)]
  BY <1>2a, WalkIs
<1>3. /\ g[0] = d
      /\ \A i \in 1..(N + 1) : g[i] = Step(g[i - 1], t[i])
      /\ Walk(d, t) = g[N + 1]
  BY <1>1, <1>2b
<1> HIDE DEF N
<1> DEFINE T == {i \in 0..N : g[i] = f[i]}
<1>4. 0 \in T
  BY <1>1, <1>2, <1>3
<1>5. ASSUME NEW i \in 1..N, i - 1 \in T
      PROVE  i \in T
  <2>1. g[i] = Step(g[i - 1], t[i]) /\ f[i] = Step(f[i - 1], cs[i]) /\ t[i] = cs[i]
    BY <1>1, <1>2, <1>3
  <2> QED
    BY <1>5, <2>1
<1>6. \A i \in 0..N : i \in T
  <2> HIDE DEF T
  <2> QED
    BY <1>1, <1>4, <1>5, CountUp
<1>7. g[N] = f[N]
  BY <1>1, <1>6
<1>8. g[N + 1] = Step(g[N], c)
  <2>1. N + 1 \in 1..(N + 1) /\ (N + 1) - 1 = N
    BY <1>1
  <2>2. g[N + 1] = Step(g[(N + 1) - 1], t[N + 1])
    BY <1>3, <2>1
  <2> QED
    BY <1>1, <2>1, <2>2
<1> QED
  BY <1>2, <1>3, <1>7, <1>8 DEF t

\* The first i elements, then the next one
LEMMA FirstThenNext ==
    ASSUME PathnameAssumption, NEW S, NEW s \in Seq(S), NEW i \in 1..Len(s)
    PROVE  /\ SubSeq(s, 1, i) = Append(SubSeq(s, 1, i - 1), s[i])
           /\ SubSeq(s, 1, i - 1) \in Seq(S) /\ SubSeq(s, 1, i) \in Seq(S) /\ s[i] \in S
<1>1. Len(s) \in Nat /\ 1 \in 1..Len(s) /\ i \in 0..Len(s) /\ i - 1 \in 0..Len(s) /\ i \in 1..Len(s)
  BY LenProperties
<1>2. SubSeq(s, 1, i - 1) \in Seq(S) /\ SubSeq(s, 1, i) \in Seq(S) /\ s[i] \in S
  BY <1>1, FirstFacts, ElementOfSeq
<1>3. SubSeq(s, 1, i) = SubSeq(s, 1, i - 1) \o << s[i] >>
  BY <1>1, SubSeqRecursiveSecond
<1> QED
  BY <1>2, <1>3, AppendIsConcat

Associates(a, b, c) == (a \o b) \o c = a \o (b \o c)

LEMMA Association ==
    ASSUME PathnameAssumption, NEW S, NEW a \in Seq(S), NEW b \in Seq(S), NEW c \in Seq(S)
    PROVE  Associates(a, b, c)
BY ConcatAssociative DEF Associates

LEMMA AppendFurther ==
    ASSUME PathnameAssumption, NEW S, NEW a \in Seq(S), NEW q \in Seq(S), NEW c \in S
    PROVE  a \o Append(q, c) = Append(a \o q, c) /\ a \o q \in Seq(S)
<1>1. << c >> \in Seq(S) /\ a \o q \in Seq(S)
  BY ConcatProperties
<1>2. Append(q, c) = q \o << c >> /\ Append(a \o q, c) = (a \o q) \o << c >>
  BY <1>1, AppendIsConcat
<1>3. (a \o q) \o << c >> = a \o (q \o << c >>)
  <2>1. Associates(a, q, << c >>)
    BY <1>1, Association
  <2> QED
    BY <2>1 DEF Associates
<1> QED
  BY <1>1, <1>2, <1>3

LEMMA WalkFurther ==
    ASSUME PathnameAssumption, NEW d \in Dirs, NEW a \in Seq(PathText), NEW b \in Seq(PathText)
    PROVE  Walk(d, a \o b) = Walk(Walk(d, a), b)
<1> DEFINE N == Len(b)
           e == Walk(d, a)
           p(i) == SubSeq(b, 1, i)
           T == {i \in 0..N : Walk(d, a \o p(i)) = Walk(e, p(i))}
<1>1. N \in Nat /\ e \in Dirs
  BY WalkType, LenProperties
<1>2. 0 \in T
  <2>1. p(0) = <<>> /\ a \o p(0) = a
    BY SubSeqEmpty, ConcatEmptySeq
  <2> HIDE DEF p
  <2>2. Walk(d, a \o p(0)) = Walk(e, p(0))
    BY <1>1, <2>1, WalkNowhere
  <2> QED
    BY <1>1, <2>2
<1>3. ASSUME NEW i \in 1..N, i - 1 \in T
      PROVE  i \in T
  <2> DEFINE q == p(i - 1)
             c == b[i]
             aq == a \o q
  <2>1. p(i) = Append(q, c) /\ q \in Seq(PathText) /\ c \in PathText
    BY FirstThenNext
  <2> HIDE DEF q, c
  <2>2. a \o Append(q, c) = Append(aq, c) /\ aq \in Seq(PathText)
    BY <2>1, AppendFurther, Zenon
  <2>3. Walk(d, Append(aq, c)) = Step(Walk(d, aq), c)
    BY <2>1, <2>2, WalkOn
  <2>4. Walk(e, Append(q, c)) = Step(Walk(e, q), c)
    BY <1>1, <2>1, WalkOn
  <2>5. Walk(d, aq) = Walk(e, q)
    BY <1>3 DEF q
  <2>6. Walk(d, a \o p(i)) = Walk(e, p(i))
    <3> HIDE DEF e, aq, p
    <3> QED
      BY <2>1, <2>2, <2>3, <2>4, <2>5
  <2>7. i \in 0..N
    BY <1>1
  <2> QED
    BY <2>6, <2>7
<1>4. \A i \in 0..N : i \in T
  <2> HIDE DEF T, N
  <2> QED
    BY <1>1, <1>2, <1>3, CountUp
<1>5. p(N) = b /\ N \in 0..N
  BY <1>1, SubSeqFull
<1>6. Walk(d, a \o p(N)) = Walk(e, p(N))
  <2> HIDE DEF p, e, N
  <2> QED
    BY <1>4, <1>5
<1> QED
  BY <1>5, <1>6

\* Names lead down, one after the other.
IsNames(ns) == ns \in Seq(PathText) /\ \A i \in 1..Len(ns) : IsName(ns[i])

LEMMA WalkNames ==
    ASSUME PathnameAssumption, NEW d \in Dirs, NEW ns, IsNames(ns)
    PROVE  Walk(d, ns) = d \o ns
<1> DEFINE N == Len(ns)
           p(i) == SubSeq(ns, 1, i)
           T == {i \in 0..N : Walk(d, p(i)) = d \o p(i)}
<1>1. N \in Nat /\ ns \in Seq(PathText) /\ d \in Seq(PathText)
  BY LenProperties DEF IsNames, Dirs
<1>2. 0 \in T
  <2>1. p(0) = <<>> /\ d \o p(0) = d
    BY <1>1, SubSeqEmpty, ConcatEmptySeq
  <2> HIDE DEF p
  <2>2. Walk(d, p(0)) = d \o p(0)
    BY <2>1, WalkNowhere
  <2> QED
    BY <1>1, <2>2
<1>3. ASSUME NEW i \in 1..N, i - 1 \in T
      PROVE  i \in T
  <2> DEFINE q == p(i - 1)
             c == ns[i]
             dq == d \o q
  <2>1. p(i) = Append(q, c) /\ q \in Seq(PathText) /\ c \in PathText
    BY <1>1, FirstThenNext
  <2>2. c # Root /\ c # DoubleDot
    BY Specials DEF IsNames
  <2> HIDE DEF q, c
  <2>3. d \o Append(q, c) = Append(dq, c) /\ dq \in Seq(PathText)
    BY <1>1, <2>1, AppendFurther, Zenon
  <2>4. Walk(d, Append(q, c)) = Step(Walk(d, q), c)
    BY <2>1, WalkOn
  <2>5. Walk(d, q) = dq
    BY <1>3 DEF q
  <2>6. dq \in Dirs /\ Step(dq, c) = Append(dq, c)
    BY <2>1, <2>2, <2>3, StepIs DEF Dirs
  <2>7. Walk(d, p(i)) = d \o p(i)
    <3> HIDE DEF dq, p
    <3> QED
      BY <2>1, <2>3, <2>4, <2>5, <2>6
  <2>8. i \in 0..N
    BY <1>1
  <2> QED
    BY <2>7, <2>8
<1>4. \A i \in 0..N : i \in T
  <2> HIDE DEF T, N
  <2> QED
    BY <1>1, <1>2, <1>3, CountUp
<1>5. p(N) = ns /\ N \in 0..N
  BY <1>1, SubSeqFull
<1>6. Walk(d, p(N)) = d \o p(N)
  <2> HIDE DEF p, N
  <2> QED
    BY <1>4, <1>5
<1> QED
  BY <1>5, <1>6

\* n times ".." leads n levels up.
LEMMA WalkUps ==
    ASSUME PathnameAssumption, NEW d \in Dirs, NEW n \in Nat
    PROVE  /\ DoubleDots(n) \in Seq(PathText) /\ Len(DoubleDots(n)) = n
           /\ Walk(d, DoubleDots(n)) = GoneUp(d, n)
<1> DEFINE cs == DoubleDots(n)
<1>1. /\ cs \in Seq(PathText) /\ Len(cs) = n
      /\ \A i \in 1..n : cs[i] = DoubleDot
  BY Specials DEF DoubleDots
<1> HIDE DEF cs
<1>2. PICK f \in [0..n -> Dirs] :
           /\ f[0] = d
           /\ \A i \in 1..n : f[i] = Step(f[i - 1], cs[i])
           /\ Walk(d, cs) = f[n]
  BY <1>1, WalkIs
<1> DEFINE G == {i \in 0..n : f[i] = GoneUp(d, i)}
<1>3. 0 \in G
  BY <1>2, UpNone DEF Dirs
<1>4. ASSUME NEW i \in 1..n, i - 1 \in G
      PROVE  i \in G
  <2> DEFINE j == i - 1
             u == GoneUp(d, j)
  <2>1. j \in Nat /\ j + 1 = i /\ f[i] = Step(f[j], cs[i]) /\ cs[i] = DoubleDot /\ f[j] = u
        /\ i \in 0..n
    BY <1>1, <1>2, <1>4
  <2> HIDE DEF j
  <2>2. u \in Dirs
    BY <2>1, GoneUpIs DEF Dirs
  <2>3. Step(u, DoubleDot) = GoneUp(u, 1)
    BY <2>2, Specials, StepIs
  <2>4. GoneUp(u, 1) = GoneUp(d, j + 1)
    BY <2>1, UpTwice DEF Dirs
  <2> HIDE DEF u
  <2> QED
    BY <2>1, <2>3, <2>4
<1>5. \A i \in 0..n : i \in G
  <2> HIDE DEF G
  <2> QED
    BY <1>3, <1>4, CountUp
<1>6. f[n] = GoneUp(d, n)
  BY <1>5
<1> QED
  BY <1>1, <1>2, <1>6 DEF cs

-----------------------------------------------------------------------------
(* Where a pathname leads                                                  *)

NamesOf(cs) == [i \in DOMAIN cs |-> cs[i].name]

LEMMA NamesAre ==
    ASSUME PathnameAssumption, NEW cs \in Seq(PathComp)
    PROVE  /\ IsNames(NamesOf(cs)) /\ NamesOf(cs) \in Seq(PathText) /\ Len(NamesOf(cs)) = Len(cs)
           /\ \A i \in 1..Len(cs) : NamesOf(cs)[i] = cs[i].name
<1> DEFINE N == Len(cs)
           ns == [i \in 1..N |-> cs[i].name]
<1>1. N \in Nat /\ DOMAIN cs = 1..N
  BY LenProperties
<1>2. \A i \in 1..N : cs[i] \in PathComp
  BY ElementOfSeq
<1> HIDE DEF N
<1>3. \A i \in 1..N : cs[i].name \in PathText /\ IsName(cs[i].name)
  BY <1>2 DEF PathComp
<1>4. ns \in Seq(PathText) /\ Len(ns) = N /\ \A i \in 1..N : ns[i] = cs[i].name
  BY <1>1, <1>3
<1>5. NamesOf(cs) = ns
  BY <1>1 DEF NamesOf
<1> HIDE DEF ns
<1>6. \A i \in 1..Len(ns) : IsName(ns[i])
  BY <1>3, <1>4
<1> QED
  BY <1>4, <1>5, <1>6 DEF IsNames, N

LEMMA NamesOfTwo ==
    ASSUME PathnameAssumption, NEW a \in Seq(PathComp), NEW b \in Seq(PathComp)
    PROVE  NamesOf(a \o b) = NamesOf(a) \o NamesOf(b)
<1> DEFINE c == a \o b
           nc == NamesOf(c)
           na == NamesOf(a)
           nb == NamesOf(b)
           t == na \o nb
<1>1. Len(a) \in Nat /\ Len(b) \in Nat
  BY LenProperties
<1>2. /\ c \in Seq(PathComp) /\ Len(c) = Len(a) + Len(b)
      /\ \A i \in 1..Len(a) + Len(b) : c[i] = IF i <= Len(a) THEN a[i] ELSE b[i - Len(a)]
  BY ConcatProperties
<1> HIDE DEF c
<1>3. /\ na \in Seq(PathText) /\ Len(na) = Len(a) /\ \A i \in 1..Len(a) : na[i] = a[i].name
      /\ nb \in Seq(PathText) /\ Len(nb) = Len(b) /\ \A i \in 1..Len(b) : nb[i] = b[i].name
      /\ nc \in Seq(PathText) /\ Len(nc) = Len(c) /\ \A i \in 1..Len(c) : nc[i] = c[i].name
  BY <1>2, NamesAre
<1> HIDE DEF na, nb, nc
<1>4. /\ t \in Seq(PathText) /\ Len(t) = Len(na) + Len(nb)
      /\ \A i \in 1..Len(na) + Len(nb) : t[i] = IF i <= Len(na) THEN na[i] ELSE nb[i - Len(na)]
  <2>1. na \in Seq(PathText) /\ nb \in Seq(PathText)
    BY <1>3
  <2> QED
    BY ONLY <2>1, ConcatProperties
<1> HIDE DEF t
<1>5. ASSUME NEW i \in 1..Len(nc)
      PROVE  nc[i] = t[i]
  <2>1. i \in 1..Len(c) /\ i \in 1..Len(a) + Len(b) /\ i \in 1..Len(na) + Len(nb)
    BY <1>2, <1>3
  <2>2. CASE i <= Len(a)
    <3>1. i \in 1..Len(a)
      BY <1>1, <2>1, <2>2
    <3>2. nc[i] = c[i].name /\ c[i] = a[i] /\ t[i] = na[i] /\ na[i] = a[i].name
      BY <1>2, <1>3, <1>4, <2>1, <2>2, <3>1
    <3> QED
      BY <3>2
  <2>3. CASE ~(i <= Len(a))
    <3> DEFINE j == i - Len(a)
    <3>1. j \in 1..Len(b)
      BY <1>1, <2>1, <2>3
    <3>2. c[i] = b[j] /\ t[i] = nb[j] /\ nc[i] = c[i].name
      BY <1>2, <1>3, <1>4, <2>1, <2>3
    <3> HIDE DEF j
    <3>3. nb[j] = b[j].name
      BY <1>3, <3>1
    <3> QED
      BY <3>2, <3>3
  <2> QED
    BY <2>2, <2>3
<1>6. nc = t
  BY <1>2, <1>3, <1>4, <1>5, SeqEqual
<1> QED
  BY <1>6 DEF nc, t, na, nb, c

LEMMA NamesGoneUp ==
    ASSUME PathnameAssumption, NEW cs \in Seq(PathComp), NEW n \in Nat
    PROVE  NamesOf(GoneUp(cs, n)) = GoneUp(NamesOf(cs), n)
<1> DEFINE u == GoneUp(cs, n)
           t == NamesOf(u)
           ns == NamesOf(cs)
<1>1. /\ u \in Seq(PathComp) /\ Len(u) = (IF n > Len(cs) THEN 0 ELSE Len(cs) - n)
      /\ Len(u) \in 0..Len(cs) /\ \A k \in 1..Len(u) : u[k] = cs[k]
  BY GoneUpIs
<1>2. Len(cs) \in Nat
  BY LenProperties
<1> HIDE DEF u
<1>3. /\ t \in Seq(PathText) /\ Len(t) = Len(u) /\ \A i \in 1..Len(u) : t[i] = u[i].name
      /\ ns \in Seq(PathText) /\ Len(ns) = Len(cs) /\ \A i \in 1..Len(cs) : ns[i] = cs[i].name
  BY <1>1, NamesAre
<1> HIDE DEF t, ns
<1>4. \A k \in 1..Len(t) : t[k] = ns[k]
  <2> TAKE k \in 1..Len(t)
  <2>1. k \in 1..Len(u) /\ k \in 1..Len(cs)
    BY <1>1, <1>2, <1>3
  <2> QED
    BY <1>1, <1>3, <2>1
<1>5. GoneUp(ns, n) = t
  BY <1>1, <1>3, <1>4, GoneUpEquals
<1> QED
  BY <1>5 DEF t, u, ns

\* The directory in which the names of a pathname are looked up
BaseOf(d, p) == IF p.up = UINT_MAX THEN <<>> ELSE GoneUp(d, p.up)

LEMMA DenotesIs ==
    ASSUME PathnameAssumption, NEW d \in Dirs, NEW p \in PathObject
    PROVE  /\ Denotes(d, p) = BaseOf(d, p) \o NamesOf(p.comps)
           /\ BaseOf(d, p) \in Dirs /\ Denotes(d, p) \in Dirs
<1>1. p.up \in Nat /\ p.comps \in Seq(PathComp)
  BY DEF PathObject, PathnameAssumption
<1>2. BaseOf(d, p) \in Dirs
  BY <1>1, GoneUpIs DEF BaseOf, Dirs
<1>3. NamesOf(p.comps) \in Seq(PathText) /\ IsNames(NamesOf(p.comps))
  BY <1>1, NamesAre
<1>4. BaseOf(d, p) \o NamesOf(p.comps) \in Dirs
  BY <1>2, <1>3, ConcatProperties DEF Dirs
<1>5. Names(p) = NamesOf(p.comps)
  BY DEF Names, NamesOf
<1>6. CASE p.up = UINT_MAX
  <2>1. <<>> \o NamesOf(p.comps) = NamesOf(p.comps)
    BY <1>3, ConcatEmptySeq
  <2> QED
    BY <1>2, <1>4, <1>5, <1>6, <2>1 DEF Denotes, IsAbsolute, Absolute, BaseOf
<1>7. CASE p.up # UINT_MAX
  BY <1>2, <1>4, <1>5, <1>7 DEF Denotes, IsAbsolute, Absolute, BaseOf, GoneUp
<1> QED
  BY <1>6, <1>7

\* The object that going up n levels gives
GoUpGives(p, n, q) ==
    /\ q \in PathObject
    /\ n <= Len(p.comps) => q.up = p.up /\ q.comps = GoneUp(p.comps, n)
    /\ n > Len(p.comps) => /\ q.comps = <<>>
                           /\ p.up = UINT_MAX => q.up = UINT_MAX
                           /\ p.up # UINT_MAX => q.up # UINT_MAX /\ q.up = p.up + (n - Len(p.comps))

\* Going up from a pathname is going up from where it leads.
LEMMA GoesUp ==
    ASSUME PathnameAssumption, NEW d \in Dirs, NEW p \in PathObject, NEW n \in Nat, NEW q, GoUpGives(p, n, q)
    PROVE  Denotes(d, q) = GoneUp(Denotes(d, p), n)
<1> DEFINE cs == p.comps
           ns == NamesOf(cs)
           b == BaseOf(d, p)
           l == Len(cs)
<1> USE DEF GoUpGives
<1>1. cs \in Seq(PathComp) /\ q.comps \in Seq(PathComp) /\ l \in Nat
  BY LenProperties DEF PathObject
<1>2. ns \in Seq(PathText) /\ Len(ns) = l
  BY <1>1, NamesAre
<1>3. b \in Seq(PathText) /\ Denotes(d, p) = b \o ns
  BY DenotesIs DEF Dirs
<1>4. Denotes(d, q) = BaseOf(d, q) \o NamesOf(q.comps) /\ BaseOf(d, q) \in Seq(PathText)
  BY DenotesIs DEF Dirs
<1>5. CASE n <= l
  <2>1. NamesOf(q.comps) = GoneUp(ns, n)
    BY <1>1, <1>5, NamesGoneUp
  <2>2. BaseOf(d, q) = b
    BY <1>5 DEF BaseOf
  <2> HIDE DEF b, ns
  <2>3. GoneUp(b \o ns, n) = b \o GoneUp(ns, n)
    BY <1>2, <1>3, <1>5, UpWithin
  <2> QED
    BY <1>3, <1>4, <2>1, <2>2, <2>3
<1>6. CASE n > l
  <2> DEFINE m == n - l
  <2>1. m \in Nat /\ n >= l
    BY <1>1, <1>6
  <2>2. GoneUp(b, m) = BaseOf(d, q)
    <3>1. CASE p.up = UINT_MAX
      <4>1. b = <<>> /\ BaseOf(d, q) = <<>>
        BY <1>6, <3>1 DEF BaseOf
      <4>2. Len(b) = 0
        BY <4>1
      <4>3. b \in Seq(PathText)
        BY <1>3
      <4> HIDE DEF b, m
      <4>4. m >= Len(b)
        BY <2>1, <4>2
      <4>5. GoneUp(b, m) = <<>>
        BY ONLY <2>1, <4>3, <4>4, UpAll
      <4> QED
        BY <4>1, <4>5
    <3>2. CASE p.up # UINT_MAX
      <4>1. b = GoneUp(d, p.up) /\ BaseOf(d, q) = GoneUp(d, p.up + m)
        BY <1>6, <3>2 DEF BaseOf
      <4>2. p.up \in Nat
        BY DEF PathObject, PathnameAssumption
      <4>3. GoneUp(GoneUp(d, p.up), m) = GoneUp(d, p.up + m)
        BY <2>1, <4>2, UpTwice DEF Dirs
      <4> QED
        BY <4>1, <4>3
    <3> QED
      BY <3>1, <3>2
  <2>3. NamesOf(q.comps) = <<>>
    BY <1>6 DEF NamesOf
  <2> HIDE DEF b, ns
  <2>4. GoneUp(b \o ns, n) = GoneUp(b, n - Len(ns))
    BY <1>2, <1>3, <2>1, UpBeyond
  <2>5. BaseOf(d, q) \o <<>> = BaseOf(d, q)
    BY <1>4, ConcatEmptySeq
  <2> QED
    BY <1>2, <1>3, <1>4, <2>2, <2>3, <2>4, <2>5
<1> QED
  BY <1>1, <1>5, <1>6

\* Components that are appended lead down.
IsBelow(j, q, cs)       == j.up = q.up /\ j.comps = q.comps \o cs
LeadsBelow(d, j, q, cs) == Denotes(d, j) = Denotes(d, q) \o NamesOf(cs)

LEMMA GoesDown ==
    ASSUME PathnameAssumption, NEW d \in Dirs, NEW q \in PathObject, NEW cs \in Seq(PathComp), NEW j \in PathObject,
           IsBelow(j, q, cs)
    PROVE  LeadsBelow(d, j, q, cs)
<1>1. /\ Denotes(d, q) = BaseOf(d, q) \o NamesOf(q.comps) /\ BaseOf(d, q) \in Dirs
      /\ Denotes(d, j) = BaseOf(d, j) \o NamesOf(j.comps)
  BY DenotesIs
<1>2. q.comps \in Seq(PathComp)
  BY DEF PathObject
<1>3. NamesOf(j.comps) = NamesOf(q.comps) \o NamesOf(cs)
  BY <1>2, NamesOfTwo DEF IsBelow
<1>4. BaseOf(d, j) = BaseOf(d, q)
  BY DEF BaseOf, IsBelow
<1>5. NamesOf(q.comps) \in Seq(PathText) /\ NamesOf(cs) \in Seq(PathText)
  BY <1>2, NamesAre
<1>6. (BaseOf(d, q) \o NamesOf(q.comps)) \o NamesOf(cs) = BaseOf(d, q) \o (NamesOf(q.comps) \o NamesOf(cs))
  <2>1. BaseOf(d, q) \in Seq(PathText)
    BY <1>1 DEF Dirs
  <2> QED
    <3>1. Associates(BaseOf(d, q), NamesOf(q.comps), NamesOf(cs))
      BY <1>5, <2>1, Association
    <3> QED
      BY <3>1 DEF Associates
<1> QED
  BY <1>1, <1>3, <1>4, <1>6 DEF LeadsBelow

LEMMA LevelBounds ==
    ASSUME PathnameAssumption
    PROVE  /\ UINT_MAX \in Nat /\ MaxLevels \in Nat /\ MaxText \in Nat
           /\ MaxLevels + MaxLevels < UINT_MAX /\ MaxLevels + MaxText < UINT_MAX
           /\ Absolute = UINT_MAX
           /\ \A n \in 0..UINT_MAX : Wrapped(n) = n
<1>1. /\ UINT_MAX \in Nat /\ MaxLevels \in Nat /\ MaxText \in Nat
      /\ MaxLevels + MaxLevels < UINT_MAX /\ MaxLevels + MaxText < UINT_MAX
  BY DEF PathnameAssumption
<1>2. \A n \in 0..UINT_MAX : n % (UINT_MAX + 1) = n
  BY <1>1
<1> QED
  BY <1>1, <1>2 DEF Absolute, Wrapped

LEMMA GoUpOneIs ==
    ASSUME PathnameAssumption, NEW p \in PathObject, p.up = UINT_MAX \/ p.up + 1 < UINT_MAX
    PROVE  LET q == GoUpOneLevel(p)
           IN  /\ q \in PathObject
               /\ \A d \in Dirs : Denotes(d, q) = GoneUp(Denotes(d, p), 1)
               /\ q.up = UINT_MAX <=> p.up = UINT_MAX
               /\ p.up # UINT_MAX => q.up <= p.up + 1
<1> DEFINE q == GoUpOneLevel(p)
           cs == p.comps
<1>1. /\ p.up \in 0..UINT_MAX /\ cs \in Seq(PathComp) /\ p.file \in BOOLEAN
      /\ p = [up |-> p.up, comps |-> cs, file |-> p.file]
  BY DEF PathObject
<1>2. UINT_MAX \in Nat /\ Absolute = UINT_MAX /\ \A n \in 0..UINT_MAX : Wrapped(n) = n
  BY LevelBounds
<1>3. Len(cs) \in Nat /\ (cs = <<>> => Len(cs) = 0) /\ (cs # <<>> => Len(cs) > 0)
  BY <1>1, LenProperties, EmptySeq
<1>4. CASE cs # <<>>
  <2>1. q.up = p.up /\ q.comps = Front(cs) /\ q = [up |-> p.up, comps |-> Front(cs), file |-> FALSE]
    BY <1>1, <1>4 DEF GoUpOneLevel
  <2>2. Front(cs) = GoneUp(cs, 1)
    BY <1>3, <1>4 DEF Front, GoneUp
  <2>3. GoneUp(cs, 1) \in Seq(PathComp)
    BY <1>1, GoneUpIs
  <2>4. q \in PathObject
    BY <1>1, <2>1, <2>2, <2>3 DEF PathObject
  <2>5. 1 <= Len(cs) /\ ~(1 > Len(cs))
    BY <1>3, <1>4
  <2>6. 1 <= Len(p.comps) => q.up = p.up /\ q.comps = GoneUp(p.comps, 1)
    BY <2>1, <2>2
  <2>7. GoUpGives(p, 1, q)
    BY <2>4, <2>5, <2>6 DEF GoUpGives
  <2> HIDE DEF q
  <2>8. \A d \in Dirs : Denotes(d, q) = GoneUp(Denotes(d, p), 1)
    BY <2>7, GoesUp
  <2> QED
    <3>1. p.up \in Nat /\ q.up <= p.up + 1 /\ (q.up = UINT_MAX <=> p.up = UINT_MAX)
      BY <1>1, <1>2, <2>1
    <3> QED
      BY ONLY <2>4, <2>8, <3>1 DEF q
<1>5. CASE cs = <<>>
  <2> DEFINE u == IF p.up = UINT_MAX THEN p.up ELSE p.up + 1
  <2>1. q = [up |-> u, comps |-> cs, file |-> FALSE]
    <3>1. p.up # UINT_MAX => p.up + 1 \in 0..UINT_MAX
      BY <1>1, <1>2
    <3>2. (IF p.up = Absolute THEN p.up ELSE Wrapped(p.up + 1)) = u
      BY <1>2, <3>1
    <3>3. q = [p EXCEPT !.up = IF @ = Absolute THEN @ ELSE Wrapped(@ + 1), !.file = FALSE]
      BY <1>5 DEF GoUpOneLevel
    <3> HIDE DEF q, u
    <3> QED
      BY <1>1, <3>2, <3>3
  <2>2. u \in 0..UINT_MAX /\ (u = UINT_MAX <=> p.up = UINT_MAX) /\ (p.up # UINT_MAX => u <= p.up + 1)
    BY <1>1, <1>2
  <2>3. q.up = u /\ q.comps = <<>> /\ q \in PathObject
    BY <1>1, <1>5, <2>1, <2>2 DEF PathObject
  <2>4. Len(cs) = 0 /\ p.up \in Int
    BY <1>1, <1>3, <1>5
  <2>5. p.up = UINT_MAX => q.up = UINT_MAX
    BY <2>2, <2>3
  <2>6. p.up # UINT_MAX => q.up # UINT_MAX /\ q.up = p.up + (1 - Len(p.comps))
    BY <2>2, <2>3, <2>4
  <2>7. GoUpGives(p, 1, q)
    BY <2>3, <2>4, <2>5, <2>6 DEF GoUpGives
  <2> HIDE DEF q, u
  <2>8. \A d \in Dirs : Denotes(d, q) = GoneUp(Denotes(d, p), 1)
    BY <2>7, GoesUp
  <2> QED
    BY <2>2, <2>3, <2>8 DEF q
<1> QED
  BY <1>4, <1>5

LEMMA GoUpIs ==
    ASSUME PathnameAssumption, NEW p \in PathObject, NEW n \in Nat, p.up = UINT_MAX \/ p.up + n < UINT_MAX
    PROVE  GoUpGives(p, n, GoUp(p, n)) /\ GoUp(p, n).file = FALSE
<1> DEFINE q == GoUp(p, n)
           cs == p.comps
<1>1. /\ p.up \in 0..UINT_MAX /\ cs \in Seq(PathComp) /\ p.file \in BOOLEAN
      /\ p = [up |-> p.up, comps |-> cs, file |-> p.file]
  BY DEF PathObject
<1>2. UINT_MAX \in Nat /\ Absolute = UINT_MAX /\ \A k \in 0..UINT_MAX : Wrapped(k) = k
  BY LevelBounds
<1>3. Len(cs) \in Nat
  BY <1>1, LenProperties
<1>4. CASE n <= Len(cs)
  <2>1. Len(cs) >= n /\ ~(n > Len(cs))
    BY <1>3, <1>4
  <2>2. q = [up |-> p.up, comps |-> GoneUp(cs, n), file |-> FALSE]
    BY <1>1, <2>1 DEF GoUp, GoneUp
  <2>3. GoneUp(cs, n) \in Seq(PathComp)
    BY <1>1, GoneUpIs
  <2> HIDE DEF q
  <2>4. q \in PathObject /\ q.up = p.up /\ q.comps = GoneUp(cs, n) /\ q.file = FALSE
    BY <1>1, <2>2, <2>3 DEF PathObject
  <2> QED
    BY <2>1, <2>4 DEF GoUpGives, q
<1>5. CASE n > Len(cs)
  <2> DEFINE u == IF p.up = UINT_MAX THEN p.up ELSE p.up + (n - Len(cs))
  <2>1. ~(Len(cs) >= n) /\ ~(n <= Len(cs))
    BY <1>3, <1>5
  <2>2. u \in 0..UINT_MAX /\ (u = UINT_MAX <=> p.up = UINT_MAX)
    BY <1>1, <1>2, <1>3, <1>5
  <2>3. p.up # UINT_MAX => Wrapped(p.up + n - Len(cs)) = p.up + (n - Len(cs))
    BY <1>1, <1>2, <1>3, <1>5
  <2>4. q = [up |-> u, comps |-> <<>>, file |-> FALSE]
    BY <1>2, <2>1, <2>3 DEF GoUp, IsAbsolute
  <2>5. q \in PathObject /\ q.up = u /\ q.comps = <<>> /\ q.file = FALSE
    <3> HIDE DEF u, q
    <3> QED
      BY <2>2, <2>4 DEF PathObject
  <2>6. p.up = UINT_MAX => q.up = UINT_MAX
    BY <2>5
  <2>7. p.up # UINT_MAX => q.up # UINT_MAX /\ q.up = p.up + (n - Len(p.comps))
    BY <2>2, <2>5
  <2> HIDE DEF q, u
  <2>8. GoUpGives(p, n, q)
    BY ONLY <1>5, <2>1, <2>5, <2>6, <2>7 DEF GoUpGives
  <2> QED
    BY <2>5, <2>8 DEF q
<1>6. n <= Len(cs) \/ n > Len(cs)
  BY <1>3
<1> QED
  BY ONLY <1>4, <1>5, <1>6

\* What overwriting the last n components, and removing the remaining ones, gives
LEMMA OverwrittenIs ==
    ASSUME PathnameAssumption, NEW cs \in Seq(PathComp), NEW t \in Seq(PathComp), NEW n \in 0..Len(cs)
    PROVE  LET over == Overwritten(cs, Len(cs) - n, t)
               remainder == IF n > Len(t) THEN n - Len(t) ELSE 0
           IN  SubSeq(over, 1, Len(over) - remainder) = GoneUp(cs, n) \o t
<1> DEFINE L == Len(cs)
           a == GoneUp(cs, n)
           i == L - n + Len(t)
           r == IF n > Len(t) THEN n - Len(t) ELSE 0
           c == SubSeq(cs, i + 1, L)
           b == a \o t
           over == b \o c
<1>1. L \in Nat /\ n \in Nat /\ n <= L /\ ~(n > L) /\ Len(t) \in Nat /\ r \in Nat /\ i \in Nat
      /\ (i <= L => i + r = L) /\ (i > L => r = 0)
  <2>1. L \in Nat /\ Len(t) \in Nat
    BY LenProperties
  <2>2. n \in Nat /\ n <= L /\ ~(n > L)
    BY <2>1
  <2>3. i \in Nat
    BY <2>1, <2>2
  <2>4. r \in Nat
    BY <2>1, <2>2
  <2>5. i <= L => i + r = L
    <3>1. CASE n > Len(t)
      <4>1. r = n - Len(t)
        BY <3>1
      <4> HIDE DEF r, L
      <4> QED
        BY <2>1, <2>2, <4>1
    <3>2. CASE ~(n > Len(t))
      <4>1. r = 0
        BY <3>2
      <4> HIDE DEF r, L
      <4> QED
        BY <2>1, <2>2, <3>2, <4>1
    <3> QED
      BY <3>1, <3>2
  <2>6. i > L => r = 0
    BY <2>1, <2>2
  <2> QED
    BY <2>1, <2>2, <2>3, <2>4, <2>5, <2>6
<1> HIDE DEF i, r
<1>2. a \in Seq(PathComp) /\ Len(a) = L - n
  BY <1>1, GoneUpIs
<1>3. c \in Seq(PathComp) /\ Len(c) = r
  <2>1. CASE i <= L
    <3>1. i + r <= L /\ i + r = L
      BY <1>1, <2>1
    <3>2. SubSeq(cs, i + 1, i + r) \in Seq(PathComp) /\ Len(SubSeq(cs, i + 1, i + r)) = r
      BY <1>1, <3>1, PartFacts
    <3> QED
      BY <3>1, <3>2
  <2>2. CASE i > L
    <3>1. L < i + 1 /\ r = 0
      BY <1>1, <2>2
    <3>2. c = <<>>
      BY <1>1, <3>1, SubSeqEmpty
    <3> HIDE DEF c
    <3>3. c \in Seq(PathComp) /\ Len(c) = 0
      BY <3>2
    <3> QED
      BY <3>1, <3>3
  <2> QED
    BY <1>1, <2>1, <2>2
<1>4. b \in Seq(PathComp) /\ Len(b) \in Nat
  BY <1>2, ConcatProperties, LenProperties
<1>5. Overwritten(cs, L - n, t) = over
  BY <1>1 DEF Overwritten, GoneUp, i
<1>6. over \in Seq(PathComp) /\ Len(over) = Len(b) + r
  <2> HIDE DEF b, c
  <2> QED
    BY <1>3, <1>4, ConcatProperties
<1>7. GoneUp(over, r) = b
  <2> DEFINE e == GoneUp(c, r)
  <2>1. r \in Nat /\ r <= Len(c) /\ r >= Len(c)
    BY <1>1, <1>3
  <2>2. GoneUp(b \o c, r) = b \o e
    <3> HIDE DEF b, c
    <3>1. /\ r \in Nat /\ r <= Len(c)
          /\ b \in Seq(PathComp) /\ c \in Seq(PathComp)
      BY <1>3, <1>4, <2>1
    <3> QED
      BY ONLY <3>1, UpWithin, Zenon
  <2>3. e = <<>>
    <3> HIDE DEF c
    <3> QED
      BY ONLY <1>3, <2>1, UpAll
  <2> HIDE DEF b, c, e
  <2>4. b \o e = b
    BY <1>4, <2>3, ConcatEmptySeq
  <2> QED
    BY ONLY <2>2, <2>4
<1>8. SubSeq(over, 1, Len(over) - r) = GoneUp(over, r)
  <2> HIDE DEF over, b
  <2>1. ~(r > Len(over))
    BY <1>1, <1>4, <1>6
  <2> QED
    BY <2>1 DEF GoneUp
<1> HIDE DEF over, b, a
<1> QED
  BY <1>5, <1>7, <1>8 DEF b, r, a, L

\* Joining goes up, then down.
LEMMA JoinPathIs ==
    ASSUME PathnameAssumption, NEW p \in PathObject, NEW rhs \in PathObject, rhs.up # UINT_MAX,
           p.up = UINT_MAX \/ p.up + rhs.up < UINT_MAX
    PROVE  LET q == GoUp(p, rhs.up)
               j == JoinPath(p, rhs)
           IN  /\ GoUpGives(p, rhs.up, q)
               /\ j = [up |-> q.up, comps |-> q.comps \o rhs.comps, file |-> rhs.file]
               /\ j \in PathObject
<1> DEFINE q == GoUp(p, rhs.up)
           j == JoinPath(p, rhs)
           cs == p.comps
           t == rhs.comps
           n == rhs.up
<1>1. /\ p.up \in 0..UINT_MAX /\ cs \in Seq(PathComp) /\ p.file \in BOOLEAN
      /\ p = [up |-> p.up, comps |-> cs, file |-> p.file]
      /\ n \in 0..UINT_MAX /\ t \in Seq(PathComp) /\ rhs.file \in BOOLEAN
  BY DEF PathObject
<1>2. UINT_MAX \in Nat /\ Absolute = UINT_MAX /\ \A k \in 0..UINT_MAX : Wrapped(k) = k
  BY LevelBounds
<1>3. Len(cs) \in Nat /\ n \in Nat /\ ~IsAbsolute(rhs)
  BY <1>1, <1>2, LenProperties DEF IsAbsolute
<1>4. GoUpGives(p, n, q)
  BY <1>3, GoUpIs
<1>5. q \in PathObject /\ q.comps \in Seq(PathComp) /\ q.up \in 0..UINT_MAX
  BY <1>4 DEF GoUpGives, PathObject
<1> HIDE DEF q
<1>6. j = [up |-> q.up, comps |-> q.comps \o t, file |-> rhs.file]
  <2>1. CASE n = 0
    <3>1. q.up = p.up /\ q.comps = cs
      BY <1>1, <1>3, <1>4, <2>1, UpNone DEF GoUpGives
    <3>2. j = [p EXCEPT !.comps = @ \o t, !.file = rhs.file]
      BY <1>3, <2>1 DEF JoinPath
    <3> HIDE DEF j
    <3> QED
      BY <1>1, <3>1, <3>2
  <2>2. CASE n # 0 /\ Len(cs) <= n
    <3>1. q.comps = <<>>
      BY <1>1, <1>3, <1>4, <2>2, UpAll DEF GoUpGives
    <3>2. q.up = IF p.up = UINT_MAX THEN p.up ELSE Wrapped(p.up + n - Len(cs))
      <4>1. CASE p.up = UINT_MAX
        BY <1>3, <1>4, <2>2, <4>1 DEF GoUpGives
      <4>2. CASE p.up # UINT_MAX
        <5>1. p.up + n - Len(cs) \in 0..UINT_MAX
          BY <1>1, <1>2, <1>3, <2>2, <4>2
        <5>2. q.up = p.up + n - Len(cs)
          <6>1. CASE n = Len(cs)
            BY <1>1, <1>3, <1>4, <6>1 DEF GoUpGives
          <6>2. CASE n > Len(cs)
            <7>1. q.up = p.up + (n - Len(cs))
              BY <1>4, <4>2, <6>2 DEF GoUpGives
            <7> QED
              BY <1>1, <1>3, <7>1
          <6> QED
            BY <1>3, <2>2, <6>1, <6>2
        <5> QED
          BY <1>2, <4>2, <5>1, <5>2
      <4> QED
        BY <4>1, <4>2
    <3>3. q.comps \o t = t
      BY <1>1, <3>1, ConcatEmptySeq
    <3>4. j = [up |-> IF IsAbsolute(p) THEN p.up ELSE Wrapped(p.up + n - Len(cs)),
               comps |-> t, file |-> rhs.file]
      BY <1>3, <2>2 DEF JoinPath
    <3> HIDE DEF j
    <3> QED
      BY <1>2, <3>2, <3>3, <3>4 DEF IsAbsolute
  <2>3. CASE n # 0 /\ ~(Len(cs) <= n)
    <3> DEFINE over == Overwritten(cs, Len(cs) - n, t)
               r == IF n > Len(t) THEN n - Len(t) ELSE 0
               k == SubSeq(over, 1, Len(over) - r)
    <3>1. q.up = p.up /\ q.comps = GoneUp(cs, n) /\ n \in 0..Len(cs)
      BY <1>3, <1>4, <2>3 DEF GoUpGives
    <3>2. k = GoneUp(cs, n) \o t
      BY <1>1, <3>1, OverwrittenIs
    <3>3. j = [p EXCEPT !.comps = k, !.file = rhs.file]
      BY <1>3, <2>3 DEF JoinPath
    <3> HIDE DEF j, k
    <3> QED
      BY <1>1, <3>1, <3>2, <3>3
  <2> QED
    BY <2>1, <2>2, <2>3
<1> HIDE DEF j
<1>7. q.comps \o t \in Seq(PathComp)
  BY <1>1, <1>5, ConcatProperties
<1>8. j \in PathObject
  BY <1>1, <1>5, <1>6, <1>7 DEF PathObject
<1> QED
  BY <1>4, <1>6, <1>8 DEF j, q

LEMMA JoinsPaths ==
    ASSUME PathnameAssumption, NEW p \in PathObject, NEW rhs \in PathObject,
           rhs.up = UINT_MAX \/ p.up = UINT_MAX \/ p.up + rhs.up < UINT_MAX
    PROVE  /\ JoinPath(p, rhs) \in PathObject
           /\ \A d \in Dirs : Denotes(d, JoinPath(p, rhs)) = Denotes(Denotes(d, p), rhs)
<1> DEFINE j == JoinPath(p, rhs)
<1>1. CASE rhs.up = UINT_MAX
  <2>1. j = rhs
    BY <1>1, LevelBounds DEF JoinPath, IsAbsolute
  <2>2. ASSUME NEW d \in Dirs
        PROVE  Denotes(d, rhs) = Denotes(Denotes(d, p), rhs)
    <3>1. Denotes(d, p) \in Dirs
      BY DenotesIs
    <3> DEFINE e == Denotes(d, p)
    <3> HIDE DEF e
    <3>2. Denotes(d, rhs) = BaseOf(d, rhs) \o NamesOf(rhs.comps)
      BY DenotesIs
    <3>3. Denotes(e, rhs) = BaseOf(e, rhs) \o NamesOf(rhs.comps)
      BY <3>1, DenotesIs DEF e
    <3> QED
      BY <1>1, <3>2, <3>3 DEF BaseOf, e
  <2> QED
    BY <2>1, <2>2
<1>2. CASE rhs.up # UINT_MAX
  <2> DEFINE q == GoUp(p, rhs.up)
  <2>1. /\ GoUpGives(p, rhs.up, q)
        /\ j = [up |-> q.up, comps |-> q.comps \o rhs.comps, file |-> rhs.file]
        /\ j \in PathObject
    BY <1>2, JoinPathIs
  <2>2. rhs.up \in Nat /\ rhs.comps \in Seq(PathComp)
    BY LevelBounds DEF PathObject
  <2> HIDE DEF q, j
  <2>3. q \in PathObject /\ j.up = q.up /\ j.comps = q.comps \o rhs.comps
    BY <2>1 DEF GoUpGives
  <2>4. ASSUME NEW d \in Dirs
        PROVE  Denotes(d, j) = Denotes(Denotes(d, p), rhs)
    <3> DEFINE e == Denotes(d, p)
    <3>1. e \in Dirs
      BY DenotesIs
    <3>2. Denotes(d, q) = GoneUp(e, rhs.up)
      BY <2>1, <2>2, GoesUp
    <3> HIDE DEF e
    <3>3. Denotes(d, j) = Denotes(d, q) \o NamesOf(rhs.comps)
      <4>1. rhs.comps \in Seq(PathComp) /\ q \in PathObject /\ j \in PathObject
            /\ IsBelow(j, q, rhs.comps)
        BY <2>1, <2>2, <2>3 DEF IsBelow
      <4>2. LeadsBelow(d, j, q, rhs.comps)
        BY <4>1, GoesDown
      <4> QED
        BY <4>2 DEF LeadsBelow
    <3>4. Denotes(e, rhs) = BaseOf(e, rhs) \o NamesOf(rhs.comps)
      BY <3>1, DenotesIs
    <3> QED
      BY <1>2, <3>2, <3>3, <3>4 DEF BaseOf, e
  <2> QED
    BY <2>1, <2>4 DEF j
<1> QED
  BY <1>1, <1>2

-----------------------------------------------------------------------------
(* relative_to()                                                           *)

LEMMA GreatestNatural ==
    ASSUME PathnameAssumption, NEW N \in Nat, NEW T \in SUBSET (0..N), T # {}
    PROVE  \E n \in T : \A m \in T : m <= n
<1> DEFINE R == {k \in 0..N : N - k \in T}
<1>1. R \in SUBSET Nat
  OBVIOUS
<1>2. R # {}
  <2>1. PICK m \in T : TRUE
    OBVIOUS
  <2>2. m \in 0..N /\ N - m \in 0..N /\ N - (N - m) = m
    OBVIOUS
  <2> QED
    BY <2>1, <2>2
<1>3. PICK k \in R : \A j \in R : k <= j
  BY <1>1, <1>2, LeastNatural
<1>4. N - k \in T
  BY <1>3
<1>5. ASSUME NEW m \in T
      PROVE  m <= N - k
  <2>1. m \in 0..N /\ N - m \in 0..N /\ N - (N - m) = m
    OBVIOUS
  <2>2. N - m \in R
    BY <2>1
  <2>3. k <= N - m /\ k \in 0..N
    BY <1>3, <2>2
  <2> QED
    BY <2>1, <2>3
<1> QED
  BY <1>4, <1>5

LEMMA EqualIs ==
    ASSUME PathnameAssumption, NEW p \in PathObject, NEW base \in PathObject
    PROVE  LET n == Equal(p, base)
           IN  /\ n \in 0..Len(p.comps) /\ n <= Len(base.comps)
               /\ \A i \in 1..n : p.comps[i].name = base.comps[i].name
<1> DEFINE common == {n \in 0..Len(p.comps) :
                         /\ n <= Len(base.comps)
                         /\ \A i \in 1..n : p.comps[i].name = base.comps[i].name}
           n == CHOOSE n \in common : \A m \in common : m <= n
<1>1. Len(p.comps) \in Nat /\ Len(base.comps) \in Nat
  BY LenProperties DEF PathObject
<1>2. 0 \in common
  BY <1>1
<1>3. common \in SUBSET (0..Len(p.comps)) /\ common # {}
  BY <1>2
<1>4. Equal(p, base) = n
  BY DEF Equal
<1>5. n \in common
  <2> HIDE DEF common
  <2>1. \E k \in common : \A m \in common : m <= k
    BY <1>1, <1>3, GreatestNatural
  <2> QED
    BY <2>1
<1> HIDE DEF n
<1> QED
  BY <1>4, <1>5

\* Components with the same name are the same.
LEMMA SameName ==
    ASSUME PathnameAssumption, NEW c \in PathComp, NEW e \in PathComp, c.name = e.name
    PROVE  c = e
<1>1. c = [name |-> c.name, base |-> c.base] /\ e = [name |-> e.name, base |-> e.base]
  BY DEF PathComp
<1>2. c.base = e.base
  BY DEF PathComp
<1> QED
  BY <1>1, <1>2

\* What an object within the bounds has
Bounded(p) == /\ p \in PathObject
              /\ p.up \in 0..MaxLevels \/ p.up = UINT_MAX
              /\ Len(p.comps) <= MaxText

LEMMA RelativeToIs ==
    ASSUME PathnameAssumption, NEW p, NEW base, Bounded(p), Bounded(base), Relatable(p, base)
    PROVE  LET r == RelativeTo(p, base)
           IN  r \in PathObject /\ r.up # UINT_MAX /\ JoinPath(base, r) = p
<1> DEFINE r == RelativeTo(p, base)
           cs == p.comps
           bs == base.comps
           n == Equal(p, base)
<1>1. /\ p \in PathObject /\ p.up \in 0..UINT_MAX /\ cs \in Seq(PathComp) /\ p.file \in BOOLEAN
      /\ p = [up |-> p.up, comps |-> cs, file |-> p.file]
      /\ base \in PathObject /\ base.up \in 0..UINT_MAX /\ bs \in Seq(PathComp)
  BY DEF Bounded, PathObject
<1>2. /\ UINT_MAX \in Nat /\ MaxLevels \in Nat /\ MaxText \in Nat
      /\ MaxLevels + MaxText < UINT_MAX
      /\ Absolute = UINT_MAX /\ \A k \in 0..UINT_MAX : Wrapped(k) = k
  BY LevelBounds
<1>3. Len(cs) \in Nat /\ Len(bs) \in Nat /\ Len(bs) <= MaxText /\ Len(cs) <= MaxText
  BY <1>1, LenProperties DEF Bounded
<1>4. base.up <= p.up /\ (p.up = UINT_MAX <=> base.up = UINT_MAX)
  BY <1>2 DEF Relatable, IsAbsolute
<1>5. /\ p.up \in 0..MaxLevels \/ p.up = UINT_MAX
      /\ base.up \in 0..MaxLevels \/ base.up = UINT_MAX
  BY DEF Bounded
<1>6. CASE base.up < p.up
  <2> DEFINE u == p.up - base.up + Len(bs)
  <2>1. p.up \in 0..MaxLevels /\ base.up \in 0..MaxLevels /\ p.up # UINT_MAX /\ base.up # UINT_MAX
    BY <1>1, <1>2, <1>4, <1>5, <1>6
  <2>2. /\ u \in 0..UINT_MAX /\ u # UINT_MAX /\ base.up + u < UINT_MAX /\ u > Len(bs)
        /\ base.up + (u - Len(bs)) = p.up
    BY <1>2, <1>3, <1>6, <2>1
  <2>3. r = [p EXCEPT !.up = Wrapped(@ - base.up + Len(bs))]
    BY <1>6 DEF RelativeTo
  <2>4. Wrapped(p.up - base.up + Len(bs)) = u
    BY <1>2, <2>2
  <2> HIDE DEF r, u
  <2>5. r = [up |-> u, comps |-> cs, file |-> p.file]
    BY <1>1, <2>3, <2>4
  <2>6. r \in PathObject /\ r.up = u /\ r.comps = cs /\ r.file = p.file
    BY <1>1, <2>2, <2>5 DEF PathObject
  <2> DEFINE q == GoUp(base, r.up)
             j == JoinPath(base, r)
  <2>7. GoUpGives(base, r.up, q) /\ j = [up |-> q.up, comps |-> q.comps \o r.comps, file |-> r.file]
    BY <1>1, <2>2, <2>6, JoinPathIs
  <2> HIDE DEF q, j
  <2>8. q.comps = <<>> /\ q.up = p.up
    BY <2>1, <2>2, <2>6, <2>7 DEF GoUpGives
  <2>9. q.comps \o r.comps = cs
    BY <1>1, <2>6, <2>8, ConcatEmptySeq
  <2>10. j = p
    BY <1>1, <2>6, <2>7, <2>8, <2>9
  <2> QED
    BY <2>2, <2>6, <2>10 DEF r, j
<1>7. CASE ~(base.up < p.up)
  <2> DEFINE u == Len(bs) - n
             rest == SubSeq(cs, n + 1, Len(cs))
  <2>1. base.up = p.up
    BY <1>1, <1>2, <1>4, <1>7
  <2>2. /\ n \in 0..Len(cs) /\ n <= Len(bs)
        /\ \A i \in 1..n : cs[i].name = bs[i].name
    BY <1>1, EqualIs
  <2>3. r = [p EXCEPT !.up = u, !.comps = rest]
    BY <1>7 DEF RelativeTo
  <2> HIDE DEF n, r
  <2>4. /\ u \in 0..UINT_MAX /\ u # UINT_MAX /\ u \in Nat
        /\ base.up = UINT_MAX \/ base.up + u < UINT_MAX
        /\ u <= Len(bs) /\ ~(u > Len(bs)) /\ Len(bs) - u = n
    <3>1. n \in 0..Len(cs) /\ n <= Len(bs)
      BY <2>2
    <3> QED
      BY <1>2, <1>3, <1>5, <3>1
  <2>5. rest \in Seq(PathComp)
    <3> DEFINE m == Len(cs) - n
    <3>1. n \in Nat /\ m \in Nat /\ n + m = Len(cs)
      BY <1>3, <2>2
    <3> HIDE DEF m
    <3>2. n + m <= Len(cs)
      BY <1>3, <3>1
    <3>3. SubSeq(cs, n + 1, n + m) \in Seq(PathComp)
      BY <1>1, <3>1, <3>2, PartFacts
    <3> QED
      BY <3>1, <3>3
  <2> HIDE DEF u, rest
  <2>6. r = [up |-> u, comps |-> rest, file |-> p.file]
    BY <1>1, <2>3
  <2>7. r \in PathObject /\ r.up = u /\ r.comps = rest /\ r.file = p.file
    BY <1>1, <2>4, <2>5, <2>6 DEF PathObject
  <2> DEFINE q == GoUp(base, r.up)
             j == JoinPath(base, r)
             g == GoneUp(bs, u)
             first == SubSeq(cs, 1, n)
  <2>8. GoUpGives(base, r.up, q) /\ j = [up |-> q.up, comps |-> q.comps \o r.comps, file |-> r.file]
    BY <1>1, <2>4, <2>7, JoinPathIs
  <2> HIDE DEF q, j
  <2>9. q.comps = g /\ q.up = p.up
    BY <2>1, <2>4, <2>7, <2>8 DEF GoUpGives
  <2>10. g = first
    <3>1. first \in Seq(PathComp) /\ Len(first) = n /\ \A k \in 1..n : first[k] = cs[k]
      BY <1>1, <2>2, FirstFacts
    <3> HIDE DEF first
    <3>2. Len(first) = IF u > Len(bs) THEN 0 ELSE Len(bs) - u
      BY <2>4, <3>1
    <3>3. ASSUME NEW k \in 1..Len(first)
          PROVE  first[k] = bs[k]
      <4>1. k \in 1..n /\ k \in 1..Len(cs) /\ k \in 1..Len(bs)
        BY <1>3, <2>2, <3>1
      <4>2. cs[k] \in PathComp /\ bs[k] \in PathComp /\ cs[k].name = bs[k].name
        BY <1>1, <2>2, <4>1, ElementOfSeq
      <4> QED
        BY <3>1, <4>1, <4>2, SameName
    <3> QED
      BY <1>1, <2>4, <3>1, <3>2, <3>3, GoneUpEquals
  <2>11. first \o rest = cs
    <3>1. /\ 1 \in 1..Len(cs) + 1 /\ n \in (1 - 1)..Len(cs) /\ Len(cs) \in n..Len(cs)
      BY <1>3, <2>2
    <3>2. SubSeq(cs, 1, n) \o SubSeq(cs, n + 1, Len(cs)) = SubSeq(cs, 1, Len(cs))
      BY <1>1, <3>1, ConcatAdjacentSubSeq
    <3>3. SubSeq(cs, 1, Len(cs)) = cs
      BY <1>1, SubSeqFull
    <3> QED
      BY <3>2, <3>3 DEF rest
  <2> HIDE DEF first, g
  <2>12. j = p
    BY <1>1, <2>7, <2>8, <2>9, <2>10, <2>11
  <2> QED
    BY <2>4, <2>7, <2>12 DEF r, j
<1> QED
  BY <1>6, <1>7

\* The components relative_to() is said to give lead where its result does.
LEMMA RelativeMeans ==
    ASSUME PathnameAssumption, NEW r \in PathObject, r.up # UINT_MAX
    PROVE  LET source == DoubleDots(r.up) \o Names(r)
           IN  /\ source \in Seq(PathText)
               /\ \A d \in Dirs : Denotes(d, r) = Walk(d, source)
<1> DEFINE ups == DoubleDots(r.up)
           ns == NamesOf(r.comps)
<1>1. r.up \in Nat /\ r.comps \in Seq(PathComp)
  BY LevelBounds DEF PathObject
<1>2. Names(r) = ns
  BY DEF Names, NamesOf
<1>3. ns \in Seq(PathText) /\ IsNames(ns)
  BY <1>1, NamesAre
<1>4. ups \in Seq(PathText) /\ \A d \in Dirs : Walk(d, ups) = GoneUp(d, r.up)
  <2>1. <<>> \in Dirs
    BY DEF Dirs
  <2>2. ASSUME NEW d \in Dirs
        PROVE  ups \in Seq(PathText) /\ Walk(d, ups) = GoneUp(d, r.up)
    BY <1>1, WalkUps
  <2> HIDE DEF ups
  <2> QED
    BY <2>1, <2>2
<1> HIDE DEF ns, ups
<1>5. ups \o ns \in Seq(PathText)
  BY <1>3, <1>4, ConcatProperties
<1>6. ASSUME NEW d \in Dirs
      PROVE  Denotes(d, r) = Walk(d, ups \o ns)
  <2> DEFINE e == Walk(d, ups)
  <2>1. e \in Dirs /\ e = GoneUp(d, r.up)
    BY <1>4, WalkType
  <2> HIDE DEF e
  <2>2. Walk(d, ups \o ns) = Walk(e, ns)
    BY <1>3, <1>4, WalkFurther DEF e
  <2>3. Walk(e, ns) = e \o ns
    BY <1>3, <2>1, WalkNames
  <2>4. Denotes(d, r) = BaseOf(d, r) \o ns
    BY DenotesIs DEF ns
  <2>5. BaseOf(d, r) = e
    BY <2>1 DEF BaseOf
  <2> QED
    BY <2>2, <2>3, <2>4, <2>5
<1> QED
  BY <1>2, <1>5, <1>6 DEF ups

\* Components are no more than what they are made from.
LEMMA WalkIsNotLonger ==
    ASSUME PathnameAssumption, NEW cs \in Seq(PathText)
    PROVE  Len(Walk(<<>>, cs)) <= Len(cs)
<1> DEFINE N == Len(cs)
           root == <<>>
<1>1. N \in Nat /\ root \in Dirs /\ Len(root) = 0
  BY LenProperties DEF Dirs
<1> HIDE DEF root
<1>2. PICK f \in [0..N -> Dirs] :
           /\ f[0] = root
           /\ \A i \in 1..N : f[i] = Step(f[i - 1], cs[i])
           /\ Walk(root, cs) = f[N]
  BY <1>1, WalkIs
<1> DEFINE T == {i \in 0..N : Len(f[i]) <= i}
<1>3. 0 \in T
  BY <1>1, <1>2
<1>4. ASSUME NEW i \in 1..N, i - 1 \in T
      PROVE  i \in T
  <2> DEFINE d == f[i - 1]
             c == cs[i]
  <2>1. d \in Dirs /\ Len(d) <= i - 1 /\ c \in PathText /\ f[i] = Step(d, c) /\ i \in 0..N
    BY <1>1, <1>2, <1>4, ElementOfSeq
  <2> HIDE DEF d, c
  <2>2. Len(d) \in Nat
    BY <2>1, LenProperties DEF Dirs
  <2>3. CASE c = DoubleDot
    <3>1. f[i] = GoneUp(d, 1)
      BY <2>1, <2>3, StepIs
    <3>2. 1 \in Nat /\ d \in Seq(PathText)
      BY <2>1 DEF Dirs
    <3>3. Len(GoneUp(d, 1)) \in 0..Len(d)
      BY ONLY <3>2, GoneUpIs
    <3> QED
      BY <2>1, <2>2, <3>1, <3>3
  <2>4. CASE c = Root
    <3>1. f[i] = root
      BY <2>1, <2>4, StepIs DEF root
    <3> QED
      BY <1>1, <2>1, <3>1
  <2>5. CASE c # Root /\ c # DoubleDot
    <3>1. f[i] = Append(d, c)
      BY <2>1, <2>5, StepIs
    <3>2. Len(Append(d, c)) = Len(d) + 1
      BY <2>1, AppendProperties DEF Dirs
    <3> QED
      BY <2>1, <2>2, <3>1, <3>2
  <2> QED
    BY <2>3, <2>4, <2>5
<1>5. \A i \in 0..N : i \in T
  <2> HIDE DEF T, N
  <2> QED
    BY <1>1, <1>3, <1>4, CountUp
<1>6. Len(f[N]) <= N
  <2>1. N \in 0..N
    BY <1>1
  <2> HIDE DEF N
  <2> QED
    BY <1>5, <2>1
<1> QED
  BY <1>2, <1>6 DEF root

\* An object leads to its names from the root, so there are no more of them either.
LEMMA ComponentsBounded ==
    ASSUME PathnameAssumption, NEW p \in PathObject, NEW cs \in Seq(PathText),
           \A d \in Dirs : Denotes(d, p) = Walk(d, cs)
    PROVE  Len(p.comps) <= Len(cs)
<1> DEFINE root == <<>>
<1>1. root \in Dirs /\ Len(root) = 0
  BY DEF Dirs
<1>2. p.up \in Nat /\ p.comps \in Seq(PathComp)
  BY LevelBounds DEF PathObject
<1> HIDE DEF root
<1>3. GoneUp(root, p.up) = root
  <2>1. p.up >= Len(root)
    BY <1>1, <1>2
  <2> QED
    BY <1>1, <1>2, <2>1, UpAll DEF Dirs, root
<1>4. BaseOf(root, p) = root
  BY <1>3 DEF BaseOf, root
<1>5. NamesOf(p.comps) \in Seq(PathText) /\ Len(NamesOf(p.comps)) = Len(p.comps)
  BY <1>2, NamesAre
<1>6. Denotes(root, p) = NamesOf(p.comps)
  <2>1. Denotes(root, p) = root \o NamesOf(p.comps)
    BY <1>1, <1>4, DenotesIs
  <2> QED
    BY <1>5, <2>1, ConcatEmptySeq DEF root
<1>7. Denotes(root, p) = Walk(root, cs)
  BY <1>1
<1> QED
  BY <1>5, <1>6, <1>7, WalkIsNotLonger DEF root

-----------------------------------------------------------------------------
(* How a string is split                                                   *)

\* The piece that ends before i starts at the only possible place.
LEMMA StartOfIs ==
    ASSUME PathnameAssumption, NEW s \in PathText, NEW i \in 1..(Len(s) + 1), NEW first \in 1..i,
           first = 1 \/ s[first - 1] = Slash,
           \A j \in first..(i - 1) : s[j] # Slash
    PROVE  StartOf(s, i) = first
<1> DEFINE P(f) == (f = 1 \/ s[f - 1] = Slash) /\ \A j \in f..(i - 1) : s[j] # Slash
<1>1. Len(s) \in Nat
  BY LenProperties DEF PathText
<1>2. ASSUME NEW f \in 1..i, P(f)
      PROVE  f = first
  <2>1. ~(f < first)
    <3> SUFFICES ASSUME f < first PROVE FALSE
      OBVIOUS
    <3>1. first - 1 \in f..(i - 1) /\ first # 1
      BY <1>1
    <3> QED
      BY <1>2, <3>1
  <2>2. ~(first < f)
    <3> SUFFICES ASSUME first < f PROVE FALSE
      OBVIOUS
    <3>1. f - 1 \in first..(i - 1) /\ f # 1
      BY <1>1
    <3> QED
      BY <1>2, <3>1
  <2> QED
    BY <1>1, <2>1, <2>2
<1>3. P(first)
  OBVIOUS
<1>4. StartOf(s, i) = CHOOSE f \in 1..i : P(f)
  BY DEF StartOf
<1> HIDE DEF P
<1> QED
  BY <1>2, <1>3, <1>4

\* There is such a place.
LEMMA StartOfExists ==
    ASSUME PathnameAssumption, NEW s \in PathText, NEW i \in 1..(Len(s) + 1)
    PROVE  /\ StartOf(s, i) \in 1..i
           /\ SubSeq(s, StartOf(s, i), i - 1) \in PathText
<1> DEFINE T == {f \in 0..i : f # 0 /\ (f = 1 \/ s[f - 1] = Slash)}
<1>1. Len(s) \in Nat /\ i \in Nat
  BY LenProperties DEF PathText
<1>2. T \in SUBSET (0..i) /\ T # {}
  <2>1. 1 \in T
    BY <1>1
  <2> QED
    BY <2>1
<1>3. PICK f \in T : \A m \in T : m <= f
  <2> HIDE DEF T
  <2> QED
    BY <1>1, <1>2, GreatestNatural
<1>4. f \in 1..i /\ (f = 1 \/ s[f - 1] = Slash)
  BY <1>1, <1>3
<1>5. ASSUME NEW j \in f..(i - 1)
      PROVE  s[j] # Slash
  <2> SUFFICES ASSUME s[j] = Slash PROVE FALSE
    OBVIOUS
  <2>1. j + 1 \in 0..i /\ j + 1 # 0 /\ (j + 1) - 1 = j
    BY <1>1, <1>4
  <2>2. j + 1 \in T
    BY <2>1
  <2>3. j + 1 <= f
    BY <1>3, <2>2
  <2> QED
    BY <1>1, <1>4, <2>3
<1>6. StartOf(s, i) = f
  BY <1>4, <1>5, StartOfIs
<1>7. SubSeq(s, f, i - 1) \in PathText
  <2>1. \A k \in f..(i - 1) : s[k] \in PathChar
    BY <1>1, <1>4, ElementOfSeq DEF PathText
  <2> QED
    BY <1>4, <2>1, SubSeqProperties DEF PathText
<1> QED
  BY <1>4, <1>6, <1>7

\* The pieces up to i, from those before it
PiecesTo(s, i, v) ==
    IF ~IsEnd(s, i) THEN v
    ELSE IF i = 1 THEN IF s = <<>> THEN <<>> ELSE <<Root>>
    ELSE LET piece == SubSeq(s, StartOf(s, i), i - 1)
         IN  IF piece \in {<<>>, <<Dot>>} THEN v ELSE Append(v, piece)

LEMMA PiecesType ==
    ASSUME PathnameAssumption, NEW s \in PathText, NEW i \in 1..(Len(s) + 1), NEW v \in Seq(PathText)
    PROVE  /\ PiecesTo(s, i, v) \in Seq(PathText)
           /\ (i = 1 /\ v = <<>>) \/ i # 1 => Len(v) <= Len(PiecesTo(s, i, v))
<1> DEFINE piece == SubSeq(s, StartOf(s, i), i - 1)
           e == <<>>
           root == <<Root>>
<1>1. piece \in PathText
  BY StartOfExists
<1>2. Append(v, piece) \in Seq(PathText) /\ Len(Append(v, piece)) = Len(v) + 1 /\ Len(v) \in Nat
  BY <1>1, AppendProperties, LenProperties
<1>3. e \in Seq(PathText) /\ Len(e) = 0 /\ root \in Seq(PathText) /\ Len(root) = 1
  BY Specials
<1>4. PiecesTo(s, i, v) = IF ~IsEnd(s, i) THEN v
                          ELSE IF i = 1 THEN IF s = <<>> THEN e ELSE root
                          ELSE IF piece \in {<<>>, <<Dot>>} THEN v ELSE Append(v, piece)
  BY DEF PiecesTo
<1>5. v = <<>> => Len(v) = 0
  OBVIOUS
<1> HIDE DEF piece, e, root
<1> QED
  BY <1>2, <1>3, <1>4, <1>5

LEMMA SplitIs ==
    ASSUME PathnameAssumption, NEW s \in PathText
    PROVE  \E f \in [0..(Len(s) + 1) -> Seq(PathText)] :
               /\ f[0] = <<>>
               /\ \A i \in 1..(Len(s) + 1) : f[i] = PiecesTo(s, i, f[i - 1])
               /\ \A i \in 1..(Len(s) + 1) : Len(f[i - 1]) <= Len(f[i])
               /\ Split(s) = f[Len(s) + 1]
<1> DEFINE N == Len(s) + 1
           none == <<>>
           V == Seq(PathText)
           step == [x \in (1..N) \X V |-> PiecesTo(s, x[1], x[2])]
           IsSplit(f) ==
               f = [i \in 0..(Len(s) + 1) |->
                       IF i = 0 THEN <<>>
                       ELSE IF ~IsEnd(s, i) THEN f[i - 1]
                       ELSE IF i = 1 THEN IF s = <<>> THEN <<>> ELSE <<Root>>
                       ELSE LET piece == SubSeq(s, StartOf(s, i), i - 1)
                            IN  IF piece \in {<<>>, <<Dot>>} THEN f[i - 1]
                                ELSE Append(f[i - 1], piece)]
           split == CHOOSE f : IsSplit(f)
<1>1. N \in Nat
  BY LenProperties DEF PathText
<1>2. step \in [(1..N) \X V -> V]
  <2>1. \A i \in 1..N, v \in V : PiecesTo(s, i, v) \in V
    BY PiecesType
  <2> HIDE DEF V, N
  <2> QED
    BY <2>1
<1>3. \A i \in 1..N, v \in V : step[<<i, v>>] = PiecesTo(s, i, v)
  <2> HIDE DEF V, N
  <2> QED
    OBVIOUS
<1>4. none \in V
  OBVIOUS
<1>5. PICK f \in [0..N -> V] : Recurs(f, none, N, step)
  <2> HIDE DEF V, N, step, none
  <2> QED
    BY <1>1, <1>2, <1>4, RecursionExists
<1>6. IsSplit(f)
  <2>1. ASSUME NEW i \in 0..N, i # 0
        PROVE  step[<<i, f[i - 1]>>] = PiecesTo(s, i, f[i - 1])
    <3>1. i \in 1..N /\ i - 1 \in 0..N
      BY <1>1, <2>1
    <3>2. f[i - 1] \in V
      BY <3>1
    <3> HIDE DEF V, N, step
    <3> QED
      BY <1>3, <3>1, <3>2
  <2>2. f = [i \in 0..N |-> IF i = 0 THEN none ELSE step[<<i, f[i - 1]>>]]
    BY <1>5 DEF Recurs
  <2>3. f = [i \in 0..N |-> IF i = 0 THEN none ELSE PiecesTo(s, i, f[i - 1])]
    <3> HIDE DEF step, none
    <3> QED
      BY <2>1, <2>2
  <2> QED
    BY <2>3 DEF PiecesTo
<1>7. IsSplit(split)
  <2> HIDE DEF IsSplit
  <2> QED
    BY <1>6
<1>8. Split(s) = split[N]
  BY DEF Split
<1> HIDE DEF split
<1>9. split[0] = none /\ \A i \in 1..N : split[i] = PiecesTo(s, i, split[i - 1])
  <2>1. split[0] = none
    BY <1>1, <1>7
  <2>2. ASSUME NEW i \in 1..N
        PROVE  split[i] = PiecesTo(s, i, split[i - 1])
    <3>1. i \in 0..(Len(s) + 1) /\ i # 0
      BY <1>1
    <3> QED
      BY <1>7, <3>1 DEF PiecesTo
  <2> QED
    BY <2>1, <2>2
<1> DEFINE T == {i \in 0..N : split[i] \in V}
<1>10. \A i \in 0..N : i \in T
  <2>1. 0 \in T
    <3> HIDE DEF none, V, N
    <3> QED
      BY <1>1, <1>4, <1>9
  <2>2. ASSUME NEW i \in 1..N, i - 1 \in T
        PROVE  i \in T
    <3>1. split[i] = PiecesTo(s, i, split[i - 1]) /\ split[i - 1] \in V /\ i \in 0..N
      BY <1>1, <1>9, <2>2
    <3> QED
      BY <3>1, PiecesType
  <2> HIDE DEF T, N
  <2> QED
    BY <1>1, <2>1, <2>2, CountUp
<1>11. split \in [0..N -> V]
  BY <1>7, <1>10
<1>12. ASSUME NEW i \in 1..N
       PROVE  Len(split[i - 1]) <= Len(split[i])
  <2>1. i - 1 \in 0..N /\ (i = 1 => i - 1 = 0)
    BY <1>1
  <2>2. split[i - 1] \in V /\ (i = 1 => split[i - 1] = <<>>) /\ split[i] = PiecesTo(s, i, split[i - 1])
    BY <1>9, <1>11, <2>1
  <2> QED
    BY <2>2, PiecesType
<1> QED
  BY <1>8, <1>9, <1>11, <1>12

\* No part is longer than the whole.
LEMMA PartsAreShorter ==
    ASSUME PathnameAssumption, NEW N \in Nat, NEW f \in [0..N -> Seq(PathText)],
           \A i \in 1..N : Len(f[i - 1]) <= Len(f[i])
    PROVE  \A i \in 0..N : Len(f[i]) <= Len(f[N])
<1> DEFINE T == {k \in 0..N : Len(f[N - k]) <= Len(f[N])}
<1>1. \A i \in 0..N : Len(f[i]) \in Nat
  BY LenProperties
<1>2. 0 \in T
  BY <1>1
<1>3. ASSUME NEW k \in 1..N, k - 1 \in T
      PROVE  k \in T
  <2> DEFINE i == N - (k - 1)
  <2>1. i \in 1..N /\ i - 1 = N - k /\ i - 1 \in 0..N /\ i \in 0..N /\ N \in 0..N
    OBVIOUS
  <2>2. Len(f[i]) <= Len(f[N])
    BY <1>3
  <2> HIDE DEF i
  <2>3. Len(f[i - 1]) <= Len(f[i])
    BY <2>1
  <2>4. Len(f[i - 1]) <= Len(f[N])
    BY <1>1, <2>1, <2>2, <2>3
  <2> QED
    BY <2>1, <2>4
<1>4. \A k \in 0..N : k \in T
  <2> HIDE DEF T
  <2> QED
    BY <1>2, <1>3, CountUp
<1>5. ASSUME NEW i \in 0..N
      PROVE  Len(f[i]) <= Len(f[N])
  <2>1. N - i \in 0..N /\ N - (N - i) = i
    OBVIOUS
  <2>2. Len(f[N - (N - i)]) <= Len(f[N])
    BY <1>4, <2>1
  <2> QED
    BY <2>1, <2>2
<1> QED
  BY <1>5

-----------------------------------------------------------------------------
(* The parser                                                              *)

\* The characters from first to i are the piece that is being read; x is the
\* position of its last dot behind the first character, or 0.
Open(s, first, i) ==
    /\ first \in 1..i
    /\ first = 1 \/ s[first - 1] = Slash
    /\ \A j \in first..i : s[j] # Slash

SuffixIs(s, first, i, x) ==
    \/ x = 0 /\ \A j \in (first + 1)..i : s[j] # Dot
    \/ /\ x \in (first + 1)..i /\ s[x] = Dot
       /\ \A j \in (x + 1)..i : s[j] # Dot

\* What the parser knows after i characters
Reading == {"component", "dot", "double dot"}
ParserState == [path : PathObject, at : {"start", "slash"} \cup Reading, first : Nat, suffix : Nat]

ReadTo(s, i, q) ==
    /\ q \in ParserState
    /\ q.at = "start" => i = 0
    /\ q.at = "slash" => i > 0 /\ s[i] = Slash
    /\ q.at \in Reading => Open(s, q.first, i) /\ SuffixIs(s, q.first, i, q.suffix)
    /\ q.at = "dot" => i = q.first /\ s[i] = Dot
    /\ q.at = "double dot" => i = q.first + 1 /\ s[i - 1] = Dot /\ s[i] = Dot
    /\ q.at = "component" => /\ ~(i = q.first /\ s[i] = Dot)
                             /\ ~(i = q.first + 1 /\ s[i - 1] = Dot /\ s[i] = Dot)

\* The object r leads from where p does to where the components v lead.
Leads(p, v, r) ==
    /\ r \in PathObject
    /\ \A d \in Dirs : Denotes(d, r) = Walk(Denotes(d, p), v)
    /\ r.up # UINT_MAX => p.up # UINT_MAX /\ r.up <= p.up + Len(v)

\* What is read as a component is a name, and its suffix is where it should be.
LEMMA NameIs ==
    ASSUME PathnameAssumption, NEW s \in PathText, NEW i \in 1..Len(s), NEW first, NEW x \in Nat,
           Open(s, first, i), SuffixIs(s, first, i, x),
           ~(i = first /\ s[i] = Dot), ~(i = first + 1 /\ s[i - 1] = Dot /\ s[i] = Dot)
    PROVE  LET name == SubSeq(s, first, i)
               base == IF x = 0 THEN Len(name) ELSE x - first
           IN  IsName(name) /\ [name |-> name, base |-> base] \in PathComp
<1> DEFINE name == SubSeq(s, first, i)
           base == IF x = 0 THEN Len(name) ELSE x - first
           N == i - first + 1
<1>1. /\ Len(s) \in Nat /\ i \in Nat /\ i <= Len(s) /\ first \in Nat /\ first >= 1 /\ first <= i
      /\ N \in Nat /\ N >= 1 /\ first + N = i + 1
  BY LenProperties DEF Open, PathText
<1>2. name \in PathText /\ Len(name) = N /\ \A k \in 1..N : name[k] = s[first + k - 1]
  <2>1. \A k \in first..i : s[k] \in PathChar
    BY <1>1, ElementOfSeq DEF PathText
  <2> QED
    BY <1>1, <2>1, SubSeqProperties DEF PathText
<1> HIDE DEF name
<1>3. \A k \in 1..N : name[k] # Slash
  <2> TAKE k \in 1..N
  <2>1. first + k - 1 \in first..i
    BY <1>1
  <2> QED
    BY <1>2, <2>1 DEF Open
<1>4. name # <<>>
  BY <1>1, <1>2
<1>5. name # <<Dot>>
  <2> SUFFICES ASSUME name = <<Dot>> PROVE FALSE
    OBVIOUS
  <2>1. Len(name) = 1 /\ name[1] = Dot
    OBVIOUS
  <2>2. N = 1 /\ 1 \in 1..N /\ name[1] = s[first + 1 - 1]
    BY <1>2, <2>1
  <2>3. i = first /\ first + 1 - 1 = i
    BY <1>1, <2>2
  <2> QED
    BY <2>1, <2>2, <2>3
<1>6. name # DoubleDot
  <2> SUFFICES ASSUME name = <<Dot, Dot>> PROVE FALSE
    BY DEF DoubleDot
  <2>1. Len(name) = 2 /\ name[1] = Dot /\ name[2] = Dot
    OBVIOUS
  <2>2. N = 2 /\ name[1] = s[first + 1 - 1] /\ name[2] = s[first + 2 - 1]
    BY <1>2, <2>1
  <2>3. i = first + 1 /\ first + 1 - 1 = i - 1 /\ first + 2 - 1 = i
    BY <1>1, <2>2
  <2> QED
    BY <2>1, <2>2, <2>3
<1>7. IsName(name)
  BY <1>2, <1>3, <1>4, <1>5, <1>6 DEF IsName
<1> DEFINE dots == {k \in 2..Len(name) : name[k] = Dot}
<1>8. base \in Nat /\ base = BaseLength(name)
  <2>1. CASE x = 0
    <3>1. \A k \in 2..N : name[k] # Dot
      <4> TAKE k \in 2..N
      <4>1. first + k - 1 \in (first + 1)..i /\ k \in 1..N /\ 0 \notin (first + 1)..i
        BY <1>1
      <4> QED
        BY <1>2, <2>1, <4>1 DEF SuffixIs
    <3>2. dots = {}
      BY <1>2, <3>1
    <3>3. BaseLength(name) = Len(name)
      BY <3>2 DEF BaseLength
    <3> QED
      BY <1>1, <1>2, <2>1, <3>3
  <2>2. CASE x # 0
    <3> DEFINE b == x - first
               P(n) == n + 1 \in dots /\ \A k \in dots : k <= n + 1
    <3>1. x \in (first + 1)..i /\ s[x] = Dot /\ \A j \in (x + 1)..i : s[j] # Dot
      BY <2>2 DEF SuffixIs
    <3>2. b \in 1..N /\ b + 1 \in 2..N /\ b + 1 \in 1..N /\ first + (b + 1) - 1 = x
      BY <1>1, <3>1
    <3>3. b + 1 \in dots
      BY <1>2, <3>1, <3>2
    <3>4. ASSUME NEW k \in dots
          PROVE  k <= b + 1
      <4> SUFFICES ASSUME k > b + 1 PROVE FALSE
        BY <1>2, <3>2
      <4>1. k \in 1..N /\ first + k - 1 \in (x + 1)..i
        BY <1>1, <1>2, <3>1
      <4>2. name[k] = Dot /\ name[k] = s[first + k - 1]
        BY <1>2, <4>1
      <4> QED
        BY <3>1, <4>1, <4>2
    <3>5. P(b) /\ b \in 1..Len(name) /\ dots # {}
      BY <1>2, <3>2, <3>3, <3>4
    <3>6. ASSUME NEW n \in 1..Len(name), P(n)
          PROVE  n = b
      <4>1. n + 1 <= b + 1 /\ b + 1 <= n + 1
        BY <3>5, <3>6
      <4> HIDE DEF b
      <4> QED
        BY <1>1, <1>2, <3>2, <4>1
    <3>7. BaseLength(name) = CHOOSE n \in 1..Len(name) : P(n)
      BY <3>5 DEF BaseLength
    <3> HIDE DEF P, b
    <3>8. BaseLength(name) = b
      BY <3>5, <3>6, <3>7
    <3> QED
      BY <2>2, <3>2, <3>8 DEF b
  <2> QED
    BY <2>1, <2>2
<1>9. [name |-> name, base |-> base] \in PathComp
  <2> HIDE DEF base
  <2> QED
    BY <1>2, <1>7, <1>8 DEF PathComp
<1> QED
  BY <1>7, <1>9 DEF name

\* What became of the object when the piece before i has ended
Closed(q, s, i) ==
    CASE q.at = "component" -> AppendComponent(q, s, i).path
      [] q.at = "double dot" -> GoUpOneLevel(q.path)
      [] OTHER -> q.path

LEMMA AppendLeads ==
    ASSUME PathnameAssumption, NEW p \in PathObject, NEW v \in Seq(PathText), NEW r, Leads(p, v, r),
           NEW c \in PathComp, NEW j, j = [r EXCEPT !.comps = Append(@, c)]
    PROVE  Leads(p, Append(v, c.name), j)
<1>1. r \in PathObject /\ r.comps \in Seq(PathComp) /\ r.up \in Nat /\ p.up \in Nat
  BY LevelBounds DEF Leads, PathObject
<1>2. r = [up |-> r.up, comps |-> r.comps, file |-> r.file] /\ r.up \in 0..UINT_MAX /\ r.file \in BOOLEAN
  BY <1>1 DEF PathObject
<1> DEFINE one == <<c>>
           cs == Append(r.comps, c)
<1>3. cs \in Seq(PathComp) /\ cs = r.comps \o one /\ one \in Seq(PathComp)
  BY <1>1, AppendProperties, AppendIsConcat
<1>4. NamesOf(one) = << c.name >>
  BY DEF NamesOf
<1> HIDE DEF cs, one
<1>5. j = [up |-> r.up, comps |-> cs, file |-> r.file]
  BY <1>2 DEF cs
<1>6. j \in PathObject /\ j.up = r.up /\ j.comps = r.comps \o one
  <2>1. j.up = r.up /\ j.comps = cs
    BY ONLY <1>5
  <2>2. j \in PathObject
    BY ONLY <1>2, <1>3, <1>5 DEF PathObject
  <2> QED
    BY <1>3, <2>1, <2>2
<1>7. c.name \in PathText /\ IsName(c.name)
  BY DEF PathComp
<1> DEFINE name == c.name
           w == Append(v, name)
<1>8. Len(w) = Len(v) + 1 /\ Len(v) \in Nat
  BY <1>7, AppendProperties, LenProperties
<1>9. ASSUME NEW d \in Dirs
      PROVE  Denotes(d, j) = Walk(Denotes(d, p), w)
  <2> DEFINE e == Denotes(d, p)
             g == Denotes(d, r)
  <2>1. e \in Dirs /\ g \in Dirs
    BY <1>1, DenotesIs
  <2>2. Denotes(d, j) = g \o NamesOf(one)
    <3>1. r \in PathObject /\ one \in Seq(PathComp) /\ j \in PathObject /\ IsBelow(j, r, one)
      BY <1>1, <1>3, <1>6 DEF IsBelow
    <3>2. LeadsBelow(d, j, r, one)
      BY <3>1, GoesDown
    <3> QED
      BY <3>2 DEF LeadsBelow
  <2>3. g = Walk(e, v)
    BY DEF Leads
  <2> HIDE DEF e, g
  <2>4. Walk(e, w) = Step(Walk(e, v), name)
    BY <1>7, <2>1, WalkOn
  <2>5. Step(g, name) = Append(g, name)
    BY <1>7, <2>1, Specials, StepIs
  <2>6. Append(g, name) = g \o << name >>
    BY <1>7, <2>1, AppendIsConcat DEF Dirs
  <2> QED
    BY <1>4, <2>2, <2>3, <2>4, <2>5, <2>6 DEF e
<1>10. j.up # UINT_MAX => p.up # UINT_MAX /\ j.up <= p.up + Len(w)
  <2> SUFFICES ASSUME j.up # UINT_MAX PROVE p.up # UINT_MAX /\ j.up <= p.up + Len(w)
    OBVIOUS
  <2>1. p.up # UINT_MAX /\ r.up <= p.up + Len(v)
    BY <1>6 DEF Leads
  <2> HIDE DEF w
  <2> QED
    BY <1>1, <1>6, <1>8, <2>1
<1> QED
  BY <1>6, <1>9, <1>10 DEF Leads

LEMMA UpLeads ==
    ASSUME PathnameAssumption, NEW p \in PathObject, NEW v \in Seq(PathText), NEW r, Leads(p, v, r),
           p.up = UINT_MAX \/ p.up + Len(v) + 1 < UINT_MAX
    PROVE  Leads(p, Append(v, DoubleDot), GoUpOneLevel(r))
<1> DEFINE q == GoUpOneLevel(r)
           w == Append(v, DoubleDot)
<1>1. r \in PathObject /\ r.up \in Nat /\ p.up \in Nat /\ UINT_MAX \in Nat
  BY LevelBounds DEF Leads, PathObject
<1>2. Len(w) = Len(v) + 1 /\ Len(v) \in Nat
  BY Specials, AppendProperties, LenProperties
<1>3. r.up # UINT_MAX => p.up # UINT_MAX /\ r.up <= p.up + Len(v)
  BY DEF Leads
<1>4. r.up = UINT_MAX \/ r.up + 1 < UINT_MAX
  BY <1>1, <1>2, <1>3
<1>5. /\ q \in PathObject
      /\ \A d \in Dirs : Denotes(d, q) = GoneUp(Denotes(d, r), 1)
      /\ q.up = UINT_MAX <=> r.up = UINT_MAX
      /\ r.up # UINT_MAX => q.up <= r.up + 1
  BY <1>1, <1>4, GoUpOneIs
<1> HIDE DEF q
<1>6. ASSUME NEW d \in Dirs
      PROVE  Denotes(d, q) = Walk(Denotes(d, p), w)
  <2> DEFINE e == Denotes(d, p)
             g == Denotes(d, r)
  <2>1. e \in Dirs /\ g \in Dirs
    BY <1>1, DenotesIs
  <2>2. Denotes(d, q) = GoneUp(g, 1)
    BY <1>5
  <2>3. g = Walk(e, v)
    BY DEF Leads
  <2> HIDE DEF e, g
  <2>4. Walk(e, w) = Step(Walk(e, v), DoubleDot)
    BY <2>1, Specials, WalkOn
  <2>5. Step(g, DoubleDot) = GoneUp(g, 1)
    BY <2>1, Specials, StepIs
  <2> QED
    BY <2>2, <2>3, <2>4, <2>5 DEF e
<1>7. q.up # UINT_MAX => p.up # UINT_MAX /\ q.up <= p.up + Len(w)
  <2> SUFFICES ASSUME q.up # UINT_MAX PROVE p.up # UINT_MAX /\ q.up <= p.up + Len(w)
    OBVIOUS
  <2>1. p.up # UINT_MAX /\ r.up <= p.up + Len(v) /\ q.up <= r.up + 1 /\ q.up \in Nat
    BY <1>1, <1>3, <1>5 DEF PathObject
  <2> HIDE DEF w
  <2> QED
    BY <1>1, <1>2, <2>1
<1> QED
  BY <1>5, <1>6, <1>7 DEF Leads, q

\* The end of a piece
LEMMA CloseIs ==
    ASSUME PathnameAssumption, NEW p \in PathObject, NEW s \in PathText, NEW i \in 1..(Len(s) + 1), IsEnd(s, i),
           NEW v \in Seq(PathText), NEW q, ReadTo(s, i - 1, q), Leads(p, v, q.path),
           q.at # "start",
           p.up = UINT_MAX \/ p.up + Len(PiecesTo(s, i, v)) < UINT_MAX
    PROVE  Leads(p, PiecesTo(s, i, v), Closed(q, s, i))
<1> DEFINE k == i - 1
<1>1. /\ Len(s) \in Nat /\ i \in Nat /\ k \in Nat /\ k + 1 = i /\ k <= Len(s)
      /\ Len(v) \in Nat /\ p.up \in Nat /\ UINT_MAX \in Nat
  BY LevelBounds, LenProperties DEF PathText, PathObject
<1>2. ReadTo(s, k, q) /\ i - 1 = k
  OBVIOUS
<1> HIDE DEF k
<1>3. k # 0
  <2>1. q.at = "slash" \/ q.at \in Reading
    BY <1>2 DEF ReadTo, ParserState
  <2>2. CASE q.at = "slash"
    BY <1>1, <1>2, <2>2 DEF ReadTo
  <2>3. CASE q.at \in Reading
    <3>1. q.first \in 1..k
      BY <1>2, <2>3 DEF ReadTo, Open
    <3> QED
      BY <1>1, <3>1
  <2> QED
    BY <2>1, <2>2, <2>3
<1>4. PiecesTo(s, i, v) = LET piece == SubSeq(s, StartOf(s, i), k)
                          IN  IF piece \in {<<>>, <<Dot>>} THEN v ELSE Append(v, piece)
  BY <1>1, <1>2, <1>3 DEF PiecesTo
<1>5. k \in 1..Len(s) /\ i # 1
  BY <1>1, <1>3
<1> DEFINE w == PiecesTo(s, i, v)
<1>6. CASE q.at = "slash"
  <2>1. s[i - 1] = Slash /\ i \in 1..i
    BY <1>1, <1>2, <1>6 DEF ReadTo
  <2>2. \A j \in i..(i - 1) : s[j] # Slash
    BY <1>1
  <2>3. StartOf(s, i) = i
    BY <2>1, <2>2, StartOfIs
  <2>4. SubSeq(s, i, k) = <<>>
    BY <1>1, SubSeqEmpty
  <2>5. w = v
    BY <1>4, <2>3, <2>4
  <2>6. Closed(q, s, i) = q.path
    BY <1>6 DEF Closed
  <2> QED
    BY <2>5, <2>6
<1>7. CASE q.at \in Reading
  <2> DEFINE first == q.first
             piece == SubSeq(s, first, k)
  <2>1. /\ first \in 1..k /\ (first = 1 \/ s[first - 1] = Slash)
        /\ \A j \in first..k : s[j] # Slash
        /\ Open(s, first, k) /\ SuffixIs(s, first, k, q.suffix) /\ q.suffix \in Nat
    BY <1>2, <1>7 DEF ReadTo, Open, ParserState
  <2>2. StartOf(s, i) = first
    <3>1. first \in 1..i
      BY <1>1, <2>1
    <3> HIDE DEF first
    <3> QED
      BY <1>2, <2>1, <3>1, StartOfIs
  <2> HIDE DEF first
  <2>3. w = IF piece \in {<<>>, <<Dot>>} THEN v ELSE Append(v, piece)
    BY <1>4, <2>2
  <2>4. \A j \in first..k : s[j] \in PathChar
    BY <1>1, <2>1, ElementOfSeq DEF PathText
  <2>5. piece \in PathText /\ Len(piece) = k - first + 1 /\ \A j \in 1..(k - first + 1) : piece[j] = s[first + j - 1]
    <3>1. first \in Int /\ k \in Int /\ first <= k
      BY <1>1, <2>1
    <3> QED
      BY <2>4, <3>1, SubSeqProperties DEF PathText
  <2>6. CASE q.at = "dot"
    <3>1. k = first /\ s[k] = Dot
      BY <1>2, <2>6 DEF ReadTo, first
    <3>2. Len(piece) = 1 /\ piece[1] = Dot
      <4>1. k - first + 1 = 1 /\ first + 1 - 1 = k /\ 1 \in 1..1
        BY <1>1, <3>1
      <4> HIDE DEF piece
      <4> QED
        BY <2>5, <3>1, <4>1
    <3> DEFINE dot == <<Dot>>
    <3>3. dot \in PathText /\ Len(dot) = 1 /\ dot[1] = Dot
      BY DEF PathText, PathChar
    <3> HIDE DEF dot, piece
    <3>4. piece = dot
      BY <2>5, <3>2, <3>3, SeqEqual DEF PathText
    <3>5. w = v
      BY <2>3, <3>4 DEF dot
    <3>6. Closed(q, s, i) = q.path
      BY <2>6 DEF Closed
    <3> QED
      BY <3>5, <3>6
  <2>7. CASE q.at = "double dot"
    <3>1. k = first + 1 /\ s[k - 1] = Dot /\ s[k] = Dot
      BY <1>2, <2>7 DEF ReadTo, first
    <3>2. Len(piece) = 2 /\ piece[1] = Dot /\ piece[2] = Dot
      <4>1. k - first + 1 = 2 /\ first + 1 - 1 = k - 1 /\ first + 2 - 1 = k /\ 1 \in 1..2 /\ 2 \in 1..2
        BY <1>1, <2>1, <3>1
      <4> HIDE DEF piece
      <4> QED
        BY <2>5, <3>1, <4>1
    <3> DEFINE dots == DoubleDot
    <3>3. dots \in PathText /\ Len(dots) = 2 /\ dots[1] = Dot /\ dots[2] = Dot
      BY Specials DEF DoubleDot
    <3> HIDE DEF dots, piece
    <3>4. piece = dots
      <4>1. \A j \in 1..Len(piece) : piece[j] = dots[j]
        BY <3>2, <3>3
      <4> QED
        BY <2>5, <3>2, <3>3, <4>1, SeqEqual DEF PathText
    <3>5. Len(piece) # 0 /\ Len(piece) # 1 /\ Len(<<Dot>>) = 1 /\ Len(<<>>) = 0
      BY <3>2
    <3>6. w = Append(v, dots)
      BY <2>3, <3>4, <3>5
    <3>7. Closed(q, s, i) = GoUpOneLevel(q.path)
      BY <2>7 DEF Closed
    <3>8. Len(Append(v, dots)) = Len(v) + 1
      BY <3>3, AppendProperties
    <3>9. p.up = UINT_MAX \/ p.up + Len(v) + 1 < UINT_MAX
      BY <1>1, <3>6, <3>8
    <3> HIDE DEF w
    <3>10. Leads(p, Append(v, DoubleDot), GoUpOneLevel(q.path))
      BY <3>9, UpLeads
    <3> QED
      BY <3>6, <3>7, <3>10 DEF dots, w
  <2>8. CASE q.at = "component"
    <3> DEFINE base == IF q.suffix = 0 THEN Len(piece) ELSE q.suffix - first
               c == [name |-> piece, base |-> base]
    <3>1. /\ ~(k = first /\ s[k] = Dot)
          /\ ~(k = first + 1 /\ s[k - 1] = Dot /\ s[k] = Dot)
      BY <1>2, <2>8 DEF ReadTo, first
    <3>2. IsName(piece) /\ c \in PathComp
      BY <1>5, <2>1, <3>1, NameIs
    <3> DEFINE j == Closed(q, s, i)
    <3>3. j = [q.path EXCEPT !.comps = Append(@, c)]
      <4>1. q.path \in PathObject /\ q \in ParserState
        BY <1>2 DEF ReadTo, ParserState
      <4>2. AppendComponent(q, s, i) = [q EXCEPT !.path.comps = Append(@, c)]
        BY <1>2 DEF AppendComponent, first
      <4>3. [q EXCEPT !.path.comps = Append(@, c)].path = [q.path EXCEPT !.comps = Append(@, c)]
        <5> HIDE DEF c
        <5> QED
          BY <4>1 DEF ParserState, PathObject
      <4> QED
        BY <2>8, <4>2, <4>3 DEF Closed
    <3>4. c.name = piece
      OBVIOUS
    <3>5. piece \notin {<<>>, <<Dot>>}
      BY <3>2 DEF IsName
    <3>6. w = Append(v, piece)
      BY <2>3, <3>5
    <3> HIDE DEF c, j, w
    <3>7. Leads(p, Append(v, c.name), j)
      BY <3>2, <3>3, AppendLeads
    <3> QED
      BY <3>4, <3>6, <3>7 DEF j, w
  <2> QED
    BY <1>7, <2>6, <2>7, <2>8 DEF Reading
<1> QED
  BY <1>2, <1>6, <1>7 DEF ReadTo, ParserState

\* A character that does not end a piece
LEMMA OpenMore ==
    ASSUME PathnameAssumption, NEW s, NEW i \in Nat, NEW first, NEW x,
           Open(s, first, i - 1), s[i] # Slash, SuffixIs(s, first, i - 1, x)
    PROVE  /\ Open(s, first, i) /\ first \in Nat /\ first < i
           /\ s[i] # Dot => SuffixIs(s, first, i, x)
           /\ s[i] = Dot => SuffixIs(s, first, i, i)
<1>1. /\ first \in 1..(i - 1) /\ (first = 1 \/ s[first - 1] = Slash)
      /\ \A j \in first..(i - 1) : s[j] # Slash
  BY DEF Open
<1>2. first \in 1..i /\ first \in Nat /\ first < i /\ i \in (first + 1)..i
  BY <1>1
<1>3. \A j \in first..i : s[j] # Slash
  <2> TAKE j \in first..i
  <2>1. j = i \/ j \in first..(i - 1)
    BY <1>2
  <2> QED
    BY <1>1, <2>1
<1>4. Open(s, first, i)
  BY <1>1, <1>2, <1>3 DEF Open
<1>5. ASSUME s[i] # Dot
      PROVE  SuffixIs(s, first, i, x)
  <2>1. CASE x = 0 /\ \A j \in (first + 1)..(i - 1) : s[j] # Dot
    <3>1. \A j \in (first + 1)..i : s[j] # Dot
      <4> TAKE j \in (first + 1)..i
      <4>1. j = i \/ j \in (first + 1)..(i - 1)
        BY <1>2
      <4> QED
        BY <1>5, <2>1, <4>1
    <3> QED
      BY <2>1, <3>1 DEF SuffixIs
  <2>2. CASE /\ x \in (first + 1)..(i - 1) /\ s[x] = Dot
             /\ \A j \in (x + 1)..(i - 1) : s[j] # Dot
    <3>1. x \in (first + 1)..i /\ x \in Nat
      BY <1>2, <2>2
    <3>2. \A j \in (x + 1)..i : s[j] # Dot
      <4> TAKE j \in (x + 1)..i
      <4>1. j = i \/ j \in (x + 1)..(i - 1)
        BY <3>1
      <4> QED
        BY <1>5, <2>2, <4>1
    <3> QED
      BY <2>2, <3>1, <3>2 DEF SuffixIs
  <2> QED
    BY <2>1, <2>2 DEF SuffixIs
<1>6. ASSUME s[i] = Dot
      PROVE  SuffixIs(s, first, i, i)
  <2>1. \A j \in (i + 1)..i : s[j] # Dot
    OBVIOUS
  <2> QED
    BY <1>2, <1>6, <2>1 DEF SuffixIs
<1> QED
  BY <1>2, <1>4, <1>5, <1>6

State(o, a, f, x) == [path |-> o, at |-> a, first |-> f, suffix |-> x]

IsState(r, o, a, f, x) ==
    r \in ParserState /\ r.path = o /\ r.at = a /\ r.first = f /\ r.suffix = x

LEMMA StateIs ==
    ASSUME PathnameAssumption, NEW o \in PathObject, NEW f \in Nat, NEW x \in Nat
    PROVE  /\ IsState(State(o, "slash", f, x), o, "slash", f, x)
           /\ IsState(State(o, "component", f, x), o, "component", f, x)
           /\ IsState(State(o, "dot", f, x), o, "dot", f, x)
           /\ IsState(State(o, "double dot", f, x), o, "double dot", f, x)
BY DEF ParserState, State, Reading, IsState

LEMMA AbsoluteIs ==
    ASSUME PathnameAssumption, NEW w \in PathObject
    PROVE  LET o == [w EXCEPT !.comps = <<>>, !.up = UINT_MAX]
           IN  o \in PathObject /\ o.up = UINT_MAX /\ o.comps = <<>>
<1> DEFINE none == <<>>
<1>1. UINT_MAX \in 0..UINT_MAX /\ none \in Seq(PathComp)
  BY LevelBounds
<1> HIDE DEF none
<1> DEFINE o == [w EXCEPT !.comps = none, !.up = UINT_MAX]
<1>2. o \in PathObject /\ o.up = UINT_MAX /\ o.comps = none
  BY <1>1 DEF PathObject
<1> QED
  BY <1>2 DEF none

LEMMA ReadOn ==
    ASSUME PathnameAssumption, NEW s \in PathText, NEW i \in 1..Len(s), NEW q, ReadTo(s, i - 1, q), s[i] # Slash
    PROVE  ReadTo(s, i, Read(q, s, i)) /\ Read(q, s, i).path = q.path
<1> DEFINE r == Read(q, s, i)
           k == i - 1
<1>1. /\ Len(s) \in Nat /\ i \in Nat /\ i >= 1 /\ k \in Nat /\ k + 1 = i /\ i \in 1..Len(s)
  BY LenProperties DEF PathText
<1>2. ReadTo(s, k, q) /\ k = i - 1
  OBVIOUS
<1> HIDE DEF k, r
<1>3. /\ q \in ParserState /\ q.path \in PathObject /\ q.first \in Nat /\ q.suffix \in Nat
      /\ q = [path |-> q.path, at |-> q.at, first |-> q.first, suffix |-> q.suffix]
  BY <1>2 DEF ReadTo, ParserState
<1>4. Slash # Dot
  BY Specials
<1>5. CASE q.at \in {"start", "slash"}
  <2>1. i = 1 \/ s[i - 1] = Slash
    <3>1. CASE q.at = "start"
      BY <1>1, <1>2, <3>1 DEF ReadTo
    <3>2. CASE q.at = "slash"
      BY <1>2, <3>2 DEF ReadTo
    <3> QED
      BY <1>5, <3>1, <3>2
  <2>2. Open(s, i, i) /\ SuffixIs(s, i, i, 0)
    <3>1. i \in 1..i /\ \A j \in i..i : s[j] # Slash
      BY <1>1
    <3>2. \A j \in (i + 1)..i : s[j] # Dot
      BY <1>1
    <3> QED
      BY <2>1, <3>1, <3>2 DEF Open, SuffixIs
  <2>3. CASE s[i] = Dot
    <3>1. r = [q EXCEPT !.at = "dot", !.first = i, !.suffix = 0]
      BY <1>4, <1>5, <2>3 DEF Read, BeginDot, r
    <3>2. r = State(q.path, "dot", i, 0)
      BY <1>3, <3>1 DEF State
    <3>3. IsState(r, q.path, "dot", i, 0)
      BY <1>1, <1>3, <3>2, StateIs
    <3> QED
      BY <1>1, <1>3, <2>2, <2>3, <3>3 DEF ReadTo, Reading, IsState, r
  <2>4. CASE s[i] # Dot
    <3>1. r = [q EXCEPT !.at = "component", !.first = i, !.suffix = 0]
      BY <1>4, <1>5, <2>4 DEF Read, Begin, r
    <3>2. r = State(q.path, "component", i, 0)
      BY <1>3, <3>1 DEF State
    <3>3. IsState(r, q.path, "component", i, 0)
      BY <1>1, <1>3, <3>2, StateIs
    <3> QED
      BY <1>1, <1>3, <2>2, <2>4, <3>3 DEF ReadTo, Reading, IsState, r
  <2> QED
    BY <2>3, <2>4
<1>6. CASE q.at \in Reading
  <2>1. Open(s, q.first, i - 1) /\ SuffixIs(s, q.first, i - 1, q.suffix)
    BY <1>2, <1>6 DEF ReadTo
  <2>2. /\ Open(s, q.first, i) /\ q.first < i
        /\ s[i] # Dot => SuffixIs(s, q.first, i, q.suffix)
        /\ s[i] = Dot => SuffixIs(s, q.first, i, i)
    BY <1>1, <2>1, OpenMore
  <2>3. CASE q.at = "component"
    <3>0. ~(k = q.first /\ s[k] = Dot)
      BY <1>2, <2>3 DEF ReadTo
    <3>1. /\ ~(i = q.first /\ s[i] = Dot)
          /\ ~(i = q.first + 1 /\ s[i - 1] = Dot /\ s[i] = Dot)
      BY <1>1, <1>2, <1>3, <2>2, <3>0
    <3>2. CASE s[i] = Dot
      <4>1. r = [q EXCEPT !.suffix = i]
        BY <1>4, <2>3, <3>2 DEF Read, r
      <4>2. r = State(q.path, "component", q.first, i)
        BY <1>3, <2>3, <4>1 DEF State
      <4>3. IsState(r, q.path, "component", q.first, i)
        BY <1>1, <1>3, <4>2, StateIs
      <4> QED
        BY <1>1, <1>3, <2>2, <3>1, <3>2, <4>3 DEF ReadTo, Reading, IsState, r
    <3>3. CASE s[i] # Dot
      <4>1. r = q
        BY <1>4, <2>3, <3>3 DEF Read, r
      <4>2. r = State(q.path, "component", q.first, q.suffix)
        BY <1>3, <2>3, <4>1 DEF State
      <4>3. IsState(r, q.path, "component", q.first, q.suffix)
        BY <1>1, <1>3, <4>2, StateIs
      <4> QED
        BY <1>1, <1>3, <2>2, <3>1, <3>3, <4>3 DEF ReadTo, Reading, IsState, r
    <3> QED
      BY <3>2, <3>3
  <2>4. CASE q.at = "dot"
    <3>0. k = q.first /\ s[k] = Dot
      BY <1>2, <2>4 DEF ReadTo
    <3>1. i = q.first + 1 /\ s[i - 1] = Dot /\ i # q.first
      BY <1>1, <1>2, <1>3, <3>0
    <3>2. CASE s[i] = Dot
      <4>1. r = [q EXCEPT !.suffix = i, !.at = "double dot"]
        BY <1>4, <2>4, <3>2 DEF Read, r
      <4>2. r = State(q.path, "double dot", q.first, i)
        BY <1>3, <4>1 DEF State
      <4>3. IsState(r, q.path, "double dot", q.first, i)
        BY <1>1, <1>3, <4>2, StateIs
      <4> QED
        BY <1>1, <1>3, <2>2, <3>1, <3>2, <4>3 DEF ReadTo, Reading, IsState, r
    <3>3. CASE s[i] # Dot
      <4>1. r = [q EXCEPT !.at = "component"]
        BY <1>4, <2>4, <3>3 DEF Read, r
      <4>2. r = State(q.path, "component", q.first, q.suffix)
        BY <1>3, <4>1 DEF State
      <4>3. IsState(r, q.path, "component", q.first, q.suffix)
        BY <1>1, <1>3, <4>2, StateIs
      <4> QED
        BY <1>1, <1>3, <2>2, <3>1, <3>3, <4>3 DEF ReadTo, Reading, IsState, r
    <3> QED
      BY <3>2, <3>3
  <2>5. CASE q.at = "double dot"
    <3>0. k = q.first + 1
      BY <1>2, <2>5 DEF ReadTo
    <3>1. i # q.first /\ i # q.first + 1
      BY <1>1, <1>3, <3>0
    <3>2. CASE s[i] = Dot
      <4>1. r = [q EXCEPT !.suffix = i, !.at = "component"]
        BY <1>4, <2>5, <3>2 DEF Read, r
      <4>2. r = State(q.path, "component", q.first, i)
        BY <1>3, <4>1 DEF State
      <4>3. IsState(r, q.path, "component", q.first, i)
        BY <1>1, <1>3, <4>2, StateIs
      <4> QED
        BY <1>1, <1>3, <2>2, <3>1, <3>2, <4>3 DEF ReadTo, Reading, IsState, r
    <3>3. CASE s[i] # Dot
      <4>1. r = [q EXCEPT !.at = "component"]
        BY <1>4, <2>5, <3>3 DEF Read, r
      <4>2. r = State(q.path, "component", q.first, q.suffix)
        BY <1>3, <4>1 DEF State
      <4>3. IsState(r, q.path, "component", q.first, q.suffix)
        BY <1>1, <1>3, <4>2, StateIs
      <4> QED
        BY <1>1, <1>3, <2>2, <3>1, <3>3, <4>3 DEF ReadTo, Reading, IsState, r
    <3> QED
      BY <3>2, <3>3
  <2> QED
    BY <1>6, <2>3, <2>4, <2>5 DEF Reading
<1> QED
  BY <1>3, <1>5, <1>6 DEF ParserState

\* A separator at the beginning makes the pathname absolute.
LEMMA RootLeads ==
    ASSUME PathnameAssumption, NEW p \in PathObject, NEW r \in PathObject, r.up = UINT_MAX, r.comps = <<>>
    PROVE  Leads(p, <<Root>>, r)
<1> DEFINE e == <<>>
           v == <<Root>>
<1>1. e \in Seq(PathText) /\ e \in Seq(PathComp) /\ e \in Dirs /\ v = Append(e, Root)
  BY DEF Dirs
<1>2. NamesOf(r.comps) = e
  BY DEF NamesOf
<1> HIDE DEF e, v
<1>3. ASSUME NEW d \in Dirs
      PROVE  Denotes(d, r) = Walk(Denotes(d, p), v)
  <2> DEFINE g == Denotes(d, p)
  <2>1. g \in Dirs
    BY DenotesIs
  <2> HIDE DEF g
  <2>2. Walk(g, v) = Step(Walk(g, e), Root)
    BY <1>1, <2>1, Specials, WalkOn
  <2>3. Walk(g, e) \in Dirs
    BY <1>1, <2>1, WalkType
  <2>4. Walk(g, v) = e
    BY <2>2, <2>3, Specials, StepIs DEF e
  <2>5. Denotes(d, r) = e \o e
    BY <1>2, DenotesIs DEF BaseOf, e
  <2>6. e \o e = e
    BY <1>1, ConcatEmptySeq DEF e
  <2> QED
    BY <2>4, <2>5, <2>6 DEF g
<1> QED
  BY <1>3 DEF Leads, v

LEMMA ReadSlash ==
    ASSUME PathnameAssumption, NEW p \in PathObject, NEW s \in PathText, NEW i \in 1..Len(s), s[i] = Slash,
           NEW v \in Seq(PathText), NEW q, ReadTo(s, i - 1, q), Leads(p, v, q.path),
           p.up = UINT_MAX \/ p.up + Len(PiecesTo(s, i, v)) < UINT_MAX
    PROVE  /\ ReadTo(s, i, Read(q, s, i))
           /\ Leads(p, PiecesTo(s, i, v), Read(q, s, i).path)
<1> DEFINE r == Read(q, s, i)
<1>1. Len(s) \in Nat /\ i \in Nat /\ i >= 1 /\ i \in 1..(Len(s) + 1) /\ IsEnd(s, i)
  BY LenProperties DEF PathText, IsEnd
<1>2. /\ q \in ParserState /\ q.path \in PathObject /\ q.first \in Nat /\ q.suffix \in Nat
      /\ q = [path |-> q.path, at |-> q.at, first |-> q.first, suffix |-> q.suffix]
  BY DEF ReadTo, ParserState
<1>3. Slash # Dot
  BY Specials
<1> HIDE DEF r
<1>4. ASSUME NEW o \in PathObject, r = State(o, "slash", q.first, q.suffix)
      PROVE  ReadTo(s, i, r) /\ r.path = o
  <2>1. r \in ParserState /\ r.path = o /\ r.at = "slash"
    <3>1. IsState(r, o, "slash", q.first, q.suffix)
      BY <1>2, <1>4, StateIs
    <3> QED
      BY ONLY <3>1 DEF IsState
  <2>2. i > 0 /\ s[i] = Slash /\ r.at \notin Reading /\ r.at # "start" /\ r.at # "dot"
        /\ r.at # "double dot" /\ r.at # "component"
    BY <1>1, <2>1 DEF Reading
  <2> QED
    BY ONLY <2>1, <2>2 DEF ReadTo
<1>5. CASE q.at = "start"
  <2>1. i = 1 /\ s # <<>>
    BY <1>1, <1>5 DEF ReadTo
  <2>2. PiecesTo(s, i, v) = <<Root>>
    BY <1>1, <2>1 DEF PiecesTo
  <2> DEFINE o == [q.path EXCEPT !.comps = <<>>, !.up = UINT_MAX]
  <2>3. o \in PathObject /\ o.up = UINT_MAX /\ o.comps = <<>>
    BY <1>2, AbsoluteIs
  <2>4. r = [q EXCEPT !.path = o, !.at = "slash"]
    BY <1>3, <1>5 DEF Read, Absolute, r
  <2>5. r = State(o, "slash", q.first, q.suffix)
    <3> HIDE DEF o
    <3> QED
      BY <1>2, <2>4 DEF State
  <2> HIDE DEF o
  <2>6. ReadTo(s, i, r) /\ r.path = o
    BY <1>4, <2>3, <2>5
  <2> QED
    BY <2>2, <2>3, <2>6, RootLeads DEF r
<1>6. CASE q.at # "start"
  <2> DEFINE o == Closed(q, s, i)
  <2>1. Leads(p, PiecesTo(s, i, v), o)
    BY <1>1, <1>6, CloseIs
  <2>2. o \in PathObject
    BY <2>1 DEF Leads
  <2>3. r = State(o, "slash", q.first, q.suffix)
    <3>1. CASE q.at = "slash"
      BY <1>2, <1>3, <3>1 DEF Read, Closed, r, State
    <3>2. CASE q.at = "component"
      <4>1. r = [AppendComponent(q, s, i) EXCEPT !.at = "slash"]
        BY <1>3, <3>2 DEF Read, r
      <4>2. o = AppendComponent(q, s, i).path
        BY <3>2 DEF Closed
      <4> DEFINE a == AppendComponent(q, s, i)
      <4>3. /\ a = [path |-> a.path, at |-> a.at, first |-> a.first, suffix |-> a.suffix]
            /\ a.first = q.first /\ a.suffix = q.suffix
        <5> DEFINE name == SubSeq(s, q.first, i - 1)
                   c == [name |-> name, base |-> IF q.suffix = 0 THEN Len(name) ELSE q.suffix - q.first]
        <5>1. a = [q EXCEPT !.path.comps = Append(@, c)]
          BY DEF AppendComponent
        <5> HIDE DEF a, c
        <5> QED
          BY <1>2, <5>1
      <4> HIDE DEF a, o
      <4> QED
        BY <4>1, <4>2, <4>3 DEF a, State
    <3>3. CASE q.at = "dot"
      <4>1. r = [q EXCEPT !.at = "slash"]
        BY <1>3, <3>3 DEF Read, r
      <4>2. o = q.path
        BY <3>3 DEF Closed
      <4> HIDE DEF o
      <4> QED
        BY <1>2, <4>1, <4>2 DEF State
    <3>4. CASE q.at = "double dot"
      <4>1. r = [q EXCEPT !.path = GoUpOneLevel(@), !.at = "slash"]
        BY <1>3, <3>4 DEF Read, r
      <4>2. o = GoUpOneLevel(q.path)
        BY <3>4 DEF Closed
      <4> HIDE DEF o
      <4> QED
        BY <1>2, <4>1, <4>2 DEF State
    <3> QED
      BY <1>2, <1>6, <3>1, <3>2, <3>3, <3>4 DEF ParserState, Reading
  <2> HIDE DEF o
  <2>4. ReadTo(s, i, r) /\ r.path = o
    BY <1>4, <2>2, <2>3
  <2> QED
    BY <2>1, <2>4 DEF r
<1> QED
  BY <1>5, <1>6

LEMMA ReadLeads ==
    ASSUME PathnameAssumption, NEW p \in PathObject, NEW s \in PathText, NEW i \in 1..Len(s),
           NEW v \in Seq(PathText), NEW q, ReadTo(s, i - 1, q), Leads(p, v, q.path),
           p.up = UINT_MAX \/ p.up + Len(PiecesTo(s, i, v)) < UINT_MAX
    PROVE  /\ ReadTo(s, i, Read(q, s, i))
           /\ Leads(p, PiecesTo(s, i, v), Read(q, s, i).path)
<1>1. CASE s[i] = Slash
  BY <1>1, ReadSlash
<1>2. CASE s[i] # Slash
  <2>1. Len(s) \in Nat /\ i # Len(s) + 1
    BY LenProperties DEF PathText
  <2>2. PiecesTo(s, i, v) = v
    BY <1>2, <2>1 DEF PiecesTo, IsEnd
  <2> QED
    BY <1>2, <2>2, ReadOn
<1> QED
  BY <1>1, <1>2

LEMMA FileIsNothing ==
    ASSUME PathnameAssumption, NEW r \in PathObject, NEW b \in BOOLEAN
    PROVE  LET o == [r EXCEPT !.file = b]
           IN  /\ o \in PathObject /\ o.up = r.up /\ o.comps = r.comps
               /\ \A d \in Dirs : Denotes(d, o) = Denotes(d, r)
<1> DEFINE o == [r EXCEPT !.file = b]
<1>1. o \in PathObject /\ o.up = r.up /\ o.comps = r.comps
  BY DEF PathObject
<1> HIDE DEF o
<1>2. ASSUME NEW d \in Dirs
      PROVE  Denotes(d, o) = Denotes(d, r)
  BY <1>1, DenotesIs DEF BaseOf
<1> QED
  BY <1>1, <1>2 DEF o

LEMMA StartLeads ==
    ASSUME PathnameAssumption, NEW p \in PathObject, NEW s
    PROVE  LET q == Parser([p EXCEPT !.file = FALSE])
           IN  ReadTo(s, 0, q) /\ Leads(p, <<>>, q.path)
<1> DEFINE o == [p EXCEPT !.file = FALSE]
           q == Parser(o)
           none == <<>>
<1>1. /\ o \in PathObject /\ o.up = p.up /\ o.comps = p.comps
      /\ \A d \in Dirs : Denotes(d, o) = Denotes(d, p)
  BY FileIsNothing
<1> HIDE DEF o
<1>2. q.path = o /\ q.at = "start" /\ q \in ParserState
  BY <1>1 DEF Parser, ParserState
<1> HIDE DEF q
<1>3. ReadTo(s, 0, q)
  <2>1. q.at \notin Reading /\ q.at # "slash" /\ q.at # "dot" /\ q.at # "double dot" /\ q.at # "component"
    BY <1>2 DEF Reading
  <2> QED
    BY <1>2, <2>1 DEF ReadTo
<1>4. Len(none) = 0 /\ p.up \in Nat
  BY LevelBounds DEF PathObject
<1>5. ASSUME NEW d \in Dirs
      PROVE  Denotes(d, o) = Walk(Denotes(d, p), none)
  <2>1. Denotes(d, p) \in Dirs
    BY DenotesIs
  <2> DEFINE e == Denotes(d, p)
  <2> HIDE DEF e
  <2>2. Walk(e, <<>>) = e
    BY <2>1, WalkNowhere DEF e
  <2> QED
    BY <1>1, <2>2 DEF e
<1> HIDE DEF none
<1>6. Leads(p, none, o)
  BY <1>1, <1>4, <1>5 DEF Leads
<1> QED
  BY <1>2, <1>3, <1>6 DEF q, o, none

LEMMA FinishLeads ==
    ASSUME PathnameAssumption, NEW p \in PathObject, NEW s \in PathText, NEW v \in Seq(PathText), NEW q,
           ReadTo(s, Len(s), q), Leads(p, v, q.path), Len(s) = 0 => v = <<>>,
           p.up = UINT_MAX \/ p.up + Len(PiecesTo(s, Len(s) + 1, v)) < UINT_MAX
    PROVE  Leads(p, PiecesTo(s, Len(s) + 1, v), Finish(q, s))
<1> DEFINE N == Len(s) + 1
           w == PiecesTo(s, N, v)
           r == Finish(q, s)
<1>1. N \in Nat /\ N \in 1..N /\ N - 1 = Len(s) /\ IsEnd(s, N)
  BY LenProperties DEF PathText, IsEnd
<1>2. q \in ParserState /\ q.path \in PathObject
  BY DEF ReadTo, ParserState
<1>3. CASE q.at = "start"
  <2>1. Len(s) = 0
    BY <1>3 DEF ReadTo
  <2>2. s = <<>> /\ N = 1
    BY <2>1, EmptySeq DEF PathText
  <2>3. w = v
    BY <1>1, <2>1, <2>2 DEF PiecesTo
  <2>4. r = q.path
    BY <1>3 DEF Finish
  <2> QED
    BY <2>3, <2>4
<1>4. CASE q.at # "start"
  <2> DEFINE o == Closed(q, s, N)
  <2>1. Leads(p, w, o)
    <3>1. ReadTo(s, N - 1, q) /\ N \in 1..(Len(s) + 1)
      BY <1>1
    <3> HIDE DEF N
    <3> QED
      BY <1>1, <1>4, <3>1, CloseIs DEF N
  <2>2. CASE q.at = "component"
    <3>1. r = [o EXCEPT !.file = TRUE]
      BY <2>2 DEF Finish, Closed
    <3> HIDE DEF o, w, r
    <3>2. o \in PathObject
      BY <2>1 DEF Leads
    <3>3. /\ r \in PathObject /\ r.up = o.up
          /\ \A d \in Dirs : Denotes(d, r) = Denotes(d, o)
      BY <3>1, <3>2, FileIsNothing
    <3>4. Leads(p, w, r)
      BY <2>1, <3>3 DEF Leads
    <3> QED
      BY <3>4 DEF r, w
  <2>3. CASE q.at = "double dot"
    <3>1. r = o
      BY <2>3 DEF Finish, Closed
    <3> QED
      BY <2>1, <3>1
  <2>4. CASE q.at # "component" /\ q.at # "double dot"
    <3>1. r = o
      BY <2>4 DEF Finish, Closed
    <3> QED
      BY <2>1, <3>1
  <2> QED
    BY <2>2, <2>3, <2>4
<1> QED
  BY <1>3, <1>4

\* The parser takes an object to where the components of the string lead.
LEMMA JoinsString ==
    ASSUME PathnameAssumption, NEW p \in PathObject, NEW s \in PathText,
           p.up = UINT_MAX \/ p.up + Len(Split(s)) < UINT_MAX
    PROVE  Leads(p, Split(s), JoinString(p, s))
<1> DEFINE N == Len(s)
           start == Parser([p EXCEPT !.file = FALSE])
           IsRead(g) == g = [i \in 0..N |-> IF i = 0 THEN start ELSE Read(g[i - 1], s, i)]
           read == CHOOSE g : IsRead(g)
<1>1. N \in Nat
  BY LenProperties DEF PathText
<1>2. PICK f \in [0..(N + 1) -> Seq(PathText)] :
               /\ f[0] = <<>>
               /\ \A i \in 1..(N + 1) : f[i] = PiecesTo(s, i, f[i - 1])
               /\ \A i \in 1..(N + 1) : Len(f[i - 1]) <= Len(f[i])
               /\ Split(s) = f[N + 1]
  BY SplitIs
<1> HIDE DEF N, start
<1>3. \A i \in 0..(N + 1) : Len(f[i]) \in Nat /\ Len(f[i]) <= Len(f[N + 1])
  <2>1. N + 1 \in Nat
    BY <1>1
  <2>2. \A i \in 0..(N + 1) : Len(f[i]) <= Len(f[N + 1])
    BY <1>2, <2>1, PartsAreShorter
  <2>3. \A i \in 0..(N + 1) : Len(f[i]) \in Nat
    BY LenProperties
  <2> QED
    BY <2>2, <2>3
<1>4. p.up \in Nat /\ UINT_MAX \in Nat
  BY LevelBounds DEF PathObject
<1>5. ASSUME NEW i \in 1..(N + 1)
      PROVE  p.up = UINT_MAX \/ p.up + Len(PiecesTo(s, i, f[i - 1])) < UINT_MAX
  <2>1. i \in 0..(N + 1) /\ f[i] = PiecesTo(s, i, f[i - 1])
    BY <1>1, <1>2
  <2>2. Len(f[i]) \in Nat /\ Len(f[i]) <= Len(f[N + 1]) /\ Len(f[N + 1]) \in Nat
    BY <1>1, <1>3, <2>1
  <2>3. p.up = UINT_MAX \/ p.up + Len(f[N + 1]) < UINT_MAX
    BY <1>2
  <2> QED
    BY <1>4, <2>1, <2>2, <2>3
<1> DEFINE Good(i, q) == ReadTo(s, i, q) /\ Leads(p, f[i], q.path)
<1>6. Good(0, start)
  BY <1>2, StartLeads DEF start
<1>7. ASSUME NEW i \in 1..N, NEW q, Good(i - 1, q)
      PROVE  Good(i, Read(q, s, i))
  <2>1. i \in 1..(N + 1) /\ i - 1 \in 0..(N + 1) /\ i \in 1..Len(s)
    BY <1>1 DEF N
  <2>2. f[i - 1] \in Seq(PathText) /\ f[i] = PiecesTo(s, i, f[i - 1])
    BY <1>2, <2>1
  <2>3. p.up = UINT_MAX \/ p.up + Len(PiecesTo(s, i, f[i - 1])) < UINT_MAX
    BY <1>5, <2>1
  <2>4. ReadTo(s, i - 1, q) /\ Leads(p, f[i - 1], q.path)
    BY <1>7
  <2> DEFINE v == f[i - 1]
  <2> HIDE DEF v
  <2>5. /\ ReadTo(s, i, Read(q, s, i))
        /\ Leads(p, PiecesTo(s, i, v), Read(q, s, i).path)
    BY ONLY PathnameAssumption, <2>1, <2>2, <2>3, <2>4, ReadLeads, p \in PathObject, s \in PathText DEF v
  <2> QED
    BY <2>2, <2>5 DEF v
<1>8. IsRead(read)
  <2> DEFINE step == [x \in (1..N) \X ParserState |->
                         IF Good(x[1] - 1, x[2]) THEN Read(x[2], s, x[1]) ELSE x[2]]
  <2> HIDE DEF Good
  <2>1. start \in ParserState
    BY <1>6 DEF Good, ReadTo
  <2>2. ASSUME NEW i \in 1..N, NEW q \in ParserState
        PROVE  step[<<i, q>>] = (IF Good(i - 1, q) THEN Read(q, s, i) ELSE q)
    OBVIOUS
  <2>3. ASSUME NEW i \in 1..N, NEW q \in ParserState
        PROVE  (IF Good(i - 1, q) THEN Read(q, s, i) ELSE q) \in ParserState
    <3>1. Good(i, q) => q \in ParserState
      BY DEF Good, ReadTo
    <3>2. ASSUME Good(i - 1, q)
          PROVE  Read(q, s, i) \in ParserState
      <4>1. Good(i, Read(q, s, i))
        BY <1>7, <3>2
      <4> QED
        BY <4>1 DEF Good, ReadTo
    <3> QED
      BY <3>2
  <2>4. step \in [(1..N) \X ParserState -> ParserState]
    <3>1. \A x \in (1..N) \X ParserState :
              (IF Good(x[1] - 1, x[2]) THEN Read(x[2], s, x[1]) ELSE x[2]) \in ParserState
      BY <2>3
    <3> QED
      BY <3>1
  <2> HIDE DEF step
  <2>5. PICK g \in [0..N -> ParserState] : Recurs(g, start, N, step)
    BY <1>1, <2>1, <2>4, RecursionExists
  <2>6. g[0] = start /\ \A i \in 1..N : g[i] = step[<<i, g[i - 1]>>]
    <3>1. g = [i \in 0..N |-> IF i = 0 THEN start ELSE step[<<i, g[i - 1]>>]]
      BY <2>5 DEF Recurs
    <3>2. 0 \in 0..N /\ \A i \in 1..N : i \in 0..N /\ i # 0
      BY <1>1
    <3> QED
      BY ONLY <3>1, <3>2
  <2> DEFINE T == {i \in 0..N : Good(i, g[i])}
  <2>7. \A i \in 0..N : i \in T
    <3>1. 0 \in T
      BY <1>1, <1>6, <2>6
    <3>2. ASSUME NEW i \in 1..N, i - 1 \in T
          PROVE  i \in T
      <4>1. i - 1 \in 0..N /\ i \in 0..N /\ Good(i - 1, g[i - 1]) /\ g[i - 1] \in ParserState
        BY <1>1, <3>2
      <4>2. g[i] = Read(g[i - 1], s, i)
        BY <2>2, <2>6, <4>1
      <4>3. Good(i, Read(g[i - 1], s, i))
        BY <1>7, <4>1
      <4> QED
        BY <4>1, <4>2, <4>3
    <3> HIDE DEF T
    <3> QED
      BY <1>1, <3>1, <3>2, CountUp
  <2>8. ASSUME NEW i \in 1..N
        PROVE  g[i] = Read(g[i - 1], s, i)
    <3>1. i - 1 \in 0..N
      BY <1>1
    <3>2. Good(i - 1, g[i - 1]) /\ g[i - 1] \in ParserState
      BY <2>7, <3>1
    <3> QED
      BY <2>2, <2>6, <3>2
  <2>9. IsRead(g)
    <3>1. g = [i \in 0..N |-> g[i]]
      OBVIOUS
    <3>2. \A i \in 0..N : g[i] = IF i = 0 THEN start ELSE Read(g[i - 1], s, i)
      BY <1>1, <2>6, <2>8
    <3> QED
      BY <3>1, <3>2
  <2> HIDE DEF IsRead
  <2> QED
    BY <2>9
<1>9. JoinString(p, s) = Finish(read[N], s)
  BY DEF JoinString, N, start
<1> HIDE DEF read
<1>10. read[0] = start /\ \A i \in 1..N : read[i] = Read(read[i - 1], s, i)
  BY <1>1, <1>8
<1> HIDE DEF IsRead
<1> DEFINE T == {i \in 0..N : Good(i, read[i])}
<1>11. \A i \in 0..N : i \in T
  <2> HIDE DEF Good
  <2>1. 0 \in T
    BY <1>1, <1>6, <1>10
  <2>2. ASSUME NEW i \in 1..N, i - 1 \in T
        PROVE  i \in T
    <3>1. Good(i - 1, read[i - 1]) /\ i \in 0..N
      BY <1>1, <2>2
    <3>2. Good(i, Read(read[i - 1], s, i))
      BY <1>7, <3>1
    <3> QED
      BY <1>10, <3>1, <3>2
  <2> HIDE DEF T
  <2> QED
    BY <1>1, <2>1, <2>2, CountUp
<1>12. Good(N, read[N])
  <2> HIDE DEF Good
  <2> QED
    BY <1>1, <1>11
<1> DEFINE q == read[N]
           v == f[N]
<1>13. /\ ReadTo(s, Len(s), q) /\ Leads(p, v, q.path) /\ v \in Seq(PathText)
       /\ Len(s) = 0 => v = <<>>
       /\ p.up = UINT_MAX \/ p.up + Len(PiecesTo(s, Len(s) + 1, v)) < UINT_MAX
       /\ Split(s) = PiecesTo(s, Len(s) + 1, v)
  <2>1. N + 1 \in 1..(N + 1) /\ N \in 0..(N + 1) /\ (N + 1) - 1 = N
    BY <1>1
  <2>2. p.up = UINT_MAX \/ p.up + Len(PiecesTo(s, N + 1, f[(N + 1) - 1])) < UINT_MAX
    BY <1>5, <2>1
  <2>3. f[N + 1] = PiecesTo(s, N + 1, f[(N + 1) - 1])
    BY <1>2, <2>1
  <2> QED
    BY <1>2, <1>12, <2>1, <2>2, <2>3 DEF N
<1> HIDE DEF q, v
<1>14. Leads(p, PiecesTo(s, Len(s) + 1, v), Finish(q, s))
  BY <1>13, FinishLeads
<1> QED
  BY <1>9, <1>13, <1>14 DEF q

-----------------------------------------------------------------------------
(* The object p is what the components t make.                             *)
Made(p, t) ==
    /\ p \in PathObject
    /\ p.up \in 0..MaxLevels \cup {UINT_MAX}
    /\ t \in Seq(PathText) /\ Len(t) <= MaxText
    /\ \A d \in Dirs : Denotes(d, p) = Walk(d, t)

PathInv ==
    /\ paths \in [Objects -> PathObject]
    /\ text \in [Objects -> Seq(PathText)]
    /\ \A o \in Objects : Made(paths[o], text[o])

LEMMA StringsAreText ==
    ASSUME PathnameAssumption, NEW s \in Strings
    PROVE  s \in PathText
<1>1. s \in Seq(Range(s))
  BY DEF PathnameAssumption
<1>2. \A i \in 1..Len(s) : s[i] \in Range(s)
  BY <1>1, ElementOfSeq
<1>3. \A i \in 1..Len(s) : s[i] \in PathChar
  BY <1>2 DEF PathChar
<1> QED
  BY <1>1, <1>3, LenProperties, SequenceIs DEF PathText

LEMMA SplitType ==
    ASSUME PathnameAssumption, NEW s \in PathText
    PROVE  Split(s) \in Seq(PathText)
<1>1. PICK f \in [0..(Len(s) + 1) -> Seq(PathText)] : Split(s) = f[Len(s) + 1]
  BY SplitIs
<1>2. Len(s) + 1 \in 0..(Len(s) + 1)
  BY LenProperties DEF PathText
<1> QED
  BY <1>1, <1>2

\* What has been made leads on, and the outcome is made of more components.
LEMMA LeadsMade ==
    ASSUME PathnameAssumption, NEW p, NEW t, Made(p, t), NEW v \in Seq(PathText), NEW r, Leads(p, v, r),
           Len(t \o v) <= MaxText, r.up \in 0..MaxLevels \cup {UINT_MAX}
    PROVE  Made(r, t \o v)
<1>1. t \o v \in Seq(PathText)
  BY ConcatProperties DEF Made
<1>2. ASSUME NEW d \in Dirs
      PROVE  Denotes(d, r) = Walk(d, t \o v)
  <2>1. Denotes(d, r) = Walk(Denotes(d, p), v)
    BY DEF Leads
  <2>2. Denotes(d, p) = Walk(d, t)
    BY DEF Made
  <2> QED
    BY <2>1, <2>2, WalkFurther DEF Made
<1> QED
  BY <1>1, <1>2 DEF Made, Leads

LEMMA NothingMade ==
    ASSUME PathnameAssumption, NEW p \in PathObject, p.up = 0, p.comps = <<>>
    PROVE  /\ Made(p, <<>>)
           /\ \A d \in Dirs : Denotes(d, p) = d
<1> DEFINE none == <<>>
<1>1. none \in Seq(PathText) /\ Len(none) = 0 /\ none \in Seq(PathComp) /\ p.comps = none
  OBVIOUS
<1>2. NamesOf(none) = none
  BY DEF NamesOf
<1> HIDE DEF none
<1>3. ASSUME NEW d \in Dirs
      PROVE  Denotes(d, p) = d /\ Walk(d, none) = d
  <2>1. Denotes(d, p) = GoneUp(d, 0) \o none
    <3>1. BaseOf(d, p) = GoneUp(d, 0)
      BY LevelBounds DEF BaseOf
    <3>2. Denotes(d, p) = BaseOf(d, p) \o NamesOf(p.comps)
      BY DenotesIs
    <3> QED
      BY <1>1, <1>2, <3>1, <3>2
  <2>2. GoneUp(d, 0) = d
    BY UpNone DEF Dirs
  <2>3. d \o none = d
    BY ConcatEmptySeq DEF none, Dirs
  <2> QED
    BY <2>1, <2>2, <2>3, WalkNowhere DEF none
<1> QED
  BY <1>1, <1>3, LevelBounds DEF Made, none

-----------------------------------------------------------------------------
LEMMA PathStarts == ASSUME PathnameAssumption, Init PROVE PathInv
<1>1. Empty \in PathObject /\ Empty.up = 0 /\ Empty.comps = <<>>
  BY LevelBounds DEF Empty, PathObject
<1>2. Made(Empty, <<>>)
  BY <1>1, NothingMade
<1> QED
  BY <1>1, <1>2 DEF Init, PathInv

LEMMA PathStays == ASSUME PathnameAssumption, PathInv, UNCHANGED <<paths, text>> PROVE PathInv'
BY DEF PathInv, Made

LEMMA PathChanges ==
    ASSUME PathnameAssumption, PathInv, NEW o \in Objects, NEW p, NEW t, Made(p, t),
           paths' = [paths EXCEPT ![o] = p], text' = [text EXCEPT ![o] = t]
    PROVE  PathInv'
<1>1. p \in PathObject /\ t \in Seq(PathText)
  BY DEF Made
<1>2. paths' \in [Objects -> PathObject] /\ text' \in [Objects -> Seq(PathText)]
  BY <1>1 DEF PathInv
<1>3. ASSUME NEW k \in Objects
      PROVE  Made(paths'[k], text'[k])
  BY DEF PathInv
<1>4. \A k \in Objects : Made(paths'[k], text'[k])
  BY <1>3
<1> QED
  BY <1>2, <1>4 DEF PathInv, Made

LEMMA PathUpdates ==
    ASSUME PathnameAssumption, PathInv, NEW o \in Objects, NEW p, NEW t, NEW b,
           Update(o, p, t, b),
           Len(t) <= MaxText /\ p.up \in 0..MaxLevels \cup {UINT_MAX} => Made(p, t)
    PROVE  PathInv'
BY PathChanges, LevelBounds DEF Update

LEMMA PathSharesWith ==
    ASSUME PathnameAssumption, PathInv, NEW o \in Objects, NEW r, NEW p, NEW t,
           ShareWith(o, r, p, t),
           Len(t) <= MaxText /\ p.up \in 0..MaxLevels \cup {UINT_MAX} => Made(p, t)
    PROVE  PathInv'
BY PathChanges, LevelBounds DEF ShareWith

LEMMA AssignStringKeeps ==
    ASSUME PathnameAssumption, PathInv, NEW o \in Objects, NEW s \in Strings, AssignString(o, s)
    PROVE  PathInv'
<1> DEFINE p == [paths[o] EXCEPT !.up = 0, !.comps = <<>>]
           t == Split(s)
           r == JoinString(p, s)
<1>1. paths[o] \in PathObject
  BY DEF PathInv
<1>2. p \in PathObject /\ p.up = 0 /\ p.comps = <<>>
  <2>1. <<>> \in Seq(PathComp) /\ 0 \in 0..UINT_MAX
    BY LevelBounds
  <2> QED
    BY <1>1, <2>1 DEF PathObject
<1>3. s \in PathText
  BY StringsAreText
<1>4. t \in Seq(PathText)
  BY <1>3, SplitType
<1>5. Update(o, r, t, TRUE)
  BY DEF AssignString
<1> HIDE DEF p, t
<1>6. ASSUME Len(t) <= MaxText, r.up \in 0..MaxLevels \cup {UINT_MAX}
      PROVE  Made(r, t)
  <2>1. p.up + Len(t) < UINT_MAX
    BY <1>2, <1>4, <1>6, LevelBounds, LenProperties
  <2>2. Leads(p, t, r)
    BY <1>2, <1>3, <2>1, JoinsString DEF t
  <2>3. <<>> \o t = t
    BY <1>4, ConcatEmptySeq
  <2>4. Made(p, <<>>)
    BY <1>2, NothingMade
  <2> DEFINE none == <<>>
  <2>5. none \o t = t /\ Made(p, none)
    BY <2>3, <2>4
  <2> HIDE DEF none
  <2> QED
    BY <1>4, <1>6, <2>2, <2>5, LeadsMade
<1> HIDE DEF r
<1> QED
  BY <1>5, <1>6, PathUpdates

LEMMA JoinWithStringKeeps ==
    ASSUME PathnameAssumption, PathInv, NEW o \in Objects, NEW s \in Strings, JoinWithString(o, s)
    PROVE  PathInv'
<1> DEFINE p == paths[o]
           t == text[o]
           v == Split(s)
           r == JoinString(p, s)
<1>1. Made(p, t)
  BY DEF PathInv
<1>2. s \in PathText
  BY StringsAreText
<1>3. v \in Seq(PathText)
  BY <1>2, SplitType
<1>4. Update(o, r, t \o v, HasNames(s))
  BY DEF JoinWithString
<1> HIDE DEF p, t, v
<1>5. ASSUME Len(t \o v) <= MaxText, r.up \in 0..MaxLevels \cup {UINT_MAX}
      PROVE  Made(r, t \o v)
  <2>1. p \in PathObject /\ (p.up = UINT_MAX \/ p.up + Len(v) < UINT_MAX)
    BY <1>1, <1>3, <1>5, LevelBounds, LenProperties, ConcatProperties DEF Made
  <2>2. Leads(p, v, r)
    BY <1>2, <2>1, JoinsString DEF v
  <2> QED
    BY <1>1, <1>3, <1>5, <2>2, LeadsMade
<1> HIDE DEF r
<1> QED
  BY <1>4, <1>5, PathUpdates

LEMMA AssignPathKeeps ==
    ASSUME PathnameAssumption, PathInv, NEW o \in Objects, NEW r \in Objects, AssignPath(o, r)
    PROVE  PathInv'
<1>1. Made(paths[r], text[r])
  BY DEF PathInv
<1> QED
  BY <1>1, PathSharesWith DEF AssignPath

LEMMA JoinWithPathKeeps ==
    ASSUME PathnameAssumption, PathInv, NEW o \in Objects, NEW r \in Objects, JoinWithPath(o, r)
    PROVE  PathInv'
<1> DEFINE p == paths[o]
           rhs == paths[r]
           t == text[o]
           v == text[r]
           j == JoinPath(p, rhs)
<1>1. Made(p, t) /\ Made(rhs, v)
  BY DEF PathInv
<1>2. (\E b : Update(o, j, t \o v, b)) \/ ShareWith(o, r, j, t \o v)
  BY DEF JoinWithPath
<1> HIDE DEF p, rhs, t, v
<1>3. ASSUME Len(t \o v) <= MaxText, j.up \in 0..MaxLevels \cup {UINT_MAX}
      PROVE  Made(j, t \o v)
  <2>1. p \in PathObject /\ rhs \in PathObject /\ t \in Seq(PathText) /\ v \in Seq(PathText)
    BY <1>1 DEF Made
  <2>2. rhs.up = UINT_MAX \/ p.up = UINT_MAX \/ p.up + rhs.up < UINT_MAX
    BY <1>1, LevelBounds DEF Made
  <2>3. j \in PathObject
    BY <2>1, <2>2, JoinsPaths
  <2>4. ASSUME NEW d \in Dirs
        PROVE  Denotes(d, j) = Walk(d, t \o v)
    <3>1. Denotes(d, p) \in Dirs
      BY <2>1, DenotesIs
    <3>2. Denotes(d, j) = Denotes(Denotes(d, p), rhs)
      BY <2>1, <2>2, JoinsPaths
    <3>3. Denotes(Denotes(d, p), rhs) = Walk(Denotes(d, p), v)
      BY <1>1, <3>1 DEF Made
    <3>4. Denotes(d, p) = Walk(d, t)
      BY <1>1 DEF Made
    <3> QED
      BY <2>1, <3>2, <3>3, <3>4, WalkFurther
  <2>5. t \o v \in Seq(PathText)
    BY <2>1, ConcatProperties
  <2> QED
    BY <1>3, <2>3, <2>4, <2>5 DEF Made
<1> HIDE DEF j
<1>4. CASE ShareWith(o, r, j, t \o v)
  BY <1>3, <1>4, PathSharesWith
<1>5. CASE \E b : Update(o, j, t \o v, b)
  <2>1. PICK b : Update(o, j, t \o v, b)
    BY <1>5
  <2> QED
    BY <1>3, <2>1, PathUpdates
<1> QED
  BY <1>2, <1>4, <1>5

\* Components that one goes up, one at a time.
LEMMA GoneUpMade ==
    ASSUME PathnameAssumption, NEW p, NEW t, Made(p, t), NEW n \in Nat, NEW v \in Seq(PathText),
           \A d \in Dirs : Walk(d, v) = GoneUp(d, n),
           NEW r \in PathObject, \A d \in Dirs : Denotes(d, r) = GoneUp(Denotes(d, p), n),
           Len(t \o v) <= MaxText, r.up \in 0..MaxLevels \cup {UINT_MAX}
    PROVE  Made(r, t \o v)
<1>1. t \o v \in Seq(PathText)
  BY ConcatProperties DEF Made
<1>2. ASSUME NEW d \in Dirs
      PROVE  Denotes(d, r) = Walk(d, t \o v)
  <2>1. Denotes(d, p) \in Dirs
    BY DenotesIs DEF Made
  <2>2. Denotes(d, p) = Walk(d, t)
    BY DEF Made
  <2> QED
    BY <2>1, <2>2, WalkFurther DEF Made
<1> QED
  BY <1>1, <1>2 DEF Made

LEMMA GoOneUpKeeps ==
    ASSUME PathnameAssumption, PathInv, NEW o \in Objects, GoOneUp(o)
    PROVE  PathInv'
<1> DEFINE p == paths[o]
           t == text[o]
           v == <<DoubleDot>>
           r == GoUpOneLevel(p)
<1>1. Made(p, t)
  BY DEF PathInv
<1>2. Update(o, r, t \o v, FALSE)
  BY DEF GoOneUp
<1>3. v \in Seq(PathText) /\ Len(v) = 1
  BY Specials
<1>4. \A d \in Dirs : Walk(d, v) = GoneUp(d, 1)
  <2>1. DoubleDots(1) = v
    BY DEF DoubleDots
  <2> HIDE DEF v
  <2> QED
    BY <2>1, WalkUps
<1> HIDE DEF p, t, v
<1>5. ASSUME Len(t \o v) <= MaxText, r.up \in 0..MaxLevels \cup {UINT_MAX}
      PROVE  Made(r, t \o v)
  <2>1. p \in PathObject /\ (p.up = UINT_MAX \/ p.up + 1 < UINT_MAX)
    <3>1. Len(t \o v) = Len(t) + Len(v) /\ Len(t) \in Nat
      BY <1>1, <1>3, LenProperties, ConcatProperties DEF Made
    <3>2. p \in PathObject /\ p.up \in 0..MaxLevels \cup {UINT_MAX}
      BY <1>1 DEF Made
    <3>3. 1 <= MaxText
      BY <1>3, <1>5, <3>1, LevelBounds
    <3> QED
      BY <3>2, <3>3, LevelBounds
  <2>2. r \in PathObject /\ \A d \in Dirs : Denotes(d, r) = GoneUp(Denotes(d, p), 1)
    BY <2>1, GoUpOneIs
  <2> QED
    BY <1>1, <1>3, <1>4, <1>5, <2>2, GoneUpMade
<1> HIDE DEF r
<1> QED
  BY <1>2, <1>5, PathUpdates

LEMMA GoLevelsUpKeeps ==
    ASSUME PathnameAssumption, PathInv, NEW o \in Objects, NEW n \in 0..MaxLevels, GoLevelsUp(o, n)
    PROVE  PathInv'
<1> DEFINE p == paths[o]
           t == text[o]
           v == DoubleDots(n)
           r == GoUp(p, n)
<1>1. Made(p, t)
  BY DEF PathInv
<1>2. Update(o, r, t \o v, FALSE)
  BY DEF GoLevelsUp
<1>3. n \in Nat /\ n <= MaxLevels
  BY LevelBounds
<1>4. v \in Seq(PathText)
  <2> DEFINE none == <<>>
  <2>1. none \in Dirs
    BY DEF Dirs
  <2> HIDE DEF none
  <2> QED
    BY <1>3, <2>1, WalkUps
<1>5. \A d \in Dirs : Walk(d, v) = GoneUp(d, n)
  BY <1>3, WalkUps
<1> HIDE DEF p, t, v
<1>6. ASSUME Len(t \o v) <= MaxText, r.up \in 0..MaxLevels \cup {UINT_MAX}
      PROVE  Made(r, t \o v)
  <2>1. p \in PathObject /\ (p.up = UINT_MAX \/ p.up + n < UINT_MAX)
    BY <1>1, <1>3, LevelBounds DEF Made
  <2>2. GoUpGives(p, n, r)
    BY <1>3, <2>1, GoUpIs
  <2>3. r \in PathObject
    BY <2>2 DEF GoUpGives
  <2>4. \A d \in Dirs : Denotes(d, r) = GoneUp(Denotes(d, p), n)
    BY <1>3, <2>1, <2>2, GoesUp
  <2> QED
    BY <1>1, <1>3, <1>4, <1>5, <1>6, <2>3, <2>4, GoneUpMade
<1> HIDE DEF r
<1> QED
  BY <1>2, <1>6, PathUpdates

LEMMA MadeIsBounded ==
    ASSUME PathnameAssumption, NEW p, NEW t, Made(p, t)
    PROVE  Bounded(p)
<1>1. Len(p.comps) <= Len(t)
  BY ComponentsBounded DEF Made
<1>2. Len(p.comps) \in Nat /\ Len(t) \in Nat
  BY LenProperties DEF Made, PathObject
<1> QED
  BY <1>1, <1>2, LevelBounds DEF Made, Bounded

LEMMA MakeRelativeKeeps ==
    ASSUME PathnameAssumption, PathInv, NEW o \in Objects, NEW r \in Objects, NEW base \in Objects,
           MakeRelative(o, r, base)
    PROVE  PathInv'
<1> DEFINE p == RelativeTo(paths[r], paths[base])
           t == DoubleDots(p.up) \o Names(p)
<1>1. Bounded(paths[r]) /\ Bounded(paths[base])
  BY MadeIsBounded DEF PathInv
<1>2. Relatable(paths[r], paths[base])
  BY DEF MakeRelative
<1>3. (\E b : Update(o, p, t, b)) \/ ShareWith(o, r, p, t)
  BY DEF MakeRelative
<1>4. p \in PathObject /\ p.up # UINT_MAX
  BY <1>1, <1>2, RelativeToIs
<1> HIDE DEF p
<1>5. t \in Seq(PathText) /\ \A d \in Dirs : Denotes(d, p) = Walk(d, t)
  BY <1>4, RelativeMeans
<1> HIDE DEF t
<1>6. ASSUME Len(t) <= MaxText, p.up \in 0..MaxLevels \cup {UINT_MAX}
      PROVE  Made(p, t)
  BY <1>4, <1>5, <1>6 DEF Made
<1>7. CASE ShareWith(o, r, p, t)
  BY <1>6, <1>7, PathSharesWith
<1>8. CASE \E b : Update(o, p, t, b)
  <2>1. PICK b : Update(o, p, t, b)
    BY <1>8
  <2> QED
    BY <1>6, <2>1, PathUpdates
<1> QED
  BY <1>3, <1>7, <1>8

LEMMA PathKeeps == ASSUME PathnameAssumption, PathInv, Next PROVE PathInv'
<1>1. PICK o \in Objects :
          \/ \E s \in Strings : AssignString(o, s) \/ JoinWithString(o, s)
          \/ \E r \in Objects : AssignPath(o, r) \/ JoinWithPath(o, r)
          \/ GoOneUp(o)
          \/ \E n \in 0..MaxLevels : GoLevelsUp(o, n)
          \/ \E r, base \in Objects : MakeRelative(o, r, base)
  BY DEF Next
<1>2. CASE \E s \in Strings : AssignString(o, s) \/ JoinWithString(o, s)
  BY <1>2, AssignStringKeeps, JoinWithStringKeeps
<1>3. CASE \E r \in Objects : AssignPath(o, r) \/ JoinWithPath(o, r)
  BY <1>3, AssignPathKeeps, JoinWithPathKeeps
<1>4. CASE GoOneUp(o)
  BY <1>4, GoOneUpKeeps
<1>5. CASE \E n \in 0..MaxLevels : GoLevelsUp(o, n)
  BY <1>5, GoLevelsUpKeeps
<1>6. CASE \E r, base \in Objects : MakeRelative(o, r, base)
  BY <1>6, MakeRelativeKeeps
<1> QED
  BY <1>1, <1>2, <1>3, <1>4, <1>5, <1>6

-----------------------------------------------------------------------------
\* In a directory of three dots, PathMeansText follows the components.
LEMMA DirectoriesAre == ASSUME PathnameAssumption PROVE Directories \subseteq Dirs
<1> DEFINE dots == <<Dot, Dot, Dot>>
<1>1. dots \in PathText
  <2>1. Dot \in PathChar
    BY DEF PathChar
  <2> QED
    BY <2>1 DEF PathText
<1> HIDE DEF dots
<1>2. ASSUME NEW n \in 0..(MaxLevels + 1)
      PROVE  [i \in 1..n |-> dots] \in Dirs
  <2>1. n \in Nat
    BY LevelBounds
  <2> QED
    BY <1>1, <2>1 DEF Dirs
<1> QED
  BY <1>2 DEF Directories, dots

-----------------------------------------------------------------------------
(* str()                                                                   *)

\* One more piece, behind a separator
Further(v, c) == v \o <<Slash>> \o c
JoinedTo(i, v, c) == IF i = 1 THEN c ELSE Further(v, c)

LEMMA FurtherIs ==
    ASSUME PathnameAssumption, NEW v \in PathText, NEW c \in PathText
    PROVE  /\ Further(v, c) \in PathText
           /\ Len(Further(v, c)) = Len(v) + 1 + Len(c)
           /\ \A k \in 1..Len(v) : Further(v, c)[k] = v[k]
           /\ Further(v, c)[Len(v) + 1] = Slash
           /\ \A k \in 1..Len(c) : Further(v, c)[Len(v) + 1 + k] = c[k]
<1> DEFINE root == <<Slash>>
           a == v \o root
           w == a \o c
<1>1. root \in Seq(PathChar) /\ Len(root) = 1 /\ root[1] = Slash
  BY Specials DEF Root, PathText
<1>2. Len(v) \in Nat /\ Len(c) \in Nat /\ v \in Seq(PathChar) /\ c \in Seq(PathChar)
  BY LenProperties DEF PathText
<1> HIDE DEF root
<1>3. /\ a \in Seq(PathChar) /\ Len(a) = Len(v) + 1
      /\ \A k \in 1..Len(v) + 1 : a[k] = IF k <= Len(v) THEN v[k] ELSE root[k - Len(v)]
  <2>1. /\ a \in Seq(PathChar) /\ Len(a) = Len(v) + Len(root)
        /\ \A k \in 1..Len(v) + Len(root) : a[k] = IF k <= Len(v) THEN v[k] ELSE root[k - Len(v)]
    BY <1>1, <1>2, ConcatProperties
  <2> HIDE DEF a
  <2> QED
    BY <1>1, <2>1
<1> HIDE DEF a
<1>4. /\ w \in Seq(PathChar) /\ Len(w) = Len(v) + 1 + Len(c)
      /\ \A k \in 1..Len(v) + 1 + Len(c) : w[k] = IF k <= Len(v) + 1 THEN a[k] ELSE c[k - (Len(v) + 1)]
  BY <1>2, <1>3, ConcatProperties
<1>5. Further(v, c) = w
  BY DEF Further, w, a, root
<1> HIDE DEF w
<1>6. \A k \in 1..Len(v) : w[k] = v[k]
  BY <1>2, <1>3, <1>4
<1>7. w[Len(v) + 1] = Slash
  <2>1. Len(v) + 1 \in 1..Len(v) + 1 /\ Len(v) + 1 \in 1..Len(v) + 1 + Len(c)
    BY <1>2
  <2>2. w[Len(v) + 1] = a[Len(v) + 1] /\ a[Len(v) + 1] = root[1]
    BY <1>2, <1>3, <1>4, <2>1
  <2> QED
    BY <1>1, <2>2
<1>8. ASSUME NEW k \in 1..Len(c)
      PROVE  w[Len(v) + 1 + k] = c[k]
  <2>1. /\ Len(v) + 1 + k \in 1..Len(v) + 1 + Len(c) /\ ~(Len(v) + 1 + k <= Len(v) + 1)
        /\ (Len(v) + 1 + k) - (Len(v) + 1) = k
    BY <1>2
  <2> QED
    BY <1>4, <2>1
<1> QED
  BY <1>4, <1>5, <1>6, <1>7, <1>8 DEF PathText

LEMMA JoinedIs ==
    ASSUME PathnameAssumption, NEW ps \in Seq(PathText)
    PROVE  \E f \in [0..Len(ps) -> PathText] :
               /\ f[0] = <<>>
               /\ \A i \in 1..Len(ps) : f[i] = JoinedTo(i, f[i - 1], ps[i])
               /\ Joined(ps) = f[Len(ps)]
<1> DEFINE N == Len(ps)
           none == <<>>
           step == [x \in (1..N) \X PathText |-> JoinedTo(x[1], x[2], ps[x[1]])]
           IsJoined(f) == f = [i \in 0..N |-> IF i = 0 THEN <<>>
                                              ELSE IF i = 1 THEN ps[1]
                                              ELSE f[i - 1] \o <<Slash>> \o ps[i]]
           joined == CHOOSE f : IsJoined(f)
<1>1. N \in Nat /\ none \in PathText /\ \A i \in 1..N : ps[i] \in PathText
  BY LenProperties, ElementOfSeq DEF PathText
<1> HIDE DEF N
<1>2. \A i \in 1..N, v \in PathText : JoinedTo(i, v, ps[i]) \in PathText
  BY <1>1, FurtherIs DEF JoinedTo
<1>3. step \in [(1..N) \X PathText -> PathText]
  BY <1>2
<1>4. \A i \in 1..N, v \in PathText : step[<<i, v>>] = JoinedTo(i, v, ps[i])
  OBVIOUS
<1> HIDE DEF step
<1>5. PICK f \in [0..N -> PathText] : Recurs(f, none, N, step)
  <2> HIDE DEF none
  <2> QED
    BY <1>1, <1>3, RecursionExists
<1>6. IsJoined(f)
  <2>1. ASSUME NEW i \in 0..N, i # 0
        PROVE  step[<<i, f[i - 1]>>] = JoinedTo(i, f[i - 1], ps[i])
    <3>1. i \in 1..N /\ f[i - 1] \in PathText
      BY <1>1, <2>1
    <3> QED
      BY <1>4, <3>1
  <2>2. f = [i \in 0..N |-> IF i = 0 THEN none ELSE JoinedTo(i, f[i - 1], ps[i])]
    <3>1. f = [i \in 0..N |-> IF i = 0 THEN none ELSE step[<<i, f[i - 1]>>]]
      BY <1>5 DEF Recurs
    <3> HIDE DEF none
    <3> QED
      BY <2>1, <3>1
  <2> QED
    BY <2>2, Zenon DEF JoinedTo, Further
<1>7. IsJoined(joined)
  <2> HIDE DEF IsJoined
  <2> QED
    BY <1>6
<1>8. Joined(ps) = joined[N]
  BY DEF Joined, N
<1> HIDE DEF joined
<1>9. joined[0] = none /\ \A i \in 1..N : joined[i] = JoinedTo(i, joined[i - 1], ps[i])
  <2>1. joined = [i \in 0..N |-> IF i = 0 THEN none ELSE JoinedTo(i, joined[i - 1], ps[i])]
    BY <1>7, Zenon DEF JoinedTo, Further
  <2> HIDE DEF IsJoined, none
  <2> QED
    BY <1>1, <2>1
<1> DEFINE T == {i \in 0..N : joined[i] \in PathText}
<1>10. 0 \in T
  BY <1>1, <1>9
<1>11. ASSUME NEW i \in 1..N, i - 1 \in T
       PROVE  i \in T
  <2>1. joined[i] = JoinedTo(i, joined[i - 1], ps[i]) /\ i \in 0..N
    BY <1>1, <1>9
  <2> QED
    BY <1>2, <1>11, <2>1
<1>12. \A i \in 0..N : i \in T
  <2> HIDE DEF T
  <2> QED
    BY <1>1, <1>10, <1>11, CountUp
<1>13. joined = [i \in 0..N |-> joined[i]]
  <2>1. joined = [i \in 0..N |-> IF i = 0 THEN none ELSE JoinedTo(i, joined[i - 1], ps[i])]
    BY <1>7, Zenon DEF JoinedTo, Further
  <2> HIDE DEF IsJoined, none
  <2> QED
    BY <2>1
<1> HIDE DEF IsJoined
<1>14. joined \in [0..N -> PathText]
  BY <1>12, <1>13
<1> QED
  BY <1>8, <1>9, <1>14 DEF N

\* The pieces ps lie in s one behind the other: from o on, piece i is what is
\* between the places e[i - 1] and e[i], and there are separators between them.
Cuts(s, o, ps, k, e) ==
    /\ e \in [0..k -> 0..(Len(s) + 1)]
    /\ e[0] = o /\ e[k] = Len(s) + 1
    /\ \A i \in 1..k :
           /\ e[i] = e[i - 1] + Len(ps[i]) + 1
           /\ \A c \in 1..Len(ps[i]) : s[e[i - 1] + c] = ps[i][c]
           /\ i < k => s[e[i]] = Slash

LEMMA CutsFirst ==
    ASSUME PathnameAssumption, NEW ps \in Seq(PathText), Len(ps) > 0
    PROVE  \E e : Cuts(ps[1], 0, ps, 1, e)
<1> DEFINE s == ps[1]
           e == [i \in 0..1 |-> IF i = 0 THEN 0 ELSE Len(s) + 1]
<1>1. Len(ps) \in Nat /\ s \in PathText
  BY LenProperties, ElementOfSeq
<1>2. Len(s) \in Nat
  BY <1>1, LenProperties DEF PathText
<1> HIDE DEF s
<1>3. e \in [0..1 -> 0..(Len(s) + 1)] /\ e[0] = 0 /\ e[1] = Len(s) + 1
  BY <1>2
<1> HIDE DEF e
<1>4. Cuts(s, 0, ps, 1, e)
  <2>1. \A i \in 1..1 : i = 1 /\ i - 1 = 0
    OBVIOUS
  <2>2. \A i \in 1..1 : e[i] = e[i - 1] + Len(ps[i]) + 1
    BY <1>2, <1>3, <2>1 DEF s
  <2>3. ASSUME NEW i \in 1..1, NEW c \in 1..Len(ps[i])
        PROVE  s[e[i - 1] + c] = ps[i][c]
    <3>1. i = 1 /\ i - 1 = 0
      BY <2>1
    <3>2. c \in Nat
      OBVIOUS
    <3>3. e[i - 1] + c = c
      BY <1>3, <3>1, <3>2
    <3> QED
      BY <3>1, <3>3 DEF s
  <2> QED
    BY <1>3, <2>1, <2>2, <2>3 DEF Cuts
<1> QED
  BY <1>4 DEF s

LEMMA CutsFurther ==
    ASSUME PathnameAssumption, NEW ps \in Seq(PathText), NEW k \in 1..Len(ps), k < Len(ps),
           NEW v \in PathText, NEW e, Cuts(v, 0, ps, k, e)
    PROVE  \E g : Cuts(Further(v, ps[k + 1]), 0, ps, k + 1, g)
<1> DEFINE c == ps[k + 1]
           w == Further(v, c)
           g == [i \in 0..(k + 1) |-> IF i <= k THEN e[i] ELSE Len(w) + 1]
<1>1. Len(ps) \in Nat /\ k \in Nat /\ k + 1 \in 1..Len(ps)
  BY LenProperties
<1>2. c \in PathText /\ \A i \in 1..k : ps[i] \in PathText
  BY <1>1, ElementOfSeq
<1>3. Len(v) \in Nat /\ Len(c) \in Nat /\ \A i \in 1..k : Len(ps[i]) \in Nat
  BY <1>2, LenProperties DEF PathText
<1> HIDE DEF c
<1>4. /\ w \in PathText /\ Len(w) = Len(v) + 1 + Len(c)
      /\ \A j \in 1..Len(v) : w[j] = v[j]
      /\ w[Len(v) + 1] = Slash
      /\ \A j \in 1..Len(c) : w[Len(v) + 1 + j] = c[j]
  BY <1>2, FurtherIs
<1> HIDE DEF w
<1>5. /\ e \in [0..k -> 0..(Len(v) + 1)] /\ e[0] = 0 /\ e[k] = Len(v) + 1
      /\ \A i \in 1..k : /\ e[i] = e[i - 1] + Len(ps[i]) + 1
                         /\ \A j \in 1..Len(ps[i]) : v[e[i - 1] + j] = ps[i][j]
                         /\ i < k => v[e[i]] = Slash
  BY DEF Cuts
<1>6. /\ g \in [0..(k + 1) -> 0..(Len(w) + 1)] /\ g[k + 1] = Len(w) + 1
      /\ \A i \in 0..k : g[i] = e[i]
  <2>1. \A i \in 0..k : e[i] \in 0..(Len(w) + 1)
    BY <1>3, <1>4, <1>5
  <2>2. Len(w) + 1 \in 0..(Len(w) + 1)
    BY <1>3, <1>4
  <2>3. \A i \in 0..(k + 1) : (IF i <= k THEN e[i] ELSE Len(w) + 1) \in 0..(Len(w) + 1)
    BY <1>1, <2>1, <2>2
  <2> QED
    BY <1>1, <2>3
<1> HIDE DEF g
<1>7. ASSUME NEW i \in 1..(k + 1)
      PROVE  /\ g[i] = g[i - 1] + Len(ps[i]) + 1
             /\ \A j \in 1..Len(ps[i]) : w[g[i - 1] + j] = ps[i][j]
             /\ i < k + 1 => w[g[i]] = Slash
  <2>1. CASE i <= k
    <3>1. i \in 1..k /\ i - 1 \in 0..k /\ i \in 0..k
      BY <1>1, <2>1
    <3>2. g[i] = e[i] /\ g[i - 1] = e[i - 1] /\ e[i] \in 0..(Len(v) + 1) /\ e[i - 1] \in 0..(Len(v) + 1)
      BY <1>5, <1>6, <3>1
    <3>3. e[i] = e[i - 1] + Len(ps[i]) + 1 /\ Len(ps[i]) \in Nat
      BY <1>3, <1>5, <3>1
    <3>4. ASSUME NEW j \in 1..Len(ps[i])
          PROVE  w[g[i - 1] + j] = ps[i][j]
      <4>1. e[i - 1] + j \in 1..Len(v)
        <5> DEFINE m == Len(v)
                   n == Len(ps[i])
                   x == e[i]
                   y == e[i - 1]
        <5>1. m \in Nat /\ n \in Nat /\ y \in 0..(m + 1) /\ x \in 0..(m + 1) /\ x = y + n + 1
          BY <1>3, <3>2, <3>3
        <5>2. j \in 1..n
          OBVIOUS
        <5> HIDE DEF m, n, x, y
        <5>3. y + j \in 1..m
          BY <5>1, <5>2
        <5> QED
          BY <5>3 DEF m, y
      <4>2. v[e[i - 1] + j] = ps[i][j]
        BY <1>5, <3>1
      <4> QED
        BY <1>4, <3>2, <4>1, <4>2
    <3>5. w[g[i]] = Slash
      <4>1. CASE i = k
        BY <1>4, <1>5, <3>2, <4>1
      <4>2. CASE i # k
        <5>1. i < k /\ v[e[i]] = Slash
          BY <1>1, <1>5, <3>1, <4>2
        <5>2. e[i] # Len(v) + 1
          <6>1. i + 1 \in 1..k /\ (i + 1) - 1 = i /\ i + 1 \in 0..k
            BY <1>1, <3>1, <5>1
          <6>2. e[i + 1] = e[(i + 1) - 1] + Len(ps[i + 1]) + 1 /\ Len(ps[i + 1]) \in Nat /\ e[i + 1] \in 0..(Len(v) + 1)
            BY <1>3, <1>5, <6>1
          <6>3. e[i + 1] = e[i] + Len(ps[i + 1]) + 1
            BY <6>1, <6>2
          <6> QED
            BY <1>3, <3>2, <6>2, <6>3
        <5>3. e[i] \in 1..Len(v)
          BY <1>3, <3>2, <3>3, <5>2
        <5> QED
          BY <1>4, <3>2, <5>1, <5>3
      <4> QED
        BY <4>1, <4>2
    <3> QED
      BY <3>2, <3>3, <3>4, <3>5
  <2>2. CASE i = k + 1
    <3>1. i - 1 = k /\ k \in 0..k /\ ps[i] = c
      BY <1>1, <2>2 DEF c
    <3>2. g[i] = Len(w) + 1 /\ g[i - 1] = Len(v) + 1
      BY <1>5, <1>6, <2>2, <3>1
    <3> QED
      BY <1>1, <1>3, <1>4, <2>2, <3>1, <3>2
  <2> QED
    BY <1>1, <2>1, <2>2
<1>8. g[0] = 0
  BY <1>1, <1>5, <1>6
<1>9. Cuts(w, 0, ps, k + 1, g)
  BY <1>6, <1>7, <1>8 DEF Cuts
<1> QED
  BY <1>9 DEF w, c

LEMMA JoinedCuts ==
    ASSUME PathnameAssumption, NEW ps \in Seq(PathText)
    PROVE  /\ Joined(ps) \in PathText
           /\ Len(ps) = 0 => Joined(ps) = <<>>
           /\ Len(ps) > 0 => \E e : Cuts(Joined(ps), 0, ps, Len(ps), e)
<1> DEFINE N == Len(ps)
<1>1. PICK f \in [0..N -> PathText] :
          /\ f[0] = <<>>
          /\ \A i \in 1..N : f[i] = JoinedTo(i, f[i - 1], ps[i])
          /\ Joined(ps) = f[N]
  BY JoinedIs
<1>2. N \in Nat
  BY LenProperties
<1> DEFINE T == {k \in 0..N : k = 0 \/ \E e : Cuts(f[k], 0, ps, k, e)}
<1>3. 0 \in T
  BY <1>2
<1>4. ASSUME NEW i \in 1..N, i - 1 \in T
      PROVE  i \in T
  <2>1. i \in 0..N /\ f[i] = JoinedTo(i, f[i - 1], ps[i])
    BY <1>1, <1>2
  <2>2. CASE i = 1
    <3>1. f[i] = ps[1] /\ \E e : Cuts(ps[1], 0, ps, 1, e)
      BY <1>2, <2>1, <2>2, CutsFirst DEF JoinedTo
    <3> QED
      BY <2>1, <2>2, <3>1
  <2>3. CASE i # 1
    <3>1. f[i] = Further(f[i - 1], ps[i])
      BY <2>1, <2>3 DEF JoinedTo
    <3>2. /\ i - 1 \in 1..Len(ps) /\ i - 1 < Len(ps) /\ (i - 1) + 1 = i
          /\ i - 1 # 0 /\ i - 1 \in 0..N
      BY <1>2, <2>3
    <3>3. f[i - 1] \in PathText
      BY <3>2
    <3>4. PICK e : Cuts(f[i - 1], 0, ps, i - 1, e)
      BY <1>4, <3>2
    <3>5. \E g : Cuts(Further(f[i - 1], ps[(i - 1) + 1]), 0, ps, (i - 1) + 1, g)
      BY <3>2, <3>3, <3>4, CutsFurther
    <3>6. \E g : Cuts(f[i], 0, ps, i, g)
      BY <3>1, <3>2, <3>5
    <3> QED
      BY <2>1, <3>6
  <2> QED
    BY <2>2, <2>3
<1>5. \A i \in 0..N : i \in T
  <2> HIDE DEF T, N
  <2> QED
    BY <1>2, <1>3, <1>4, CountUp
<1>6. N \in 0..N
  BY <1>2
<1>7. N > 0 => \E e : Cuts(f[N], 0, ps, N, e)
  BY <1>5, <1>6
<1> QED
  BY <1>1, <1>6, <1>7

LEMMA CutsRoot ==
    ASSUME PathnameAssumption, NEW ps \in Seq(PathText), NEW k \in 1..Len(ps),
           NEW v \in PathText, NEW e, Cuts(v, 0, ps, k, e)
    PROVE  LET w == <<Slash>> \o v
           IN  w \in PathText /\ w[1] = Slash /\ \E g : Cuts(w, 1, ps, k, g)
<1> DEFINE root == <<Slash>>
           w == root \o v
           g == [i \in 0..k |-> e[i] + 1]
<1>1. root \in Seq(PathChar) /\ Len(root) = 1 /\ root[1] = Slash
  BY Specials DEF Root, PathText
<1>2. /\ Len(v) \in Nat /\ v \in Seq(PathChar) /\ Len(ps) \in Nat
      /\ \A i \in 1..k : Len(ps[i]) \in Nat
  BY LenProperties, ElementOfSeq DEF PathText
<1> HIDE DEF root
<1>3. /\ w \in Seq(PathChar) /\ Len(w) = Len(root) + Len(v)
      /\ \A j \in 1..Len(root) + Len(v) : w[j] = IF j <= Len(root) THEN root[j] ELSE v[j - Len(root)]
  BY <1>1, <1>2, ConcatProperties
<1> HIDE DEF w
<1>4. /\ Len(w) = Len(v) + 1 /\ w[1] = Slash
      /\ \A j \in 1..Len(v) : w[j + 1] = v[j]
  <2>1. 1 \in 1..Len(root) + Len(v)
    BY <1>1, <1>2
  <2>2. ASSUME NEW j \in 1..Len(v)
        PROVE  w[j + 1] = v[j]
    <3>1. j + 1 \in 1..Len(root) + Len(v) /\ ~(j + 1 <= Len(root)) /\ (j + 1) - Len(root) = j
      BY <1>1, <1>2
    <3> QED
      BY <1>3, <3>1
  <2> QED
    BY <1>1, <1>2, <1>3, <2>1, <2>2
<1>5. /\ e \in [0..k -> 0..(Len(v) + 1)] /\ e[0] = 0 /\ e[k] = Len(v) + 1
      /\ \A i \in 1..k : /\ e[i] = e[i - 1] + Len(ps[i]) + 1
                         /\ \A j \in 1..Len(ps[i]) : v[e[i - 1] + j] = ps[i][j]
                         /\ i < k => v[e[i]] = Slash
  BY DEF Cuts
<1>6. k \in Nat /\ k \in 0..k
  BY <1>2
<1>7. /\ g \in [0..k -> 0..(Len(w) + 1)] /\ g[0] = 1 /\ g[k] = Len(w) + 1
      /\ \A i \in 0..k : g[i] = e[i] + 1
  BY <1>2, <1>4, <1>5, <1>6
<1> HIDE DEF g
<1>8. ASSUME NEW i \in 1..k
      PROVE  /\ g[i] = g[i - 1] + Len(ps[i]) + 1
             /\ \A j \in 1..Len(ps[i]) : w[g[i - 1] + j] = ps[i][j]
             /\ i < k => w[g[i]] = Slash
  <2>1. i - 1 \in 0..k /\ i \in 0..k
    BY <1>6
  <2>2. /\ g[i] = e[i] + 1 /\ g[i - 1] = e[i - 1] + 1
        /\ e[i] \in 0..(Len(v) + 1) /\ e[i - 1] \in 0..(Len(v) + 1)
    BY <1>5, <1>7, <2>1
  <2>3. e[i] = e[i - 1] + Len(ps[i]) + 1 /\ Len(ps[i]) \in Nat
    BY <1>2, <1>5
  <2>4. ASSUME NEW j \in 1..Len(ps[i])
        PROVE  w[g[i - 1] + j] = ps[i][j]
    <3>1. e[i - 1] + j \in 1..Len(v) /\ g[i - 1] + j = (e[i - 1] + j) + 1
      <4> DEFINE m == Len(v)
                 n == Len(ps[i])
                 x == e[i]
                 y == e[i - 1]
      <4>1. m \in Nat /\ n \in Nat /\ y \in 0..(m + 1) /\ x \in 0..(m + 1) /\ x = y + n + 1 /\ g[i - 1] = y + 1
        BY <1>2, <2>2, <2>3
      <4>2. j \in 1..n
        OBVIOUS
      <4> HIDE DEF m, n, x, y
      <4>3. y + j \in 1..m /\ g[i - 1] + j = (y + j) + 1
        BY <4>1, <4>2
      <4> QED
        BY <4>3 DEF m, y
    <3>2. v[e[i - 1] + j] = ps[i][j]
      BY <1>5
    <3> QED
      BY <1>4, <3>1, <3>2
  <2>5. ASSUME i < k
        PROVE  w[g[i]] = Slash
    <3>1. i + 1 \in 1..k /\ (i + 1) - 1 = i /\ i + 1 \in 0..k
      BY <1>6, <2>5
    <3>2. e[i + 1] = e[(i + 1) - 1] + Len(ps[i + 1]) + 1 /\ Len(ps[i + 1]) \in Nat /\ e[i + 1] \in 0..(Len(v) + 1)
      BY <1>2, <1>5, <3>1
    <3>3. e[i + 1] = e[i] + Len(ps[i + 1]) + 1
      BY <3>1, <3>2
    <3>4. e[i] \in 1..Len(v)
      <4> DEFINE m == Len(v)
                 n == Len(ps[i + 1])
                 x == e[i + 1]
                 y == e[i]
      <4>1. m \in Nat /\ n \in Nat /\ y \in 0..(m + 1) /\ x \in 0..(m + 1) /\ x = y + n + 1
        BY <1>2, <2>2, <3>2, <3>3
      <4>2. y # 0
        BY <2>2, <2>3
      <4> HIDE DEF m, n, x, y
      <4>3. y \in 1..m
        BY <4>1, <4>2
      <4> QED
        BY <4>3 DEF m, y
    <3> QED
      BY <1>4, <1>5, <2>2, <2>5, <3>4
  <2>6. g[i] = g[i - 1] + Len(ps[i]) + 1
    BY <2>2, <2>3
  <2> QED
    BY <2>4, <2>5, <2>6
<1>9. Cuts(w, 1, ps, k, g)
  BY <1>7, <1>8 DEF Cuts
<1> QED
  BY <1>3, <1>4, <1>9 DEF w, root, PathText

\* What str() writes between separators
IsPiece(c) == /\ c \in PathText /\ c # <<>> /\ c # <<Dot>>
              /\ \A k \in 1..Len(c) : c[k] # Slash

LEMMA SplitCuts ==
    ASSUME PathnameAssumption, NEW ps \in Seq(PathText), Len(ps) > 0, \A i \in 1..Len(ps) : IsPiece(ps[i]),
           NEW s \in PathText, NEW o \in {0, 1}, o = 1 => s[1] = Slash,
           NEW e, Cuts(s, o, ps, Len(ps), e)
    PROVE  Split(s) = (IF o = 1 THEN <<Root>> ELSE <<>>) \o ps
<1> DEFINE N == Len(s) + 1
           K == Len(ps)
           start == IF o = 1 THEN <<Root>> ELSE <<>>
<1>1. PICK f \in [0..N -> Seq(PathText)] :
          /\ f[0] = <<>>
          /\ \A i \in 1..N : f[i] = PiecesTo(s, i, f[i - 1])
          /\ Split(s) = f[N]
  BY SplitIs
<1>2. Len(s) \in Nat /\ K \in Nat
  BY LenProperties DEF PathText
<1>3. /\ e \in [0..K -> 0..N] /\ e[0] = o /\ e[K] = N
      /\ \A i \in 1..K : /\ e[i] = e[i - 1] + Len(ps[i]) + 1
                         /\ \A j \in 1..Len(ps[i]) : s[e[i - 1] + j] = ps[i][j]
                         /\ i < K => s[e[i]] = Slash
  BY DEF Cuts
<1>4. \A i \in 1..K : ps[i] \in PathText /\ Len(ps[i]) \in Nat \ {0} /\ IsPiece(ps[i])
  <2> TAKE i \in 1..K
  <2>1. ps[i] \in Seq(PathChar) /\ ps[i] # <<>>
    BY DEF IsPiece, PathText
  <2> QED
    BY <2>1, EmptySeq DEF PathText
<1>5. f[o] = start /\ start \in Seq(PathText)
  <2>1. CASE o = 0
    BY <1>1, <2>1
  <2>2. CASE o = 1
    <3>1. 1 \in 1..N /\ IsEnd(s, 1)
      BY <1>2, <2>2 DEF IsEnd
    <3>2. s # <<>>
      <4>1. e[1] = e[0] + Len(ps[1]) + 1 /\ e[1] \in 0..N /\ Len(ps[1]) \in Nat \ {0}
        <5>1. 1 \in 1..K /\ 1 \in 0..K /\ 1 - 1 = 0
          BY <1>2
        <5> QED
          BY <1>3, <1>4, <5>1
      <4>2. Len(s) # 0
        BY <1>2, <1>3, <4>1
      <4> QED
        BY <4>2
    <3>3. f[1] = <<Root>>
      BY <1>1, <3>1, <3>2 DEF PiecesTo
    <3> QED
      BY <2>2, <3>3, Specials
  <2> QED
    BY <2>1, <2>2
<1> HIDE DEF start
<1>6. ASSUME NEW i \in 1..K
      PROVE  f[e[i]] = Append(f[e[i - 1]], ps[i])
  <2> DEFINE a == e[i - 1]
             n == Len(ps[i])
             T == {j \in 0..n : f[a + j] = f[a]}
  <2>1. i - 1 \in 0..K /\ i \in 0..K
    BY <1>2
  <2>2. a \in 0..N /\ n \in Nat \ {0} /\ e[i] = a + n + 1 /\ e[i] \in 0..N
    BY <1>3, <1>4, <2>1
  <2>3. \A j \in 1..n : s[a + j] = ps[i][j] /\ ps[i][j] # Slash
    BY <1>3, <1>4 DEF IsPiece
  <2>4. a = 0 \/ s[a] = Slash
    <3>1. CASE i = 1
      BY <1>3, <3>1
    <3>2. CASE i # 1
      <4>1. i - 1 \in 1..K /\ i - 1 < K
        BY <1>2, <3>2
      <4> QED
        BY <1>3, <4>1
    <3> QED
      BY <3>1, <3>2
  <2> HIDE DEF a, n
  <2>5. 0 \in T
    BY <2>2
  <2>6. ASSUME NEW j \in 1..n, j - 1 \in T
        PROVE  j \in T
    <3>1. a + j \in 1..Len(s) /\ a + j \in 1..N /\ (a + j) - 1 = a + (j - 1) /\ j \in 0..n
      BY <1>2, <2>2
    <3>2. ~IsEnd(s, a + j)
      <4>1. a + j # Len(s) + 1
        BY <1>2, <3>1
      <4>2. s[a + j] # Slash
        BY <2>3
      <4> QED
        BY <4>1, <4>2 DEF IsEnd
    <3>3. f[a + j] = f[(a + j) - 1]
      BY <1>1, <3>1, <3>2 DEF PiecesTo
    <3> QED
      BY <2>6, <3>1, <3>3
  <2>7. f[a + n] = f[a]
    <3>1. n \in Nat /\ n \in 0..n
      BY <2>2
    <3>2. \A j \in 0..n : j \in T
      <4> HIDE DEF T
      <4> QED
        BY <2>5, <2>6, <3>1, CountUp
    <3> QED
      BY <3>1, <3>2
  <2>8. IsEnd(s, e[i])
    <3>1. CASE i = K
      BY <1>3, <3>1 DEF IsEnd
    <3>2. CASE i # K
      BY <1>2, <1>3, <3>2 DEF IsEnd
    <3> QED
      BY <3>1, <3>2
  <2>9. e[i] \in 1..N /\ e[i] # 1 /\ e[i] - 1 = a + n
    BY <1>2, <2>2
  <2>10. StartOf(s, e[i]) = a + 1
    <3>1. a + 1 \in 1..e[i] /\ (a + 1) - 1 = a /\ (a = 0 => a + 1 = 1)
      BY <2>2
    <3>2. \A j \in (a + 1)..(e[i] - 1) : s[j] # Slash
      <4> TAKE j \in (a + 1)..(e[i] - 1)
      <4>1. j - a \in 1..n /\ a + (j - a) = j
        BY <2>2, <2>9
      <4> QED
        BY <2>3, <4>1
    <3> QED
      BY <2>4, <2>9, <3>1, <3>2, StartOfIs
  <2>11. SubSeq(s, StartOf(s, e[i]), e[i] - 1) = ps[i]
    <3> DEFINE piece == SubSeq(s, a + 1, a + n)
    <3>1. /\ piece \in Seq(PathChar) /\ Len(piece) = n
          /\ \A j \in 1..n : piece[j] = s[a + j]
      BY <1>2, <2>2, <2>9, PartFacts DEF PathText
    <3>2. SubSeq(s, StartOf(s, e[i]), e[i] - 1) = piece
      BY <2>9, <2>10
    <3> HIDE DEF piece
    <3>3. piece = ps[i]
      <4>1. ps[i] \in Seq(PathChar) /\ Len(ps[i]) = n
        BY <1>4 DEF PathText, n
      <4>2. \A j \in 1..Len(piece) : piece[j] = ps[i][j]
        BY <2>3, <3>1
      <4> QED
        BY <3>1, <4>1, <4>2, SeqEqual
    <3> QED
      BY <3>2, <3>3
  <2>12. f[e[i]] = PiecesTo(s, e[i], f[e[i] - 1])
    BY <1>1, <2>9
  <2>13. f[e[i]] = Append(f[e[i] - 1], ps[i])
    <3>1. ps[i] \notin {<<>>, <<Dot>>}
      BY <1>4 DEF IsPiece
    <3> QED
      BY <2>8, <2>9, <2>11, <2>12, <3>1 DEF PiecesTo
  <2> QED
    BY <2>7, <2>9, <2>13 DEF a
<1> DEFINE first(i) == SubSeq(ps, 1, i)
           U == {i \in 0..K : f[e[i]] = start \o first(i)}
<1>7. 0 \in U
  <2>1. first(0) = <<>>
    BY SubSeqEmpty
  <2>2. start \o <<>> = start
    BY <1>5, ConcatEmptySeq
  <2>3. f[e[0]] = start
    BY <1>3, <1>5
  <2> HIDE DEF first
  <2>4. f[e[0]] = start \o first(0)
    BY <2>1, <2>2, <2>3, Zenon
  <2> QED
    BY <1>2, <2>4
<1>8. ASSUME NEW i \in 1..K, i - 1 \in U
      PROVE  i \in U
  <2> DEFINE q == first(i - 1)
             c == ps[i]
  <2>1. first(i) = Append(q, c) /\ q \in Seq(PathText) /\ c \in PathText
    BY FirstThenNext
  <2>2. f[e[i - 1]] = start \o q
    BY <1>8
  <2>3. f[e[i]] = Append(f[e[i - 1]], c)
    BY <1>6
  <2>4. i \in 0..K
    BY <1>2
  <2> HIDE DEF first, q, c
  <2>5. start \o Append(q, c) = Append(start \o q, c)
    <3>1. start \in Seq(PathText) /\ q \in Seq(PathText) /\ c \in PathText
      BY <1>5, <2>1
    <3>2. start \o Append(q, c) = Append(start \o q, c) /\ start \o q \in Seq(PathText)
      BY <3>1, AppendFurther, SMTT(30)
    <3> QED
      BY <3>2
  <2>6. f[e[i]] = start \o first(i)
    BY <2>1, <2>2, <2>3, <2>5, Zenon
  <2> QED
    BY <2>4, <2>6
<1>9. \A i \in 0..K : i \in U
  <2> HIDE DEF U, K
  <2> QED
    BY <1>2, <1>7, <1>8, CountUp
<1>10. K \in 0..K /\ first(K) = ps
  BY <1>2, SubSeqFull
<1>11. f[e[K]] = start \o ps
  <2> HIDE DEF first
  <2>1. f[e[K]] = start \o first(K)
    BY <1>9, <1>10
  <2> QED
    BY <1>10, <2>1, Zenon
<1>12. Split(s) = start \o ps
  BY <1>1, <1>3, <1>11, Zenon
<1> QED
  BY <1>12, Zenon DEF start

LEMMA SplitRoot ==
    ASSUME PathnameAssumption PROVE Split(Root) = <<Root>>
<1> DEFINE root == <<Root>>
<1>1. Root \in PathText /\ Len(Root) = 1 /\ Root[1] = Slash /\ Root # <<>>
  BY Specials DEF Root
<1>2. PICK f \in [0..(Len(Root) + 1) -> Seq(PathText)] :
          /\ f[0] = <<>>
          /\ \A i \in 1..(Len(Root) + 1) : f[i] = PiecesTo(Root, i, f[i - 1])
          /\ Split(Root) = f[Len(Root) + 1]
  BY <1>1, SplitIs
<1>3. f[1] = PiecesTo(Root, 1, f[0]) /\ f[2] = PiecesTo(Root, 2, f[1]) /\ Split(Root) = f[2]
  <2>1. 1 \in 1..(Len(Root) + 1) /\ 2 \in 1..(Len(Root) + 1) /\ 1 - 1 = 0 /\ 2 - 1 = 1 /\ Len(Root) + 1 = 2
    BY <1>1
  <2> QED
    BY <1>2, <2>1
<1>4. IsEnd(Root, 1) /\ IsEnd(Root, 2)
  BY <1>1 DEF IsEnd
<1>5. f[1] = root
  BY <1>1, <1>3, <1>4 DEF PiecesTo
<1>6. StartOf(Root, 2) = 2
  <2>1. 2 \in 1..(Len(Root) + 1) /\ 2 \in 1..2 /\ Root[2 - 1] = Slash /\ \A j \in 2..(2 - 1) : Root[j] # Slash
    BY <1>1
  <2> QED
    BY <1>1, <2>1, StartOfIs
<1>7. SubSeq(Root, StartOf(Root, 2), 2 - 1) = <<>>
  BY <1>6, SubSeqEmpty
<1> HIDE DEF root
<1>8. f[2] = f[1]
  BY <1>3, <1>4, <1>7 DEF PiecesTo
<1> QED
  BY <1>3, <1>5, <1>8 DEF root

LEMMA SplitDot ==
    ASSUME PathnameAssumption PROVE <<Dot>> \in PathText /\ Split(<<Dot>>) = <<>>
<1> DEFINE s == <<Dot>>
<1>1. s \in PathText /\ Len(s) = 1 /\ s[1] = Dot /\ Dot # Slash
  <2>1. Dot \in PathChar
    BY DEF PathChar
  <2> QED
    BY <2>1, Specials DEF PathText
<1> HIDE DEF s
<1>2. PICK f \in [0..(Len(s) + 1) -> Seq(PathText)] :
          /\ f[0] = <<>>
          /\ \A i \in 1..(Len(s) + 1) : f[i] = PiecesTo(s, i, f[i - 1])
          /\ Split(s) = f[Len(s) + 1]
  BY <1>1, SplitIs
<1>3. f[1] = PiecesTo(s, 1, f[0]) /\ f[2] = PiecesTo(s, 2, f[1]) /\ Split(s) = f[2]
  <2>1. 1 \in 1..(Len(s) + 1) /\ 2 \in 1..(Len(s) + 1) /\ 1 - 1 = 0 /\ 2 - 1 = 1 /\ Len(s) + 1 = 2
    BY <1>1
  <2> QED
    BY <1>2, <2>1
<1>4. ~IsEnd(s, 1) /\ IsEnd(s, 2)
  BY <1>1 DEF IsEnd
<1>5. f[1] = f[0]
  BY <1>3, <1>4 DEF PiecesTo
<1>6. StartOf(s, 2) = 1
  <2>1. 2 \in 1..(Len(s) + 1) /\ 1 \in 1..2
    BY <1>1
  <2>2. \A j \in 1..(2 - 1) : s[j] # Slash
    BY <1>1
  <2> QED
    BY <1>1, <2>1, <2>2, StartOfIs
<1>7. SubSeq(s, StartOf(s, 2), 2 - 1) = s
  <2>1. SubSeq(s, 1, Len(s)) = s
    BY <1>1, SubSeqFull DEF PathText
  <2> QED
    BY <1>1, <1>6, <2>1
<1>8. f[2] = f[1]
  BY <1>3, <1>4, <1>7 DEF PiecesTo, s
<1> QED
  BY <1>1, <1>2, <1>3, <1>5, <1>8 DEF s

\* The components that the text of an object spells
Spelt(p) == IF p.up = UINT_MAX THEN <<Root>> \o NamesOf(p.comps) ELSE DoubleDots(p.up) \o NamesOf(p.comps)

LEMMA NamesArePieces ==
    ASSUME PathnameAssumption, NEW ns, IsNames(ns)
    PROVE  ns \in Seq(PathText) /\ \A i \in 1..Len(ns) : IsPiece(ns[i])
BY DEF IsNames, IsName, IsPiece

LEMMA AbsoluteText ==
    ASSUME PathnameAssumption, NEW ns, IsNames(ns)
    PROVE  LET w == <<Slash>> \o Joined(ns)
           IN  w \in PathText /\ Split(w) = <<Root>> \o ns
<1> DEFINE v == Joined(ns)
           w == <<Slash>> \o v
           k == Len(ns)
<1>1. ns \in Seq(PathText) /\ \A i \in 1..Len(ns) : IsPiece(ns[i])
  BY NamesArePieces
<1>2. /\ v \in PathText /\ k \in Nat /\ (k = 0 => v = <<>>)
      /\ k > 0 => \E e : Cuts(v, 0, ns, k, e)
  BY <1>1, JoinedCuts, LenProperties
<1> HIDE DEF v
<1>3. CASE k = 0
  <2>1. ns = <<>>
    BY <1>1, <1>3, EmptySeq
  <2>2. <<Root>> \o ns = <<Root>>
    BY <2>1, Specials, ConcatEmptySeq
  <2>3. w = Root
    <3>1. Root \in Seq(PathChar)
      BY Specials DEF PathText
    <3> QED
      BY <1>2, <1>3, <3>1, ConcatEmptySeq DEF Root
  <2> HIDE DEF w
  <2>4. w \in PathText /\ Split(w) = <<Root>>
    BY <2>3, Specials, SplitRoot
  <2> QED
    BY <2>2, <2>4 DEF w, v
<1>4. CASE k # 0
  <2>1. k > 0 /\ k \in 1..Len(ns)
    BY <1>2, <1>4
  <2>2. PICK e : Cuts(v, 0, ns, k, e)
    BY <1>2, <2>1
  <2>3. w \in PathText /\ w[1] = Slash /\ \E g : Cuts(w, 1, ns, k, g)
    BY <1>1, <1>2, <2>1, <2>2, CutsRoot
  <2> HIDE DEF w
  <2>4. PICK g : Cuts(w, 1, ns, Len(ns), g)
    BY <2>3
  <2>5. 1 \in {0, 1}
    OBVIOUS
  <2>6. Split(w) = (IF 1 = 1 THEN <<Root>> ELSE <<>>) \o ns
    BY <1>1, <2>1, <2>3, <2>4, <2>5, SplitCuts, Zenon
  <2>7. Split(w) = <<Root>> \o ns
    BY <2>6, Zenon
  <2> QED
    BY <2>3, <2>7 DEF w, v
<1> QED
  BY <1>3, <1>4

LEMMA RelativeText ==
    ASSUME PathnameAssumption, NEW u \in Nat, NEW ns, IsNames(ns)
    PROVE  LET ps == DoubleDots(u) \o ns
           IN  /\ ps \in Seq(PathText) /\ Len(ps) = u + Len(ns)
               /\ Len(ps) > 0 => Joined(ps) \in PathText /\ Split(Joined(ps)) = ps
<1> DEFINE ups == DoubleDots(u)
           ps == ups \o ns
<1>1. ns \in Seq(PathText) /\ Len(ns) \in Nat /\ \A i \in 1..Len(ns) : IsPiece(ns[i])
  BY NamesArePieces, LenProperties
<1>2. ups \in Seq(PathText) /\ Len(ups) = u /\ \A i \in 1..u : ups[i] = DoubleDot
  BY Specials DEF DoubleDots
<1>3. IsPiece(DoubleDot)
  <2>1. Len(DoubleDot) = 2 /\ \A k \in 1..2 : DoubleDot[k] = Dot
    BY DEF DoubleDot
  <2>2. DoubleDot # <<>> /\ DoubleDot # <<Dot>>
    BY <2>1
  <2> QED
    BY <2>1, <2>2, Specials DEF IsPiece
<1> HIDE DEF ups
<1>4. /\ ps \in Seq(PathText) /\ Len(ps) = u + Len(ns)
      /\ \A i \in 1..u + Len(ns) : ps[i] = IF i <= u THEN ups[i] ELSE ns[i - u]
  BY <1>1, <1>2, ConcatProperties
<1> HIDE DEF ps
<1>5. ASSUME NEW i \in 1..Len(ps)
      PROVE  IsPiece(ps[i])
  <2>1. i \in 1..u + Len(ns) /\ (i <= u => i \in 1..u) /\ (~(i <= u) => i - u \in 1..Len(ns))
    BY <1>1, <1>4
  <2> QED
    BY <1>1, <1>2, <1>3, <1>4, <2>1
<1>6. ASSUME Len(ps) > 0
      PROVE  Joined(ps) \in PathText /\ Split(Joined(ps)) = ps
  <2> DEFINE s == Joined(ps)
             none == <<>>
  <2>1. s \in PathText /\ \E e : Cuts(s, 0, ps, Len(ps), e)
    BY <1>4, <1>6, JoinedCuts
  <2> HIDE DEF s
  <2>2. PICK e : Cuts(s, 0, ps, Len(ps), e)
    BY <2>1
  <2>3. 0 \in {0, 1} /\ 0 # 1
    OBVIOUS
  <2>4. Split(s) = (IF 0 = 1 THEN <<Root>> ELSE <<>>) \o ps
    BY <1>4, <1>5, <1>6, <2>1, <2>2, <2>3, SplitCuts, Zenon
  <2>5. Split(s) = none \o ps
    BY <2>3, <2>4, Zenon
  <2>6. none \o ps = ps
    BY <1>4, ConcatEmptySeq
  <2> QED
    BY <2>1, <2>5, <2>6, Zenon DEF s
<1> QED
  BY <1>4, <1>6 DEF ps, ups

\* str() spells the components, and nothing but them.
LEMMA StrSpells ==
    ASSUME PathnameAssumption, NEW p \in PathObject
    PROVE  Str(p) \in PathText /\ Split(Str(p)) = Spelt(p)
<1> DEFINE ns == NamesOf(p.comps)
           none == <<>>
<1>1. p.up \in Nat /\ p.comps \in Seq(PathComp) /\ Absolute = UINT_MAX
  BY LevelBounds DEF PathObject
<1>2. IsNames(ns) /\ ns \in Seq(PathText) /\ Len(ns) = Len(p.comps) /\ Len(ns) \in Nat
  BY <1>1, NamesAre, LenProperties
<1>3. Names(p) = ns
  BY DEF Names, NamesOf
<1>4. p.comps = <<>> <=> Len(ns) = 0
  BY <1>1, <1>2, EmptySeq
<1> HIDE DEF ns
<1>5. CASE p.up = UINT_MAX
  <2>1. Str(p) = <<Slash>> \o Joined(ns)
    BY <1>1, <1>3, <1>5 DEF Str, IsAbsolute
  <2>2. Spelt(p) = <<Root>> \o ns
    BY <1>5 DEF Spelt, ns
  <2> QED
    BY <1>2, <2>1, <2>2, AbsoluteText, Zenon
<1>6. CASE p.up # UINT_MAX /\ p.up = 0 /\ p.comps = <<>>
  <2>1. Str(p) = <<Dot>>
    BY <1>1, <1>6 DEF Str, IsAbsolute
  <2>2. Spelt(p) = DoubleDots(0) \o ns /\ DoubleDots(0) = none /\ ns = none
    BY <1>2, <1>4, <1>6, EmptySeq DEF Spelt, ns, DoubleDots
  <2>3. none \o none = none
    BY ConcatEmptySeq, <1>2, <2>2
  <2> QED
    BY <2>1, <2>2, <2>3, SplitDot
<1>7. CASE p.up # UINT_MAX /\ ~(p.up = 0 /\ p.comps = <<>>)
  <2> DEFINE ps == DoubleDots(p.up) \o ns
  <2>1. Str(p) = Joined(ps)
    BY <1>1, <1>3, <1>7 DEF Str, IsAbsolute
  <2>2. Spelt(p) = ps
    BY <1>7 DEF Spelt, ns
  <2>3. /\ ps \in Seq(PathText) /\ Len(ps) = p.up + Len(ns)
        /\ Len(ps) > 0 => Joined(ps) \in PathText /\ Split(Joined(ps)) = ps
    BY <1>1, <1>2, RelativeText
  <2> HIDE DEF ps
  <2>4. Len(ps) > 0
    BY <1>1, <1>2, <1>4, <1>7, <2>3
  <2> QED
    BY <2>1, <2>2, <2>3, <2>4
<1> QED
  BY <1>5, <1>6, <1>7

\* Two objects that lead to the same places are the same, but for file.
LEMMA SameObject ==
    ASSUME PathnameAssumption, NEW p \in PathObject, NEW r \in PathObject,
           \A d \in Dirs : Denotes(d, r) = Denotes(d, p)
    PROVE  r.up = p.up /\ r.comps = p.comps
<1> DEFINE pn == NamesOf(p.comps)
           rn == NamesOf(r.comps)
           none == <<>>
           n == p.up + r.up
           deep == DoubleDots(n)
<1>1. /\ p.up \in Nat /\ p.comps \in Seq(PathComp) /\ r.up \in Nat /\ r.comps \in Seq(PathComp)
      /\ UINT_MAX \in Nat \ {0}
  BY LevelBounds DEF PathObject
<1>2. /\ pn \in Seq(PathText) /\ Len(pn) = Len(p.comps) /\ Len(pn) \in Nat
      /\ rn \in Seq(PathText) /\ Len(rn) = Len(r.comps) /\ Len(rn) \in Nat
      /\ \A i \in 1..Len(p.comps) : pn[i] = p.comps[i].name
      /\ \A i \in 1..Len(r.comps) : rn[i] = r.comps[i].name
  BY <1>1, NamesAre, LenProperties
<1> HIDE DEF pn, rn
<1>3. ASSUME NEW d \in Dirs
      PROVE  /\ Denotes(d, p) = BaseOf(d, p) \o pn /\ BaseOf(d, p) \in Seq(PathText)
             /\ Denotes(d, r) = BaseOf(d, r) \o rn /\ BaseOf(d, r) \in Seq(PathText)
             /\ Len(Denotes(d, p)) = Len(BaseOf(d, p)) + Len(pn)
             /\ Len(Denotes(d, r)) = Len(BaseOf(d, r)) + Len(rn)
  <2>1. /\ Denotes(d, p) = BaseOf(d, p) \o pn /\ BaseOf(d, p) \in Seq(PathText)
        /\ Denotes(d, r) = BaseOf(d, r) \o rn /\ BaseOf(d, r) \in Seq(PathText)
    BY DenotesIs DEF pn, rn, Dirs
  <2>2. /\ Len(BaseOf(d, p) \o pn) = Len(BaseOf(d, p)) + Len(pn)
        /\ Len(BaseOf(d, r) \o rn) = Len(BaseOf(d, r)) + Len(rn)
    BY <1>2, <2>1, ConcatProperties
  <2> QED
    BY <2>1, <2>2, Zenon
<1>4. ASSUME NEW d \in Dirs
      PROVE  /\ p.up = UINT_MAX => BaseOf(d, p) = none
             /\ p.up # UINT_MAX => Len(BaseOf(d, p)) = IF p.up > Len(d) THEN 0 ELSE Len(d) - p.up
             /\ r.up = UINT_MAX => BaseOf(d, r) = none
             /\ r.up # UINT_MAX => Len(BaseOf(d, r)) = IF r.up > Len(d) THEN 0 ELSE Len(d) - r.up
  BY <1>1, GoneUpIs DEF BaseOf, Dirs
<1>5. pn = rn
  <2>1. none \in Dirs /\ Len(none) = 0
    BY DEF Dirs
  <2> DEFINE pb == BaseOf(none, p)
             rb == BaseOf(none, r)
  <2>2. pb = none /\ rb = none
    <3>1. pb \in Seq(PathText) /\ rb \in Seq(PathText)
      BY <1>3, <2>1
    <3>2. Len(pb) = 0 /\ Len(rb) = 0
      BY <1>1, <1>4, <2>1
    <3> HIDE DEF pb, rb
    <3> QED
      BY <3>1, <3>2, EmptySeq
  <2>3. pb \o pn = rb \o rn
    BY <1>3, <2>1, Zenon
  <2> HIDE DEF pb, rb
  <2>4. none \o pn = pn /\ none \o rn = rn
    BY <1>2, ConcatEmptySeq
  <2> QED
    BY <2>2, <2>3, <2>4, Zenon
<1>6. r.comps = p.comps
  <2> DEFINE pc == p.comps
             rc == r.comps
  <2>1. pc \in Seq(PathComp) /\ rc \in Seq(PathComp) /\ Len(rc) = Len(pc) /\ Len(pc) \in Nat
    BY <1>1, <1>2, <1>5
  <2>2. \A i \in 1..Len(rc) : rc[i].name = pc[i].name
    BY <1>2, <1>5
  <2> HIDE DEF pc, rc
  <2>3. \A i \in 1..Len(rc) : rc[i] = pc[i]
    <3> TAKE i \in 1..Len(rc)
    <3>1. rc[i] \in PathComp /\ pc[i] \in PathComp /\ rc[i].name = pc[i].name
      BY <2>1, <2>2, ElementOfSeq
    <3> QED
      BY <3>1, SameName
  <2>4. rc = pc
    BY <2>1, <2>3, SeqEqual
  <2> QED
    BY <2>4 DEF pc, rc
<1>7. r.up = p.up
  <2>1. deep \in Dirs /\ Len(deep) = n
    <3>1. n \in Nat
      BY <1>1
    <3> HIDE DEF n
    <3> QED
      BY <3>1, Specials DEF DoubleDots, Dirs
  <2>2. Denotes(deep, r) = Denotes(deep, p)
    BY <2>1
  <2> HIDE DEF deep
  <2> DEFINE pb == Len(BaseOf(deep, p))
             rb == Len(BaseOf(deep, r))
  <2>3. pb \in Nat /\ rb \in Nat
    BY <1>3, <2>1, LenProperties
  <2>4. Len(Denotes(deep, p)) = pb + Len(pn) /\ Len(Denotes(deep, r)) = rb + Len(rn)
    BY <1>3, <2>1
  <2>5. pb = rb
    <3> HIDE DEF pb, rb
    <3> QED
      BY <1>2, <1>5, <2>2, <2>3, <2>4
  <2>6. Len(none) = 0
    OBVIOUS
  <2>7. /\ p.up = UINT_MAX => pb = 0
        /\ p.up # UINT_MAX => pb = r.up
        /\ r.up = UINT_MAX => rb = 0
        /\ r.up # UINT_MAX => rb = p.up
    BY <1>1, <1>4, <2>1, <2>6
  <2> HIDE DEF pb, rb
  <2> QED
    BY <1>1, <2>5, <2>7
<1> QED
  BY <1>6, <1>7

\* What an object's text spells leads where the object does.
LEMMA SpeltMeans ==
    ASSUME PathnameAssumption, NEW p \in PathObject
    PROVE  /\ Spelt(p) \in Seq(PathText)
           /\ Len(Spelt(p)) = (IF p.up = UINT_MAX THEN 1 ELSE p.up) + Len(p.comps)
           /\ \A d \in Dirs : Denotes(d, p) = Walk(d, Spelt(p))
<1> DEFINE ns == NamesOf(p.comps)
           root == <<Root>>
           none == <<>>
<1>1. p.up \in Nat /\ p.comps \in Seq(PathComp)
  BY LevelBounds DEF PathObject
<1>2. ns \in Seq(PathText) /\ IsNames(ns) /\ Len(ns) = Len(p.comps) /\ Len(ns) \in Nat
  BY <1>1, NamesAre, LenProperties
<1> HIDE DEF ns
<1>3. CASE p.up = UINT_MAX
  <2>1. root \in Seq(PathText) /\ Len(root) = 1 /\ none \in Dirs
    BY Specials DEF Dirs
  <2>2. ASSUME NEW d \in Dirs
        PROVE  Walk(d, root) = none
    <3>1. none \in Seq(PathText) /\ root = Append(none, Root) /\ Root \in PathText /\ Walk(d, none) = d
      BY Specials, WalkNowhere
    <3> HIDE DEF root, none
    <3>2. Walk(d, root) = Step(Walk(d, none), Root)
      BY <3>1, WalkOn
    <3> QED
      BY <3>1, <3>2, StepIs DEF none
  <2>3. Spelt(p) = root \o ns
    BY <1>3 DEF Spelt, ns
  <2> HIDE DEF root
  <2>4. root \o ns \in Seq(PathText) /\ Len(root \o ns) = 1 + Len(ns)
    <3>1. root \o ns \in Seq(PathText) /\ Len(root \o ns) = Len(root) + Len(ns)
      BY <1>2, <2>1, ConcatProperties
    <3> QED
      BY <2>1, <3>1
  <2>5. ASSUME NEW d \in Dirs
        PROVE  Denotes(d, p) = Walk(d, root \o ns)
    <3>1. Walk(d, root \o ns) = Walk(Walk(d, root), ns)
      BY <1>2, <2>1, WalkFurther
    <3>2. Walk(none, ns) = none \o ns
      BY <1>2, <2>1, WalkNames
    <3>3. Denotes(d, p) = none \o ns
      <4>1. Denotes(d, p) = BaseOf(d, p) \o ns
        BY DenotesIs DEF ns
      <4> QED
        BY <1>3, <4>1 DEF BaseOf
    <3> QED
      BY <2>2, <3>1, <3>2, <3>3, Zenon
  <2>6. Len(Spelt(p)) = 1 + Len(p.comps)
    BY <1>2, <2>3, <2>4, Zenon
  <2> QED
    BY <1>3, <2>3, <2>4, <2>5, <2>6, Zenon
<1>4. CASE p.up # UINT_MAX
  <2>1. Spelt(p) = DoubleDots(p.up) \o ns /\ Names(p) = ns
    BY <1>4 DEF Spelt, ns, Names, NamesOf
  <2>2. /\ DoubleDots(p.up) \o Names(p) \in Seq(PathText)
        /\ \A d \in Dirs : Denotes(d, p) = Walk(d, DoubleDots(p.up) \o Names(p))
    BY <1>4, RelativeMeans
  <2>3. Len(DoubleDots(p.up) \o ns) = p.up + Len(ns)
    BY <1>1, <1>2, RelativeText
  <2>4. Len(Spelt(p)) = p.up + Len(p.comps)
    BY <1>2, <2>1, <2>3, Zenon
  <2> QED
    BY <1>4, <2>1, <2>2, <2>4, Zenon
<1> QED
  BY <1>3, <1>4

\* str() is parsed back.
LEMMA ParsedBack ==
    ASSUME PathnameAssumption, NEW p, Bounded(p)
    PROVE  LET again == JoinString(Empty, Str(p))
           IN  again.up = p.up /\ again.comps = p.comps
<1> DEFINE s == Str(p)
           again == JoinString(Empty, s)
<1>1. p \in PathObject /\ s \in PathText /\ Split(s) = Spelt(p)
  BY StrSpells DEF Bounded
<1>2. Empty \in PathObject /\ Empty.up = 0 /\ Empty.comps = <<>>
  BY LevelBounds DEF Empty, PathObject
<1> HIDE DEF s
<1>3. Empty.up + Len(Split(s)) < UINT_MAX
  <2>1. Len(p.comps) \in Nat /\ Len(p.comps) <= MaxText /\ (p.up \in 0..MaxLevels \/ p.up = UINT_MAX)
    BY LenProperties DEF Bounded, PathObject
  <2>2. MaxLevels \in Nat \ {0} /\ MaxText \in Nat /\ UINT_MAX \in Nat /\ MaxLevels + MaxText < UINT_MAX
    BY DEF PathnameAssumption
  <2>3. Len(Split(s)) = (IF p.up = UINT_MAX THEN 1 ELSE p.up) + Len(p.comps)
    BY <1>1, SpeltMeans
  <2> QED
    BY <1>2, <2>1, <2>2, <2>3
<1>4. Leads(Empty, Split(s), again)
  BY <1>1, <1>2, <1>3, JoinsString
<1> HIDE DEF again
<1>5. again \in PathObject /\ \A d \in Dirs : Denotes(d, again) = Denotes(d, p)
  <2>1. again \in PathObject
    BY <1>4 DEF Leads
  <2>2. ASSUME NEW d \in Dirs
        PROVE  Denotes(d, again) = Denotes(d, p)
    <3>1. Denotes(d, again) = Walk(Denotes(d, Empty), Split(s))
      BY <1>4 DEF Leads
    <3>2. Denotes(d, Empty) = d
      BY <1>2, NothingMade
    <3>3. Denotes(d, p) = Walk(d, Spelt(p))
      BY <1>1, SpeltMeans
    <3> QED
      BY <1>1, <3>1, <3>2, <3>3
  <2> QED
    BY <2>1, <2>2
<1>6. again.up = p.up /\ again.comps = p.comps
  BY <1>1, <1>5, SameObject
<1> QED
  BY <1>6 DEF again, s

LEMMA FormIsNormal ==
    ASSUME PathnameAssumption, PathInv
    PROVE  NormalForm
<1> SUFFICES ASSUME NEW o \in Objects
             PROVE  /\ \A i \in DOMAIN paths[o].comps :
                           /\ paths[o].comps[i].name \notin {<<>>, <<Dot>>, DoubleDot}
                           /\ Slash \notin Range(paths[o].comps[i].name)
                           /\ paths[o].comps[i].base = BaseLength(paths[o].comps[i].name)
                    /\ JoinString(Empty, Str(paths[o])).up = paths[o].up
                    /\ JoinString(Empty, Str(paths[o])).comps = paths[o].comps
  BY Zenon DEF NormalForm
<1> DEFINE p == paths[o]
<1>1. Bounded(p)
  BY MadeIsBounded DEF PathInv
<1> HIDE DEF p
<1>2. p.comps \in Seq(PathComp)
  BY <1>1 DEF Bounded, PathObject
<1>3. ASSUME NEW i \in DOMAIN p.comps
      PROVE  /\ p.comps[i].name \notin {<<>>, <<Dot>>, DoubleDot}
             /\ Slash \notin Range(p.comps[i].name)
             /\ p.comps[i].base = BaseLength(p.comps[i].name)
  <2> DEFINE c == p.comps[i]
  <2>1. c \in PathComp
    BY <1>2, LenProperties, ElementOfSeq
  <2> HIDE DEF c
  <2>2. IsName(c.name) /\ c.base = BaseLength(c.name)
    BY <2>1 DEF PathComp
  <2>3. DOMAIN c.name = 1..Len(c.name)
    BY <2>2, LenProperties DEF IsName, PathText
  <2>4. Slash \notin Range(c.name)
    BY <2>2, <2>3 DEF Range, IsName
  <2>5. c.name \notin {<<>>, <<Dot>>, DoubleDot}
    BY <2>2 DEF IsName
  <2> QED
    BY <2>2, <2>4, <2>5 DEF c
<1>4. JoinString(Empty, Str(p)).up = p.up /\ JoinString(Empty, Str(p)).comps = p.comps
  BY <1>1, ParsedBack
<1> QED
  BY <1>3, <1>4 DEF p

-----------------------------------------------------------------------------
LEMMA PathPromises ==
    ASSUME PathnameAssumption, PathInv
    PROVE  PathMeansText /\ RelativeToIsUndone /\ NormalForm
<1>1. PathMeansText
  BY DirectoriesAre DEF PathMeansText, PathInv, Made
<1>2. ASSUME NEW o \in Objects, NEW base \in Objects, Relatable(paths[o], paths[base])
      PROVE  JoinPath(paths[base], RelativeTo(paths[o], paths[base])) = paths[o]
  <2>1. Bounded(paths[o]) /\ Bounded(paths[base])
    BY MadeIsBounded DEF PathInv
  <2> QED
    BY <1>2, <2>1, RelativeToIs
<1> QED
  BY <1>1, <1>2, FormIsNormal DEF RelativeToIsUndone

(* An object leads to where the components it was made from lead, what     *)
(* relative_to() returns, joined to its argument, is the object again, and *)
(* str() is parsed back to it: for strings of all kinds and any number of  *)
(* pathnames.                                                              *)
THEOREM PathsAreRight ==
    PathnameAssumption => (Spec => [](PathMeansText /\ RelativeToIsUndone /\ NormalForm))
<1> SUFFICES ASSUME PathnameAssumption
             PROVE  Spec => [](PathMeansText /\ RelativeToIsUndone /\ NormalForm)
  OBVIOUS
<1>1. Init => PathInv
  BY PathStarts
<1>2. PathInv /\ [Next]_vars => PathInv'
  BY PathStays, PathKeeps DEF vars
<1>3. PathInv => PathMeansText /\ RelativeToIsUndone /\ NormalForm
  BY PathPromises
<1> QED
  BY <1>1, <1>2, <1>3, PTL DEF Spec
=============================================================================
