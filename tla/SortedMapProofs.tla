--------------------------- MODULE SortedMapProofs ---------------------------
(***************************************************************************)
(* Theorems about the search tree and the map on top of it, for any nodes   *)
(* and keys and any sequence of insertions, removals and searches.          *)
(*                                                                          *)
(* The argument numbers the nodes.  Of a tree of N nodes, at[m] is the       *)
(* position of node m in order, and lo[m] and hi[m] are those of the first   *)
(* and the last node of the subtree under m.  "Shape" says, of each node on  *)
(* its own, how its three pointers follow from the three numbers; that there *)
(* is such a numbering in which keys do not descend is the inductive         *)
(* invariant TreeInv.  It makes the tree sound: that no pointer leads back   *)
(* into the path behind it needs no induction, for a child's interval is a   *)
(* part of its parent's.  A loop along the pointers is a function that is    *)
(* defined by itself (IsWalk); because its steps descend in some number, it  *)
(* exists and is unique, and what each step passes on holds at its end.      *)
(* An insertion gives the new node the number its key calls for and moves    *)
(* those above up by one (With, ShapeWithLeft, ShapeWithRight).  A removal   *)
(* either puts the only child in the place of the node and closes the gap    *)
(* in the numbers (Spliced, ShapeWithout), or first takes the successor out  *)
(* that way and then gives it the place and number of the node (Raised).     *)
(***************************************************************************)
EXTENDS SortedMap, SequenceTheorems, FiniteSetTheorems, WellFoundedInduction, TLAPS

LEMMA LeastNatural ==
    ASSUME NEW T \in SUBSET Nat, T # {}
    PROVE  \E n \in T : \A m \in T : n <= m
<1> DEFINE R == OpToRel(<, Nat)
<1>1. \A x, y \in Nat : x < y => <<x, y>> \in R
  BY DEF OpToRel
<1>2. IsWellFoundedOn(R, Nat)
  BY NatLessThanWellFounded
<1> HIDE DEF R
<1>3. PICK x \in T : \A y \in T : ~(<<y, x>> \in R)
  BY <1>2, WFMin, Zenon
<1>4. \A y \in T : ~(y < x)
  BY <1>1, <1>3
<1>5. \A y \in T : x <= y
  BY <1>4
<1> QED
  BY <1>5

-----------------------------------------------------------------------------
(* The shape of a tree: node m is the at[m]-th of N in order, and the nodes  *)
(* below it, and itself, are those from the lo[m]-th to the hi[m]-th.        *)

Placed(D, N, at, lo, hi) ==
    /\ N \in Nat /\ NULL \notin D
    /\ at \in [D -> 1..N] /\ lo \in [D -> 1..N] /\ hi \in [D -> 1..N]
    /\ \A i \in 1..N : \E m \in D : at[m] = i
    /\ \A m, n \in D : at[m] = at[n] => m = n
    /\ \A m \in D : lo[m] <= at[m] /\ at[m] <= hi[m]
    /\ \A m, n \in D : lo[m] <= at[n] /\ at[n] <= hi[m] => lo[m] <= lo[n] /\ hi[n] <= hi[m]

LeftOf(t, at, lo, hi, m) ==
    IF at[m] = lo[m] THEN t[m].left = NULL
    ELSE /\ t[m].left \in DOMAIN t /\ t[t[m].left].parent = m
         /\ lo[t[m].left] = lo[m] /\ hi[t[m].left] = at[m] - 1

RightOf(t, at, lo, hi, m) ==
    IF at[m] = hi[m] THEN t[m].right = NULL
    ELSE /\ t[m].right \in DOMAIN t /\ t[t[m].right].parent = m
         /\ lo[t[m].right] = at[m] + 1 /\ hi[t[m].right] = hi[m]

ParentOf(t, rt, m) ==
    IF m = rt THEN t[m].parent = NULL
    ELSE /\ t[m].parent \in DOMAIN t
         /\ t[t[m].parent].left = m \/ t[t[m].parent].right = m

RootIs(D, rt, N, lo, hi) ==
    IF N = 0 THEN rt = NULL ELSE rt \in D /\ lo[rt] = 1 /\ hi[rt] = N

Shape(t, rt, N, at, lo, hi) ==
    /\ Placed(DOMAIN t, N, at, lo, hi)
    /\ RootIs(DOMAIN t, rt, N, lo, hi)
    /\ \A m \in DOMAIN t : /\ LeftOf(t, at, lo, hi, m)
                           /\ RightOf(t, at, lo, hi, m)
                           /\ ParentOf(t, rt, m)

\* Positions when the k-th node is gone
Without(D, f, k) == [m \in D |-> IF f[m] > k THEN f[m] - 1 ELSE f[m]]
EndsWithout(D, f, k) == [m \in D |-> IF f[m] >= k THEN f[m] - 1 ELSE f[m]]

LEMMA PlacedWithout ==
    ASSUME NEW D, NEW N, NEW at, NEW lo, NEW hi, Placed(D, N, at, lo, hi), NEW s \in D,
           lo[s] = at[s] \/ hi[s] = at[s]
    PROVE  LET k == at[s]
               E == D \ {s}
           IN  Placed(E, N - 1, Without(E, at, k), Without(E, lo, k), EndsWithout(E, hi, k))
<1> DEFINE k == at[s]
           E == D \ {s}
           a == Without(E, at, k)
           l == Without(E, lo, k)
           h == EndsWithout(E, hi, k)
<1>1. /\ N \in Nat /\ NULL \notin D
      /\ \A m \in D : at[m] \in 1..N /\ lo[m] \in 1..N /\ hi[m] \in 1..N
      /\ \A i \in 1..N : \E m \in D : at[m] = i
      /\ \A m, n \in D : at[m] = at[n] => m = n
      /\ \A m \in D : lo[m] <= at[m] /\ at[m] <= hi[m]
      /\ \A m, n \in D : lo[m] <= at[n] /\ at[n] <= hi[m] => lo[m] <= lo[n] /\ hi[n] <= hi[m]
  BY DEF Placed
<1>2. /\ k \in 1..N /\ k = at[s]
      /\ \A m \in E : m \in D /\ at[m] # k
      /\ \A m \in E : a[m] = IF at[m] > k THEN at[m] - 1 ELSE at[m]
      /\ \A m \in E : l[m] = IF lo[m] > k THEN lo[m] - 1 ELSE lo[m]
      /\ \A m \in E : h[m] = IF hi[m] >= k THEN hi[m] - 1 ELSE hi[m]
      /\ DOMAIN a = E /\ DOMAIN l = E /\ DOMAIN h = E
      /\ a = [m \in E |-> a[m]] /\ l = [m \in E |-> l[m]] /\ h = [m \in E |-> h[m]]
  BY <1>1 DEF Without, EndsWithout
<1> HIDE DEF a, l, h, E, k
<1>3. \A m \in E : a[m] \in 1..(N - 1) /\ l[m] \in 1..(N - 1) /\ h[m] \in 1..(N - 1)
                   /\ l[m] <= a[m] /\ a[m] <= h[m]
  BY <1>1, <1>2
<1>4. ASSUME NEW i \in 1..(N - 1)
      PROVE  \E m \in E : a[m] = i
  <2> DEFINE j == IF i >= k THEN i + 1 ELSE i
  <2>1. j \in 1..N /\ j # k /\ (IF j > k THEN j - 1 ELSE j) = i
    BY <1>1, <1>2
  <2> HIDE DEF j
  <2>2. PICK m \in D : at[m] = j
    BY <1>1, <2>1
  <2>3. m \in E
    BY <1>2, <2>1, <2>2 DEF E
  <2> QED
    BY <1>2, <2>1, <2>2, <2>3
<1>5. ASSUME NEW m \in E, NEW n \in E, a[m] = a[n]
      PROVE  m = n
  <2>1. at[m] = at[n]
    BY <1>1, <1>2, <1>5
  <2> QED
    BY <1>1, <1>2, <2>1
<1>6. ASSUME NEW m \in E, NEW n \in E, l[m] <= a[n], a[n] <= h[m]
      PROVE  l[m] <= l[n] /\ h[n] <= h[m]
  <2>1. lo[m] <= at[n] /\ at[n] <= hi[m]
    <3> DEFINE x == at[n]
               y == lo[m]
               z == hi[m]
    <3>1. x \in Int /\ y \in Int /\ z \in Int /\ k \in Int /\ x # k
      BY <1>1, <1>2
    <3>2. /\ a[n] = IF x > k THEN x - 1 ELSE x
          /\ l[m] = IF y > k THEN y - 1 ELSE y
          /\ h[m] = IF z >= k THEN z - 1 ELSE z
      BY <1>2
    <3> HIDE DEF x, y, z
    <3>3. y <= x /\ x <= z
      BY <1>6, <3>1, <3>2
    <3> QED
      BY <3>3 DEF x, y, z
  <2>2. lo[m] <= lo[n] /\ hi[n] <= hi[m]
    BY <1>1, <1>2, <2>1
  <2> QED
    BY <1>1, <1>2, <2>2
<1>7. N - 1 \in Nat /\ NULL \notin E
  BY <1>1, <1>2
<1>8. a \in [E -> 1..(N - 1)] /\ l \in [E -> 1..(N - 1)] /\ h \in [E -> 1..(N - 1)]
  BY <1>2, <1>3
<1>9. Placed(E, N - 1, a, l, h)
  BY <1>3, <1>4, <1>5, <1>6, <1>7, <1>8 DEF Placed
<1> QED
  BY <1>9 DEF a, l, h, E, k

\* What the definition says of each node
LEMMA ShapeIs ==
    ASSUME NEW t, NEW rt, NEW N, NEW at, NEW lo, NEW hi, Shape(t, rt, N, at, lo, hi)
    PROVE  LET D == DOMAIN t
           IN  /\ N \in Nat /\ NULL \notin D
               /\ \A m \in D : /\ at[m] \in 1..N /\ lo[m] \in 1..N /\ hi[m] \in 1..N
                               /\ lo[m] <= at[m] /\ at[m] <= hi[m]
               /\ \A i \in 1..N : \E m \in D : at[m] = i
               /\ \A m, n \in D : at[m] = at[n] => m = n
               /\ \A m, n \in D : lo[m] <= at[n] /\ at[n] <= hi[m] => lo[m] <= lo[n] /\ hi[n] <= hi[m]
               /\ \A m \in D : at[m] = lo[m] => t[m].left = NULL
               /\ \A m \in D : at[m] # lo[m] =>
                     /\ t[m].left \in D /\ t[t[m].left].parent = m
                     /\ lo[t[m].left] = lo[m] /\ hi[t[m].left] = at[m] - 1
               /\ \A m \in D : at[m] = hi[m] => t[m].right = NULL
               /\ \A m \in D : at[m] # hi[m] =>
                     /\ t[m].right \in D /\ t[t[m].right].parent = m
                     /\ lo[t[m].right] = at[m] + 1 /\ hi[t[m].right] = hi[m]
               /\ \A m \in D : m = rt => t[m].parent = NULL
               /\ \A m \in D : m # rt =>
                     /\ t[m].parent \in D
                     /\ t[t[m].parent].left = m \/ t[t[m].parent].right = m
               /\ N = 0 => rt = NULL
               /\ N # 0 => rt \in D /\ lo[rt] = 1 /\ hi[rt] = N
BY DEF Shape, Placed, LeftOf, RightOf, ParentOf, RootIs

\* Node s, with at most one child c, is taken out: c takes its place.
\* c is the only child of node s, or NULL if it has none.
OnlyChild(t, s, c) ==
    \/ t[s].left = NULL /\ c = t[s].right
    \/ t[s].right = NULL /\ c = t[s].left

\* u is t with c in the place of s.
Spliced(t, rt, s, c, u, ru) ==
    /\ OnlyChild(t, s, c)
    /\ DOMAIN u = DOMAIN t \ {s} /\ ru = IF rt = s THEN c ELSE rt
    /\ \A m \in DOMAIN u :
          /\ u[m].left = IF t[m].left = s THEN c ELSE t[m].left
          /\ u[m].right = IF t[m].right = s THEN c ELSE t[m].right
          /\ u[m].parent = IF m = c THEN t[s].parent ELSE t[m].parent

LEMMA ShapeWithout ==
    ASSUME NEW t, NEW rt, NEW N, NEW at, NEW lo, NEW hi, Shape(t, rt, N, at, lo, hi),
           NEW s \in DOMAIN t, NEW c, NEW u, NEW ru, Spliced(t, rt, s, c, u, ru)
    PROVE  LET k == at[s]
               E == DOMAIN u
           IN  Shape(u, ru, N - 1, Without(E, at, k), Without(E, lo, k), EndsWithout(E, hi, k))
<1> USE DEF Spliced, OnlyChild
<1> DEFINE D == DOMAIN t
           k == at[s]
           E == DOMAIN u
           a == Without(E, at, k)
           l == Without(E, lo, k)
           h == EndsWithout(E, hi, k)
           p == t[s].parent
<1>1. /\ N \in Nat /\ NULL \notin D
      /\ \A m \in D : /\ at[m] \in 1..N /\ lo[m] \in 1..N /\ hi[m] \in 1..N
                      /\ lo[m] <= at[m] /\ at[m] <= hi[m]
      /\ \A m, n \in D : at[m] = at[n] => m = n
  BY ShapeIs
<1>2. \A m \in D : /\ at[m] = lo[m] => t[m].left = NULL
                   /\ at[m] # lo[m] => /\ t[m].left \in D /\ t[t[m].left].parent = m
                                       /\ lo[t[m].left] = lo[m] /\ hi[t[m].left] = at[m] - 1
  BY ShapeIs
<1>3. \A m \in D : /\ at[m] = hi[m] => t[m].right = NULL
                   /\ at[m] # hi[m] => /\ t[m].right \in D /\ t[t[m].right].parent = m
                                       /\ lo[t[m].right] = at[m] + 1 /\ hi[t[m].right] = hi[m]
  BY ShapeIs
<1>4. \A m \in D : /\ m = rt => t[m].parent = NULL
                   /\ m # rt => /\ t[m].parent \in D
                                /\ t[t[m].parent].left = m \/ t[t[m].parent].right = m
  BY ShapeIs
<1>5. /\ N = 0 => rt = NULL
      /\ N # 0 => rt \in D /\ lo[rt] = 1 /\ hi[rt] = N
  BY ShapeIs
<1>6. /\ k \in 1..N /\ E = D \ {s} /\ s \in D
      /\ \A m \in E : at[m] # k
      /\ \A m \in E : a[m] = IF at[m] > k THEN at[m] - 1 ELSE at[m]
      /\ \A m \in E : l[m] = IF lo[m] > k THEN lo[m] - 1 ELSE lo[m]
      /\ \A m \in E : h[m] = IF hi[m] >= k THEN hi[m] - 1 ELSE hi[m]
  BY <1>1 DEF Without, EndsWithout
<1>7. lo[s] <= k /\ k <= hi[s] /\ lo[s] \in 1..N /\ hi[s] \in 1..N /\ k = at[s]
  BY <1>1
<1>8. Placed(E, N - 1, a, l, h)
  <2>1. lo[s] = at[s] \/ hi[s] = at[s]
    BY <1>1, <1>2, <1>3
  <2>2. Placed(D, N, at, lo, hi)
    BY DEF Shape
  <2>3. LET E0 == D \ {s}
        IN  Placed(E0, N - 1, Without(E0, at, k), Without(E0, lo, k), EndsWithout(E0, hi, k))
    <3> HIDE DEF D
    <3> QED
      BY <1>6, <2>1, <2>2, PlacedWithout, Zenon
  <2>4. E = D \ {s}
    BY <1>6
  <2> HIDE DEF D, E, k
  <2> QED
    BY <2>3, <2>4
<1> HIDE DEF a, l, h, k, E, D, p
<1>9. /\ s # NULL
      /\ c = NULL => lo[s] = k /\ hi[s] = k
      /\ c # NULL => /\ c \in E /\ t[c].parent = s
                     /\ \/ lo[s] = k /\ lo[c] = k + 1 /\ hi[c] = hi[s]
                        \/ hi[s] = k /\ lo[c] = lo[s] /\ hi[c] = k - 1
  <2>1. s # NULL
    BY <1>1, <1>6
  <2>2. CASE t[s].left = NULL /\ c = t[s].right
    <3>1. lo[s] = k
      BY <1>1, <1>2, <1>6, <1>7, <2>2
    <3>2. CASE hi[s] = k
      BY <1>3, <1>6, <1>7, <2>1, <2>2, <3>1, <3>2
    <3>3. CASE hi[s] # k
      <4>1. c \in D /\ t[c].parent = s /\ lo[c] = k + 1 /\ hi[c] = hi[s]
        BY <1>3, <1>6, <1>7, <2>2, <3>3
      <4>2. c # s /\ c # NULL
        BY <1>1, <1>7, <3>1, <4>1
      <4> QED
        BY <1>6, <2>1, <3>1, <4>1, <4>2
    <3> QED
      BY <3>2, <3>3
  <2>3. CASE t[s].right = NULL /\ c = t[s].left
    <3>1. hi[s] = k
      BY <1>1, <1>3, <1>6, <1>7, <2>3
    <3>2. CASE lo[s] = k
      BY <1>2, <1>6, <1>7, <2>1, <2>3, <3>1, <3>2
    <3>3. CASE lo[s] # k
      <4>1. c \in D /\ t[c].parent = s /\ lo[c] = lo[s] /\ hi[c] = k - 1
        BY <1>2, <1>6, <1>7, <2>3, <3>3
      <4>2. c # s /\ c # NULL
        BY <1>1, <1>7, <3>1, <4>1
      <4> QED
        BY <1>6, <2>1, <3>1, <4>1, <4>2
    <3> QED
      BY <3>2, <3>3
  <2> QED
    BY <2>2, <2>3
<1>10. \A m \in E : /\ u[m].left = IF t[m].left = s THEN c ELSE t[m].left
                    /\ u[m].right = IF t[m].right = s THEN c ELSE t[m].right
                    /\ u[m].parent = IF m = c THEN t[s].parent ELSE t[m].parent
  BY DEF E
<1>11. ASSUME NEW m \in E
       PROVE  LeftOf(u, a, l, h, m)
  <2>1. /\ m \in D /\ at[m] \in 1..N /\ lo[m] \in 1..N /\ hi[m] \in 1..N /\ lo[m] <= at[m]
        /\ at[m] <= hi[m] /\ at[m] # k
    BY <1>1, <1>6
  <2>2. CASE t[m].left = s
    <3>1. at[m] # lo[m] /\ t[s].parent = m /\ lo[s] = lo[m] /\ hi[s] = at[m] - 1
      BY <1>2, <1>9, <2>1, <2>2
    <3>2. u[m].left = c
      BY <1>10, <2>2
    <3>3. CASE c = NULL
      <4>1. a[m] = l[m]
        BY <1>6, <1>7, <1>9, <2>1, <3>1, <3>3
      <4> QED
        BY <3>2, <3>3, <4>1 DEF LeftOf
    <3>4. CASE c # NULL
      <4>1. c \in E /\ c \in D /\ u[c].parent = m
        BY <1>6, <1>9, <1>10, <3>1, <3>4
      <4>2. lo[c] \in 1..N /\ hi[c] \in 1..N /\ lo[c] <= hi[c]
        BY <1>1, <4>1
      <4>3. l[c] = l[m] /\ h[c] = a[m] - 1 /\ a[m] # l[m]
        BY <1>6, <1>7, <1>9, <2>1, <3>1, <3>4, <4>1, <4>2
      <4> QED
        BY <3>2, <4>1, <4>3 DEF LeftOf, E
    <3> QED
      BY <3>3, <3>4
  <2>3. CASE t[m].left # s
    <3>1. u[m].left = t[m].left
      BY <1>10, <2>3
    <3>2. CASE at[m] = lo[m]
      <4>1. a[m] = l[m] /\ t[m].left = NULL
        BY <1>2, <1>6, <2>1, <3>2
      <4> QED
        BY <3>1, <4>1 DEF LeftOf
    <3>3. CASE at[m] # lo[m]
      <4> DEFINE x == t[m].left
      <4>1. x \in D /\ x \in E /\ t[x].parent = m /\ lo[x] = lo[m] /\ hi[x] = at[m] - 1
        BY <1>2, <1>6, <2>1, <2>3, <3>3
      <4> HIDE DEF x
      <4>2. u[x].parent = m
        <5>1. x # c
          BY <1>1, <1>6, <1>9, <4>1
        <5> QED
          BY <1>10, <4>1, <5>1
      <4>3. at[x] # k /\ at[x] \in 1..N /\ lo[x] \in 1..N /\ hi[x] \in 1..N /\ lo[x] <= at[x] /\ at[x] <= hi[x]
        BY <1>1, <1>6, <4>1
      <4>4. l[x] = l[m] /\ h[x] = a[m] - 1 /\ a[m] # l[m]
        BY <1>6, <2>1, <3>3, <4>1, <4>3
      <4>5. u[m].left = x
        BY <3>1 DEF x
      <4> QED
        BY <4>1, <4>2, <4>4, <4>5 DEF LeftOf, E
    <3> QED
      BY <3>2, <3>3
  <2> QED
    BY <2>2, <2>3
<1>12. ASSUME NEW m \in E
       PROVE  RightOf(u, a, l, h, m)
  <2>1. /\ m \in D /\ at[m] \in 1..N /\ lo[m] \in 1..N /\ hi[m] \in 1..N /\ lo[m] <= at[m]
        /\ at[m] <= hi[m] /\ at[m] # k
    BY <1>1, <1>6
  <2>2. CASE t[m].right = s
    <3>1. at[m] # hi[m] /\ t[s].parent = m /\ lo[s] = at[m] + 1 /\ hi[s] = hi[m]
      BY <1>3, <1>9, <2>1, <2>2
    <3>2. u[m].right = c
      BY <1>10, <2>2
    <3>3. CASE c = NULL
      <4>1. a[m] = h[m]
        BY <1>6, <1>7, <1>9, <2>1, <3>1, <3>3
      <4> QED
        BY <3>2, <3>3, <4>1 DEF RightOf
    <3>4. CASE c # NULL
      <4>1. c \in E /\ c \in D /\ u[c].parent = m
        BY <1>6, <1>9, <1>10, <3>1, <3>4
      <4>2. lo[c] \in 1..N /\ hi[c] \in 1..N /\ lo[c] <= hi[c]
        BY <1>1, <4>1
      <4>3. l[c] = a[m] + 1 /\ h[c] = h[m] /\ a[m] # h[m]
        BY <1>6, <1>7, <1>9, <2>1, <3>1, <3>4, <4>1, <4>2
      <4> QED
        BY <3>2, <4>1, <4>3 DEF RightOf, E
    <3> QED
      BY <3>3, <3>4
  <2>3. CASE t[m].right # s
    <3>1. u[m].right = t[m].right
      BY <1>10, <2>3
    <3>2. CASE at[m] = hi[m]
      <4>1. a[m] = h[m] /\ t[m].right = NULL
        BY <1>3, <1>6, <2>1, <3>2
      <4> QED
        BY <3>1, <4>1 DEF RightOf
    <3>3. CASE at[m] # hi[m]
      <4> DEFINE x == t[m].right
      <4>1. x \in D /\ x \in E /\ t[x].parent = m /\ lo[x] = at[m] + 1 /\ hi[x] = hi[m]
        BY <1>3, <1>6, <2>1, <2>3, <3>3
      <4> HIDE DEF x
      <4>2. u[x].parent = m
        <5>1. x # c
          BY <1>1, <1>6, <1>9, <4>1
        <5> QED
          BY <1>10, <4>1, <5>1
      <4>3. at[x] # k /\ at[x] \in 1..N /\ lo[x] \in 1..N /\ hi[x] \in 1..N /\ lo[x] <= at[x] /\ at[x] <= hi[x]
        BY <1>1, <1>6, <4>1
      <4>4. l[x] = a[m] + 1 /\ h[x] = h[m] /\ a[m] # h[m]
        BY <1>6, <2>1, <3>3, <4>1, <4>3
      <4>5. u[m].right = x
        BY <3>1 DEF x
      <4> QED
        BY <4>1, <4>2, <4>4, <4>5 DEF RightOf, E
    <3> QED
      BY <3>2, <3>3
  <2> QED
    BY <2>2, <2>3
<1>13. ASSUME NEW m \in E
       PROVE  ParentOf(u, ru, m)
  <2>1. m \in D /\ m # s /\ m # NULL
    BY <1>1, <1>6
  <2>2. CASE m = c
    <3>1. u[m].parent = t[s].parent /\ t[m].parent = s
      BY <1>9, <1>10, <2>1, <2>2
    <3>2. m # rt
      BY <1>1, <1>4, <1>6, <2>1, <3>1
    <3>3. CASE s = rt
      BY <1>4, <1>6, <2>2, <3>1, <3>3 DEF ParentOf
    <3>4. CASE s # rt
      <4>1. /\ t[s].parent \in D
            /\ t[t[s].parent].left = s \/ t[t[s].parent].right = s
        BY <1>4, <1>6, <3>4
      <4>2. t[s].parent # s
        BY <1>2, <1>3, <1>6, <1>7, <1>9, <4>1
      <4>3. p \in E /\ (u[p].left = m \/ u[p].right = m)
        BY <1>6, <1>10, <2>2, <4>1, <4>2 DEF p
      <4> QED
        BY <3>1, <3>2, <3>4, <4>3 DEF ParentOf, p, E
    <3> QED
      BY <3>3, <3>4
  <2>3. CASE m # c
    <3>1. u[m].parent = t[m].parent
      BY <1>10, <2>3
    <3>2. CASE m = rt
      <4>1. ru = m /\ t[m].parent = NULL
        BY <1>4, <2>1, <3>2
      <4> QED
        BY <3>1, <4>1 DEF ParentOf
    <3>3. CASE m # rt
      <4> DEFINE x == t[m].parent
      <4>1. x \in D /\ (t[x].left = m \/ t[x].right = m)
        BY <1>4, <2>1, <3>3
      <4>2. x # s
        BY <2>1, <2>3, <4>1
      <4> HIDE DEF x
      <4>3. x \in E /\ (u[x].left = m \/ u[x].right = m)
        BY <1>6, <1>10, <2>1, <4>1, <4>2
      <4>4. ru # m /\ u[m].parent = x
        BY <2>3, <3>1, <3>3 DEF x
      <4> QED
        BY <4>3, <4>4 DEF ParentOf, E
    <3> QED
      BY <3>2, <3>3
  <2> QED
    BY <2>2, <2>3
<1>14. RootIs(E, ru, N - 1, l, h)
  <2>1. rt \in D /\ lo[rt] = 1 /\ hi[rt] = N
    BY <1>1, <1>5, <1>6
  <2>2. CASE rt = s
    <3>1. CASE c = NULL
      BY <1>1, <1>7, <1>9, <2>1, <2>2, <3>1 DEF RootIs
    <3>2. CASE c # NULL
      <4>1. c \in D /\ c \in E /\ lo[c] \in 1..N /\ hi[c] \in 1..N /\ lo[c] <= hi[c]
        BY <1>1, <1>6, <1>9, <3>2
      <4>2. l[c] = 1 /\ h[c] = N - 1 /\ N - 1 # 0
        <5>1. /\ lo[s] = 1 /\ hi[s] = N /\ N \in Nat
              /\ l[c] = IF lo[c] > k THEN lo[c] - 1 ELSE lo[c]
              /\ h[c] = IF hi[c] >= k THEN hi[c] - 1 ELSE hi[c]
          BY <1>1, <1>6, <2>1, <2>2, <4>1
        <5>2. CASE lo[s] = k /\ lo[c] = k + 1 /\ hi[c] = hi[s]
          BY <1>7, <4>1, <5>1, <5>2
        <5>3. CASE hi[s] = k /\ lo[c] = lo[s] /\ hi[c] = k - 1
          BY <1>7, <4>1, <5>1, <5>3
        <5> QED
          BY <1>9, <3>2, <5>2, <5>3
      <4> QED
        BY <2>2, <4>1, <4>2 DEF RootIs
    <3> QED
      BY <3>1, <3>2
  <2>3. CASE rt # s
    <3>1. rt \in E /\ l[rt] = 1 /\ h[rt] = N - 1
      BY <1>1, <1>6, <2>1, <2>3
    <3>2. N - 1 # 0
      BY <1>1, <1>6, <2>1, <2>3
    <3> QED
      BY <2>3, <3>1, <3>2 DEF RootIs
  <2> QED
    BY <2>2, <2>3
<1>15. Shape(u, ru, N - 1, a, l, h)
  BY <1>8, <1>11, <1>12, <1>13, <1>14 DEF Shape, E
<1> QED
  BY <1>15 DEF a, l, h, k, E

\* Positions when a new node has become the k-th one, and f is moved from g on
With(D, f, n, k, g) == [m \in D |-> IF m = n THEN k ELSE IF f[m] >= g THEN f[m] + 1 ELSE f[m]]

LEMMA PlacedWith ==
    ASSUME NEW D, NEW N, NEW at, NEW lo, NEW hi, Placed(D, N, at, lo, hi),
           NEW n, n \notin D, n # NULL, NEW p \in D, NEW k \in Int, NEW i \in Int, NEW j \in Int,
           \/ k = at[p] /\ lo[p] = at[p] /\ i = k + 1 /\ j = k
           \/ k = at[p] + 1 /\ hi[p] = at[p] /\ i = k /\ j = k - 1
    PROVE  LET E == D \cup {n}
           IN  Placed(E, N + 1, With(E, at, n, k, k), With(E, lo, n, k, i), With(E, hi, n, k, j))
<1> DEFINE E == D \cup {n}
           a == With(E, at, n, k, k)
           l == With(E, lo, n, k, i)
           h == With(E, hi, n, k, j)
<1>1. /\ N \in Nat /\ NULL \notin D
      /\ \A m \in D : at[m] \in 1..N /\ lo[m] \in 1..N /\ hi[m] \in 1..N
      /\ \A q \in 1..N : \E m \in D : at[m] = q
      /\ \A m, x \in D : at[m] = at[x] => m = x
      /\ \A m \in D : lo[m] <= at[m] /\ at[m] <= hi[m]
      /\ \A m, x \in D : lo[m] <= at[x] /\ at[x] <= hi[m] => lo[m] <= lo[x] /\ hi[x] <= hi[m]
  BY DEF Placed
<1>2. /\ k \in 1..(N + 1) /\ n \in E /\ a[n] = k /\ l[n] = k /\ h[n] = k
      /\ k <= i /\ i <= k + 1 /\ j <= k /\ k - 1 <= j /\ i = j + 1
      /\ \A m \in D : m # n /\ m \in E
      /\ \A m \in E : m # n => m \in D
      /\ \A m \in D : a[m] = IF at[m] >= k THEN at[m] + 1 ELSE at[m]
      /\ \A m \in D : l[m] = IF lo[m] >= i THEN lo[m] + 1 ELSE lo[m]
      /\ \A m \in D : h[m] = IF hi[m] >= j THEN hi[m] + 1 ELSE hi[m]
      /\ DOMAIN a = E /\ DOMAIN l = E /\ DOMAIN h = E
      /\ a = [m \in E |-> a[m]] /\ l = [m \in E |-> l[m]] /\ h = [m \in E |-> h[m]]
  BY <1>1 DEF With
<1> HIDE DEF a, l, h, E
<1>3. ASSUME NEW m \in D
      PROVE  /\ a[m] \in 1..(N + 1) /\ l[m] \in 1..(N + 1) /\ h[m] \in 1..(N + 1)
             /\ l[m] <= a[m] /\ a[m] <= h[m] /\ a[m] # k
  <2>1. at[m] \in 1..N /\ lo[m] \in 1..N /\ hi[m] \in 1..N /\ lo[m] <= at[m] /\ at[m] <= hi[m]
    BY <1>1
  <2>2. /\ a[m] = IF at[m] >= k THEN at[m] + 1 ELSE at[m]
        /\ l[m] = IF lo[m] >= i THEN lo[m] + 1 ELSE lo[m]
        /\ h[m] = IF hi[m] >= j THEN hi[m] + 1 ELSE hi[m]
        /\ N \in Nat /\ k \in 1..(N + 1) /\ k <= i /\ j <= k
    BY <1>1, <1>2
  <2> QED
    BY <2>1, <2>2
<1>4. \A m \in E : /\ a[m] \in 1..(N + 1) /\ l[m] \in 1..(N + 1) /\ h[m] \in 1..(N + 1)
                   /\ l[m] <= a[m] /\ a[m] <= h[m]
  <2>1. k \in 1..(N + 1) /\ a[n] = k /\ l[n] = k /\ h[n] = k
    BY <1>2
  <2>2. \A m \in E : m = n \/ m \in D
    BY <1>2
  <2> QED
    BY <1>3, <2>1, <2>2
<1>5. ASSUME NEW q \in 1..(N + 1)
      PROVE  \E m \in E : a[m] = q
  <2>1. CASE q = k
    BY <1>2, <2>1
  <2>2. CASE q # k
    <3> DEFINE x == IF q > k THEN q - 1 ELSE q
    <3>1. x \in 1..N /\ (IF x >= k THEN x + 1 ELSE x) = q
      BY <1>1, <1>2, <2>2
    <3> HIDE DEF x
    <3>2. PICK m \in D : at[m] = x
      BY <1>1, <3>1
    <3> QED
      BY <1>2, <3>1, <3>2
  <2> QED
    BY <2>1, <2>2
<1>6. ASSUME NEW m \in E, NEW x \in E, a[m] = a[x]
      PROVE  m = x
  <2>1. CASE m = n \/ x = n
    BY <1>2, <1>3, <1>6, <2>1
  <2>2. CASE m # n /\ x # n
    <3>1. m \in D /\ x \in D /\ at[m] \in Int /\ at[x] \in Int
      BY <1>1, <1>2, <2>2
    <3>2. at[m] = at[x]
      <4>1. /\ a[m] = IF at[m] >= k THEN at[m] + 1 ELSE at[m]
            /\ a[x] = IF at[x] >= k THEN at[x] + 1 ELSE at[x]
        BY <1>2, <3>1
      <4>2. a[m] = a[x] /\ k \in Int
        BY <1>6
      <4>3. at[m] \in Int /\ at[x] \in Int
        BY <3>1
      <4> QED
        BY <4>1, <4>2, <4>3
    <3> QED
      BY <1>1, <3>1, <3>2
  <2> QED
    BY <2>1, <2>2
<1>7. ASSUME NEW m \in E, NEW x \in E, l[m] <= a[x], a[x] <= h[m]
      PROVE  l[m] <= l[x] /\ h[x] <= h[m]
  <2>1. CASE x = n
    BY <1>2, <1>7, <2>1
  <2>2. CASE m = n /\ x # n
    <3>1. x \in D /\ a[x] \in Int
      BY <1>2, <1>4, <2>2
    <3>2. a[x] = k
      BY <1>2, <1>7, <2>2, <3>1
    <3> QED
      BY <1>3, <3>1, <3>2
  <2>3. CASE m # n /\ x # n
    <3>1. m \in D /\ x \in D
      BY <1>2, <2>3
    <3>2. /\ at[x] \in Int /\ lo[m] \in Int /\ hi[m] \in Int /\ lo[x] \in Int /\ hi[x] \in Int
      BY <1>1, <3>1
    <3>3. lo[m] <= at[x] /\ at[x] <= hi[m]
      <4>1. /\ a[x] = IF at[x] >= k THEN at[x] + 1 ELSE at[x]
            /\ l[m] = IF lo[m] >= i THEN lo[m] + 1 ELSE lo[m]
            /\ h[m] = IF hi[m] >= j THEN hi[m] + 1 ELSE hi[m]
        BY <1>2, <3>1
      <4> QED
        BY <1>2, <1>7, <3>2, <4>1
    <3>4. lo[m] <= lo[x] /\ hi[x] <= hi[m]
      BY <1>1, <3>1, <3>3
    <3> QED
      BY <1>2, <3>1, <3>2, <3>4
  <2> QED
    BY <2>1, <2>2, <2>3
<1>8. N + 1 \in Nat /\ NULL \notin E
  BY <1>1, <1>2
<1>9. a \in [E -> 1..(N + 1)] /\ l \in [E -> 1..(N + 1)] /\ h \in [E -> 1..(N + 1)]
  BY <1>2, <1>4
<1>10. Placed(E, N + 1, a, l, h)
  BY <1>4, <1>5, <1>6, <1>7, <1>8, <1>9 DEF Placed
<1> QED
  BY <1>10 DEF a, l, h, E

\* Node n becomes the left child of p, which has none.
LEMMA ShapeWithLeft ==
    ASSUME NEW t, NEW rt, NEW N, NEW at, NEW lo, NEW hi, Shape(t, rt, N, at, lo, hi),
           NEW n, n \notin DOMAIN t, n # NULL, NEW p \in DOMAIN t, t[p].left = NULL,
           NEW u, DOMAIN u = DOMAIN t \cup {n},
           u[n].left = NULL, u[n].right = NULL, u[n].parent = p,
           \A m \in DOMAIN t :
              /\ u[m].left = IF m = p THEN n ELSE t[m].left
              /\ u[m].right = t[m].right
              /\ u[m].parent = t[m].parent
    PROVE  LET k == at[p]
               E == DOMAIN u
           IN  Shape(u, rt, N + 1, With(E, at, n, k, k), With(E, lo, n, k, k + 1), With(E, hi, n, k, k))
<1> DEFINE D == DOMAIN t
           k == at[p]
           E == DOMAIN u
           a == With(E, at, n, k, k)
           l == With(E, lo, n, k, k + 1)
           h == With(E, hi, n, k, k)
<1>1. /\ N \in Nat /\ NULL \notin D
      /\ \A m \in D : /\ at[m] \in 1..N /\ lo[m] \in 1..N /\ hi[m] \in 1..N
                      /\ lo[m] <= at[m] /\ at[m] <= hi[m]
      /\ \A m, x \in D : at[m] = at[x] => m = x
  BY ShapeIs
<1>2. \A m \in D : /\ at[m] = lo[m] => t[m].left = NULL
                   /\ at[m] # lo[m] => /\ t[m].left \in D /\ t[t[m].left].parent = m
                                       /\ lo[t[m].left] = lo[m] /\ hi[t[m].left] = at[m] - 1
  BY ShapeIs
<1>3. \A m \in D : /\ at[m] = hi[m] => t[m].right = NULL
                   /\ at[m] # hi[m] => /\ t[m].right \in D /\ t[t[m].right].parent = m
                                       /\ lo[t[m].right] = at[m] + 1 /\ hi[t[m].right] = hi[m]
  BY ShapeIs
<1>4. \A m \in D : /\ m = rt => t[m].parent = NULL
                   /\ m # rt => /\ t[m].parent \in D
                                /\ t[t[m].parent].left = m \/ t[t[m].parent].right = m
  BY ShapeIs
<1>5. /\ N = 0 => rt = NULL
      /\ N # 0 => rt \in D /\ lo[rt] = 1 /\ hi[rt] = N
  BY ShapeIs
<1>6. /\ k \in 1..N /\ E = D \cup {n} /\ p \in D /\ n \notin D
      /\ a[n] = k /\ l[n] = k /\ h[n] = k
      /\ \A m \in D : a[m] = IF at[m] >= k THEN at[m] + 1 ELSE at[m]
      /\ \A m \in D : l[m] = IF lo[m] >= k + 1 THEN lo[m] + 1 ELSE lo[m]
      /\ \A m \in D : h[m] = IF hi[m] >= k THEN hi[m] + 1 ELSE hi[m]
  BY <1>1 DEF With
<1>7. lo[p] = k /\ k = at[p]
  BY <1>1, <1>2
<1>8. Placed(E, N + 1, a, l, h)
  <2>1. k \in Int /\ k + 1 \in Int /\ lo[p] = at[p]
    BY <1>6, <1>7
  <2>2. Placed(D, N, at, lo, hi)
    BY DEF Shape
  <2>3. LET E0 == D \cup {n}
        IN  Placed(E0, N + 1, With(E0, at, n, k, k), With(E0, lo, n, k, k + 1), With(E0, hi, n, k, k))
    <3> HIDE DEF D
    <3> QED
      BY <1>6, <2>1, <2>2, PlacedWith
  <2>4. E = D \cup {n}
    OBVIOUS
  <2> HIDE DEF D, E, k
  <2> QED
    BY <2>3, <2>4
<1>9. /\ \A m \in D : /\ u[m].left = IF m = p THEN n ELSE t[m].left
                      /\ u[m].right = t[m].right
                      /\ u[m].parent = t[m].parent
      /\ u[n].left = NULL /\ u[n].right = NULL /\ u[n].parent = p
  OBVIOUS
<1> HIDE DEF a, l, h, k, E, D
<1>10. ASSUME NEW m \in D
       PROVE  LeftOf(u, a, l, h, m) /\ RightOf(u, a, l, h, m) /\ ParentOf(u, rt, m)
  <2>1. /\ m \in D /\ at[m] \in 1..N /\ lo[m] \in 1..N /\ hi[m] \in 1..N /\ lo[m] <= at[m]
        /\ at[m] <= hi[m] /\ m \in E /\ m # n
    BY <1>1, <1>6
  <2>2. LeftOf(u, a, l, h, m)
    <3>1. CASE m = p
      <4>1. a[m] = k + 1 /\ l[m] = k /\ u[m].left = n
        BY <1>6, <1>7, <1>9, <2>1, <3>1
      <4>2. n \in E /\ u[n].parent = m /\ l[n] = l[m] /\ h[n] = a[m] - 1 /\ a[m] # l[m]
        BY <1>6, <1>9, <3>1, <4>1
      <4> QED
        BY <4>1, <4>2 DEF LeftOf, E
    <3>2. CASE m # p
      <4>1. u[m].left = t[m].left /\ at[m] # k
        BY <1>1, <1>6, <1>7, <1>9, <3>2
      <4>2. CASE at[m] = lo[m]
        <5>1. t[m].left = NULL /\ a[m] = l[m]
          BY <1>2, <1>6, <2>1, <4>1, <4>2
        <5> QED
          BY <4>1, <5>1 DEF LeftOf
      <4>3. CASE at[m] # lo[m]
        <5> DEFINE x == t[m].left
        <5>1. x \in D /\ x \in E /\ t[x].parent = m /\ lo[x] = lo[m] /\ hi[x] = at[m] - 1
          BY <1>2, <1>6, <4>3
        <5> HIDE DEF x
        <5>2. u[x].parent = m
          BY <1>9, <5>1
        <5>3. l[x] = l[m] /\ h[x] = a[m] - 1 /\ a[m] # l[m]
          BY <1>6, <2>1, <4>1, <4>3, <5>1
        <5>4. u[m].left = x
          BY <4>1 DEF x
        <5> QED
          BY <5>1, <5>2, <5>3, <5>4 DEF LeftOf, E
      <4> QED
        BY <4>2, <4>3
    <3> QED
      BY <3>1, <3>2
  <2>3. RightOf(u, a, l, h, m)
    <3>1. u[m].right = t[m].right
      BY <1>9
    <3>2. CASE at[m] = hi[m]
      <4>1. t[m].right = NULL /\ a[m] = h[m]
        BY <1>3, <1>6, <2>1, <3>2
      <4> QED
        BY <3>1, <4>1 DEF RightOf
    <3>3. CASE at[m] # hi[m]
      <4> DEFINE x == t[m].right
      <4>1. x \in D /\ x \in E /\ t[x].parent = m /\ lo[x] = at[m] + 1 /\ hi[x] = hi[m]
        BY <1>3, <1>6, <3>3
      <4> HIDE DEF x
      <4>2. u[x].parent = m
        BY <1>9, <4>1
      <4>4. l[x] = a[m] + 1 /\ h[x] = h[m] /\ a[m] # h[m]
        BY <1>6, <2>1, <3>3, <4>1
      <4>5. u[m].right = x
        BY <3>1 DEF x
      <4> QED
        BY <4>1, <4>2, <4>4, <4>5 DEF RightOf, E
    <3> QED
      BY <3>2, <3>3
  <2>4. ParentOf(u, rt, m)
    <3>1. u[m].parent = t[m].parent
      BY <1>9
    <3>2. CASE m = rt
      BY <1>4, <3>1, <3>2 DEF ParentOf
    <3>3. CASE m # rt
      <4> DEFINE x == t[m].parent
      <4>1. x \in D /\ x \in E /\ (t[x].left = m \/ t[x].right = m)
        BY <1>4, <1>6, <3>3
      <4>2. m # NULL
        BY <1>1
      <4> HIDE DEF x
      <4>3. u[x].left = m \/ u[x].right = m
        BY <1>2, <1>6, <1>7, <1>9, <4>1, <4>2
      <4> QED
        BY <3>1, <3>3, <4>1, <4>3 DEF ParentOf, E, x
    <3> QED
      BY <3>2, <3>3
  <2> QED
    BY <2>2, <2>3, <2>4
<1>11. LeftOf(u, a, l, h, n) /\ RightOf(u, a, l, h, n) /\ ParentOf(u, rt, n)
  <2>1. n # rt /\ p \in E /\ u[p].left = n
    BY <1>1, <1>5, <1>6, <1>9
  <2> QED
    BY <1>6, <1>9, <2>1 DEF LeftOf, RightOf, ParentOf, E
<1>12. RootIs(E, rt, N + 1, l, h)
  <2>1. rt \in D /\ lo[rt] = 1 /\ hi[rt] = N
    BY <1>1, <1>5, <1>6
  <2>2. rt \in E /\ l[rt] = 1 /\ h[rt] = N + 1 /\ N + 1 # 0
    BY <1>1, <1>6, <2>1
  <2> QED
    BY <2>2 DEF RootIs
<1>13. Shape(u, rt, N + 1, a, l, h)
  BY <1>6, <1>8, <1>10, <1>11, <1>12 DEF Shape, E
<1> QED
  BY <1>13 DEF a, l, h, k, E

\* Node n becomes the right child of p, which has none.
LEMMA ShapeWithRight ==
    ASSUME NEW t, NEW rt, NEW N, NEW at, NEW lo, NEW hi, Shape(t, rt, N, at, lo, hi),
           NEW n, n \notin DOMAIN t, n # NULL, NEW p \in DOMAIN t, t[p].right = NULL,
           NEW u, DOMAIN u = DOMAIN t \cup {n},
           u[n].left = NULL, u[n].right = NULL, u[n].parent = p,
           \A m \in DOMAIN t :
              /\ u[m].left = t[m].left
              /\ u[m].right = IF m = p THEN n ELSE t[m].right
              /\ u[m].parent = t[m].parent
    PROVE  LET k == at[p] + 1
               E == DOMAIN u
           IN  Shape(u, rt, N + 1, With(E, at, n, k, k), With(E, lo, n, k, k), With(E, hi, n, k, k - 1))
<1> DEFINE D == DOMAIN t
           k == at[p] + 1
           E == DOMAIN u
           a == With(E, at, n, k, k)
           l == With(E, lo, n, k, k)
           h == With(E, hi, n, k, k - 1)
<1>1. /\ N \in Nat /\ NULL \notin D
      /\ \A m \in D : /\ at[m] \in 1..N /\ lo[m] \in 1..N /\ hi[m] \in 1..N
                      /\ lo[m] <= at[m] /\ at[m] <= hi[m]
      /\ \A m, x \in D : at[m] = at[x] => m = x
  BY ShapeIs
<1>2. \A m \in D : /\ at[m] = lo[m] => t[m].left = NULL
                   /\ at[m] # lo[m] => /\ t[m].left \in D /\ t[t[m].left].parent = m
                                       /\ lo[t[m].left] = lo[m] /\ hi[t[m].left] = at[m] - 1
  BY ShapeIs
<1>3. \A m \in D : /\ at[m] = hi[m] => t[m].right = NULL
                   /\ at[m] # hi[m] => /\ t[m].right \in D /\ t[t[m].right].parent = m
                                       /\ lo[t[m].right] = at[m] + 1 /\ hi[t[m].right] = hi[m]
  BY ShapeIs
<1>4. \A m \in D : /\ m = rt => t[m].parent = NULL
                   /\ m # rt => /\ t[m].parent \in D
                                /\ t[t[m].parent].left = m \/ t[t[m].parent].right = m
  BY ShapeIs
<1>5. /\ N = 0 => rt = NULL
      /\ N # 0 => rt \in D /\ lo[rt] = 1 /\ hi[rt] = N
  BY ShapeIs
<1>6. /\ k \in 2..(N + 1) /\ E = D \cup {n} /\ p \in D /\ n \notin D
      /\ a[n] = k /\ l[n] = k /\ h[n] = k
      /\ \A m \in D : a[m] = IF at[m] >= k THEN at[m] + 1 ELSE at[m]
      /\ \A m \in D : l[m] = IF lo[m] >= k THEN lo[m] + 1 ELSE lo[m]
      /\ \A m \in D : h[m] = IF hi[m] >= k - 1 THEN hi[m] + 1 ELSE hi[m]
  BY <1>1 DEF With
<1>7. hi[p] = k - 1 /\ k - 1 = at[p] /\ k = at[p] + 1
  BY <1>1, <1>3
<1>8. Placed(E, N + 1, a, l, h)
  <2>1. k \in Int /\ k - 1 \in Int /\ hi[p] = at[p] /\ k = at[p] + 1
    BY <1>6, <1>7
  <2>2. Placed(D, N, at, lo, hi)
    BY DEF Shape
  <2>3. LET E0 == D \cup {n}
        IN  Placed(E0, N + 1, With(E0, at, n, k, k), With(E0, lo, n, k, k), With(E0, hi, n, k, k - 1))
    <3> HIDE DEF D, k
    <3> QED
      BY <1>6, <2>1, <2>2, PlacedWith
  <2>4. E = D \cup {n}
    OBVIOUS
  <2> HIDE DEF D, E, k
  <2> QED
    BY <2>3, <2>4
<1>9. /\ \A m \in D : /\ u[m].left = t[m].left
                      /\ u[m].right = IF m = p THEN n ELSE t[m].right
                      /\ u[m].parent = t[m].parent
      /\ u[n].left = NULL /\ u[n].right = NULL /\ u[n].parent = p
  OBVIOUS
<1> HIDE DEF a, l, h, k, E, D
<1>10. ASSUME NEW m \in D
       PROVE  LeftOf(u, a, l, h, m) /\ RightOf(u, a, l, h, m) /\ ParentOf(u, rt, m)
  <2>1. /\ m \in D /\ at[m] \in 1..N /\ lo[m] \in 1..N /\ hi[m] \in 1..N /\ lo[m] <= at[m]
        /\ at[m] <= hi[m] /\ m \in E /\ m # n
    BY <1>1, <1>6
  <2>2. RightOf(u, a, l, h, m)
    <3>1. CASE m = p
      <4>1. a[m] = k - 1 /\ h[m] = k /\ u[m].right = n
        BY <1>6, <1>7, <1>9, <2>1, <3>1
      <4>2. n \in E /\ u[n].parent = m /\ l[n] = a[m] + 1 /\ h[n] = h[m] /\ a[m] # h[m]
        BY <1>6, <1>9, <3>1, <4>1
      <4> QED
        BY <4>1, <4>2 DEF RightOf, E
    <3>2. CASE m # p
      <4>1. u[m].right = t[m].right /\ at[m] # k - 1
        BY <1>1, <1>6, <1>7, <1>9, <3>2
      <4>2. CASE at[m] = hi[m]
        <5>1. t[m].right = NULL /\ a[m] = h[m]
          BY <1>3, <1>6, <2>1, <4>1, <4>2
        <5> QED
          BY <4>1, <5>1 DEF RightOf
      <4>3. CASE at[m] # hi[m]
        <5> DEFINE x == t[m].right
        <5>1. x \in D /\ x \in E /\ t[x].parent = m /\ lo[x] = at[m] + 1 /\ hi[x] = hi[m]
          BY <1>3, <1>6, <4>3
        <5> HIDE DEF x
        <5>2. u[x].parent = m
          BY <1>9, <5>1
        <5>3. l[x] = a[m] + 1 /\ h[x] = h[m] /\ a[m] # h[m]
          BY <1>6, <2>1, <4>1, <4>3, <5>1
        <5>4. u[m].right = x
          BY <4>1 DEF x
        <5> QED
          BY <5>1, <5>2, <5>3, <5>4 DEF RightOf, E
      <4> QED
        BY <4>2, <4>3
    <3> QED
      BY <3>1, <3>2
  <2>3. LeftOf(u, a, l, h, m)
    <3>1. u[m].left = t[m].left
      BY <1>9
    <3>2. CASE at[m] = lo[m]
      <4>1. t[m].left = NULL /\ a[m] = l[m]
        BY <1>2, <1>6, <2>1, <3>2
      <4> QED
        BY <3>1, <4>1 DEF LeftOf
    <3>3. CASE at[m] # lo[m]
      <4> DEFINE x == t[m].left
      <4>1. x \in D /\ x \in E /\ t[x].parent = m /\ lo[x] = lo[m] /\ hi[x] = at[m] - 1
        BY <1>2, <1>6, <3>3
      <4> HIDE DEF x
      <4>2. u[x].parent = m
        BY <1>9, <4>1
      <4>4. l[x] = l[m] /\ h[x] = a[m] - 1 /\ a[m] # l[m]
        BY <1>6, <2>1, <3>3, <4>1
      <4>5. u[m].left = x
        BY <3>1 DEF x
      <4> QED
        BY <4>1, <4>2, <4>4, <4>5 DEF LeftOf, E
    <3> QED
      BY <3>2, <3>3
  <2>4. ParentOf(u, rt, m)
    <3>1. u[m].parent = t[m].parent
      BY <1>9
    <3>2. CASE m = rt
      BY <1>4, <3>1, <3>2 DEF ParentOf
    <3>3. CASE m # rt
      <4> DEFINE x == t[m].parent
      <4>1. x \in D /\ x \in E /\ (t[x].left = m \/ t[x].right = m)
        BY <1>4, <1>6, <3>3
      <4>2. m # NULL
        BY <1>1
      <4> HIDE DEF x
      <4>3. u[x].left = m \/ u[x].right = m
        BY <1>3, <1>6, <1>7, <1>9, <4>1, <4>2
      <4> QED
        BY <3>1, <3>3, <4>1, <4>3 DEF ParentOf, E, x
    <3> QED
      BY <3>2, <3>3
  <2> QED
    BY <2>2, <2>3, <2>4
<1>11. LeftOf(u, a, l, h, n) /\ RightOf(u, a, l, h, n) /\ ParentOf(u, rt, n)
  <2>1. n # rt /\ p \in E /\ u[p].right = n
    BY <1>1, <1>5, <1>6, <1>9
  <2> QED
    BY <1>6, <1>9, <2>1 DEF LeftOf, RightOf, ParentOf, E
<1>12. RootIs(E, rt, N + 1, l, h)
  <2>1. rt \in D /\ lo[rt] = 1 /\ hi[rt] = N
    BY <1>1, <1>5, <1>6
  <2>2. rt \in E /\ l[rt] = 1 /\ h[rt] = N + 1 /\ N + 1 # 0
    BY <1>1, <1>6, <2>1
  <2> QED
    BY <2>2 DEF RootIs
<1>13. Shape(u, rt, N + 1, a, l, h)
  BY <1>6, <1>8, <1>10, <1>11, <1>12 DEF Shape, E
<1> QED
  BY <1>13 DEF a, l, h, k, E

\* A tree of one node
LEMMA ShapeOfOne ==
    ASSUME NEW n, n # NULL, NEW u, DOMAIN u = {n},
           u[n].left = NULL, u[n].right = NULL, u[n].parent = NULL
    PROVE  Shape(u, n, 1, [m \in {n} |-> 1], [m \in {n} |-> 1], [m \in {n} |-> 1])
<1> DEFINE f == [m \in {n} |-> 1]
<1>1. f[n] = 1 /\ f \in [{n} -> 1..1]
  OBVIOUS
<1> HIDE DEF f
<1>2. Placed({n}, 1, f, f, f)
  BY <1>1 DEF Placed
<1>3. RootIs({n}, n, 1, f, f)
  BY <1>1 DEF RootIs
<1>4. LeftOf(u, f, f, f, n) /\ RightOf(u, f, f, f, n) /\ ParentOf(u, n, n)
  BY <1>1 DEF LeftOf, RightOf, ParentOf
<1>5. Shape(u, n, 1, f, f, f)
  BY <1>2, <1>3, <1>4 DEF Shape
<1> QED
  BY <1>5 DEF f

LEMMA ShapeOfNone ==
    ASSUME NEW u, DOMAIN u = {}, NEW f, f = [m \in {} |-> 1]
    PROVE  Shape(u, NULL, 0, f, f, f)
  BY DEF Shape, Placed, RootIs

-----------------------------------------------------------------------------
(* Node s takes the place of n.                                            *)
Replaced(x, n, s) == IF x = n THEN s ELSE x
InPlace(D, f, n, s) == [m \in D |-> f[IF m = s THEN n ELSE m]]

LEMMA ShapeReplaced ==
    ASSUME NEW t, NEW rt, NEW N, NEW at, NEW lo, NEW hi, Shape(t, rt, N, at, lo, hi),
           NEW n \in DOMAIN t, NEW s, s \notin DOMAIN t, s # NULL,
           NEW u, DOMAIN u = (DOMAIN t \ {n}) \cup {s},
           \A m \in DOMAIN u :
              LET o == IF m = s THEN n ELSE m
              IN  /\ u[m].left = Replaced(t[o].left, n, s)
                  /\ u[m].right = Replaced(t[o].right, n, s)
                  /\ u[m].parent = Replaced(t[o].parent, n, s)
    PROVE  LET E == DOMAIN u
           IN  Shape(u, Replaced(rt, n, s), N, InPlace(E, at, n, s), InPlace(E, lo, n, s), InPlace(E, hi, n, s))
<1> DEFINE D == DOMAIN t
           E == DOMAIN u
           o(m) == IF m = s THEN n ELSE m
           b(m) == IF m = n THEN s ELSE m
           a == InPlace(E, at, n, s)
           l == InPlace(E, lo, n, s)
           h == InPlace(E, hi, n, s)
<1>1. /\ NULL \notin D /\ s \notin D /\ s # NULL /\ n \in D /\ NULL \notin E
      /\ \A m \in E : o(m) \in D /\ b(o(m)) = m
      /\ \A m \in D : b(m) \in E /\ o(b(m)) = m
      /\ b(NULL) = NULL
      /\ \A m \in E : a[m] = at[o(m)] /\ l[m] = lo[o(m)] /\ h[m] = hi[o(m)]
      /\ DOMAIN a = E /\ DOMAIN l = E /\ DOMAIN h = E
      /\ a = [m \in E |-> a[m]] /\ l = [m \in E |-> l[m]] /\ h = [m \in E |-> h[m]]
  BY ShapeIs DEF InPlace
<1>2. \A m \in E : /\ u[m].left = b(t[o(m)].left)
                   /\ u[m].right = b(t[o(m)].right)
                   /\ u[m].parent = b(t[o(m)].parent)
  BY DEF Replaced
<1>3. Replaced(rt, n, s) = b(rt)
  BY DEF Replaced
<1>4. /\ N \in Nat
      /\ \A m \in D : at[m] \in 1..N /\ lo[m] \in 1..N /\ hi[m] \in 1..N
      /\ \A i \in 1..N : \E m \in D : at[m] = i
      /\ \A m, x \in D : at[m] = at[x] => m = x
      /\ \A m \in D : lo[m] <= at[m] /\ at[m] <= hi[m]
      /\ \A m, x \in D : lo[m] <= at[x] /\ at[x] <= hi[m] => lo[m] <= lo[x] /\ hi[x] <= hi[m]
  BY ShapeIs
<1>5. RootIs(D, rt, N, lo, hi)
  BY DEF Shape
<1>6. \A m \in D : LeftOf(t, at, lo, hi, m) /\ RightOf(t, at, lo, hi, m) /\ ParentOf(t, rt, m)
  BY DEF Shape
<1> HIDE DEF a, l, h, E, o, b
<1>7. Placed(E, N, a, l, h)
  <2>1. NULL \notin E
    BY <1>1
  <2>2. a \in [E -> 1..N] /\ l \in [E -> 1..N] /\ h \in [E -> 1..N]
    BY <1>1, <1>4
  <2>3. \A i \in 1..N : \E m \in E : a[m] = i
    BY <1>1, <1>4
  <2>4. \A m, x \in E : a[m] = a[x] => m = x
    BY <1>1, <1>4
  <2>5. \A m \in E : l[m] <= a[m] /\ a[m] <= h[m]
    BY <1>1, <1>4
  <2>6. \A m, x \in E : l[m] <= a[x] /\ a[x] <= h[m] => l[m] <= l[x] /\ h[x] <= h[m]
    BY <1>1, <1>4
  <2> QED
    BY <1>4, <2>1, <2>2, <2>3, <2>4, <2>5, <2>6 DEF Placed
<1>8. RootIs(E, b(rt), N, l, h)
  <2>1. CASE N = 0
    BY <1>1, <1>5, <2>1 DEF RootIs
  <2>2. CASE N # 0
    <3>1. rt \in D /\ lo[rt] = 1 /\ hi[rt] = N
      BY <1>5, <2>2 DEF RootIs
    <3>2. b(rt) \in E /\ l[b(rt)] = 1 /\ h[b(rt)] = N
      BY <1>1, <3>1
    <3> QED
      BY <2>2, <3>2 DEF RootIs
  <2> QED
    BY <2>1, <2>2
<1>9. ASSUME NEW m \in E
      PROVE  LeftOf(u, a, l, h, m) /\ RightOf(u, a, l, h, m) /\ ParentOf(u, b(rt), m)
  <2> DEFINE x == o(m)
  <2>1. x \in D /\ b(x) = m /\ a[m] = at[x] /\ l[m] = lo[x] /\ h[m] = hi[x]
    BY <1>1
  <2>2. /\ u[m].left = b(t[x].left) /\ u[m].right = b(t[x].right) /\ u[m].parent = b(t[x].parent)
    BY <1>2
  <2>3. \A y \in D : /\ b(y) \in E /\ a[b(y)] = at[y] /\ l[b(y)] = lo[y] /\ h[b(y)] = hi[y]
                     /\ u[b(y)].left = b(t[y].left) /\ u[b(y)].right = b(t[y].right)
                     /\ u[b(y)].parent = b(t[y].parent)
    BY <1>1, <1>2
  <2> HIDE DEF x
  <2>4. LeftOf(u, a, l, h, m)
    <3>1. LeftOf(t, at, lo, hi, x)
      BY <1>6, <2>1
    <3>2. CASE at[x] = lo[x]
      BY <1>1, <2>1, <2>2, <3>1, <3>2 DEF LeftOf
    <3>3. CASE at[x] # lo[x]
      <4> DEFINE y == t[x].left
      <4>1. y \in D /\ t[y].parent = x /\ lo[y] = lo[x] /\ hi[y] = at[x] - 1
        BY <3>1, <3>3 DEF LeftOf
      <4>2. u[m].left = b(y)
        BY <2>2
      <4> HIDE DEF y
      <4>3. b(y) \in E /\ u[b(y)].parent = m /\ l[b(y)] = l[m] /\ h[b(y)] = a[m] - 1
        BY <2>1, <2>3, <4>1
      <4> QED
        BY <2>1, <3>3, <4>2, <4>3 DEF LeftOf, E
    <3> QED
      BY <3>2, <3>3
  <2>5. RightOf(u, a, l, h, m)
    <3>1. RightOf(t, at, lo, hi, x)
      BY <1>6, <2>1
    <3>2. CASE at[x] = hi[x]
      BY <1>1, <2>1, <2>2, <3>1, <3>2 DEF RightOf
    <3>3. CASE at[x] # hi[x]
      <4> DEFINE y == t[x].right
      <4>1. y \in D /\ t[y].parent = x /\ lo[y] = at[x] + 1 /\ hi[y] = hi[x]
        BY <3>1, <3>3 DEF RightOf
      <4>2. u[m].right = b(y)
        BY <2>2
      <4> HIDE DEF y
      <4>3. b(y) \in E /\ u[b(y)].parent = m /\ l[b(y)] = a[m] + 1 /\ h[b(y)] = h[m]
        BY <2>1, <2>3, <4>1
      <4> QED
        BY <2>1, <3>3, <4>2, <4>3 DEF RightOf, E
    <3> QED
      BY <3>2, <3>3
  <2>6. ParentOf(u, b(rt), m)
    <3>1. ParentOf(t, rt, x)
      BY <1>6, <2>1
    <3>2. CASE x = rt
      BY <1>1, <2>1, <2>2, <3>1, <3>2 DEF ParentOf
    <3>3. CASE x # rt
      <4> DEFINE y == t[x].parent
      <4>1. y \in D /\ (t[y].left = x \/ t[y].right = x)
        BY <3>1, <3>3 DEF ParentOf
      <4>2. u[m].parent = b(y)
        BY <2>2
      <4> HIDE DEF y
      <4>3. b(y) \in E /\ (u[b(y)].left = m \/ u[b(y)].right = m)
        BY <2>1, <2>3, <4>1
      <4>4. m # b(rt)
        <5>1. rt = NULL \/ rt \in D
          BY <1>5 DEF RootIs
        <5>2. CASE rt = NULL
          BY <1>1, <5>2
        <5>3. CASE rt \in D
          <6>1. o(b(rt)) = rt /\ o(b(x)) = x
            BY <1>1, <2>1, <5>3
          <6> QED
            BY <2>1, <3>3, <6>1
        <5> QED
          BY <5>1, <5>2, <5>3
      <4> QED
        BY <4>2, <4>3, <4>4 DEF ParentOf, E
    <3> QED
      BY <3>2, <3>3
  <2> QED
    BY <2>4, <2>5, <2>6
<1>10. Shape(u, b(rt), N, a, l, h)
  BY <1>7, <1>8, <1>9 DEF Shape, E
<1> QED
  BY <1>3, <1>10 DEF a, l, h, E

-----------------------------------------------------------------------------
(* Loops along a chain of pointers                                         *)

\* f is what a loop returns that goes on to next until it stops with val
IsWalk(f, S, stop, val, next) == f = [n \in S |-> IF n \in stop THEN val[n] ELSE f[next[n]]]

\* The loop comes to an end.
Descends(S, stop, next, rank, N) ==
    /\ N \in Nat
    /\ \A n \in S : rank[n] \in 0..N
    /\ \A n \in S : n \notin stop => next[n] \in S /\ rank[next[n]] < rank[n]

\* What is true of the end is true of what leads there.
PassesOn(S, stop, next, Good) == \A n \in S : n \in stop \/ next[n] \in Good => n \in Good

LEMMA WalkExists ==
    ASSUME NEW S, NEW stop, NEW val, NEW next, NEW rank, NEW N, Descends(S, stop, next, rank, N)
    PROVE  \E f : IsWalk(f, S, stop, val, next)
<1> USE DEF Descends
<1> DEFINE Step(f) == [n \in S |-> IF n \in stop THEN val[n] ELSE f[next[n]]]
           UpTo(f, k) == \A n \in S : rank[n] <= k => f[n] = Step(f)[n]
           Bad == {k \in 0..N : ~ \E f : UpTo(f, k)}
<1>1. ASSUME NEW k \in Int, NEW f, \A n \in S : rank[n] <= k - 1 => f[n] = Step(f)[n]
      PROVE  UpTo(Step(f), k)
  <2>1. ASSUME NEW n \in S, rank[n] <= k
        PROVE  Step(f)[n] = Step(Step(f))[n]
    <3>1. CASE n \in stop
      BY <3>1
    <3>2. CASE n \notin stop
      <4>1. next[n] \in S /\ rank[next[n]] <= k - 1
        BY <2>1, <3>2
      <4>2. f[next[n]] = Step(f)[next[n]]
        BY <1>1, <4>1
      <4> QED
        BY <3>2, <4>2
    <3> QED
      BY <3>1, <3>2
  <2> QED
    BY <2>1
<1>2. Bad = {}
  <2> SUFFICES ASSUME Bad # {}
               PROVE  FALSE
    OBVIOUS
  <2>1. Bad \in SUBSET Nat
    OBVIOUS
  <2>2. PICK k \in Bad : \A j \in Bad : k <= j
    BY <2>1, LeastNatural
  <2>3. k \in 0..N /\ ~ \E f : UpTo(f, k)
    OBVIOUS
  <2>4. CASE k = 0
    <3>1. \A n \in S : rank[n] <= 0 - 1 => val[n] = Step(val)[n]
      OBVIOUS
    <3>2. UpTo(Step(val), 0)
      <4> HIDE DEF UpTo, Step
      <4> QED
        BY <1>1, <3>1
    <3> QED
      BY <2>3, <2>4, <3>2
  <2>5. CASE k # 0
    <3>1. k - 1 \in 0..N /\ k - 1 \notin Bad
      BY <2>2, <2>3, <2>5
    <3>2. PICK f : UpTo(f, k - 1)
      BY <3>1
    <3>3. UpTo(Step(f), k)
      BY <1>1, <2>3, <3>2
    <3> QED
      BY <2>3, <3>3
  <2> QED
    BY <2>4, <2>5
<1>3. PICK f : UpTo(f, N)
  <2>1. N \in 0..N
    OBVIOUS
  <2> HIDE DEF UpTo
  <2> QED
    BY <1>2, <2>1
<1>4. \A n \in S : f[n] = Step(f)[n]
  BY <1>3
<1>5. Step(f) = Step(Step(f))
  BY <1>4
<1> QED
  BY <1>5 DEF IsWalk

LEMMA WalkInduction ==
    ASSUME NEW S, NEW stop, NEW next, NEW rank, NEW N, Descends(S, stop, next, rank, N),
           NEW Good, PassesOn(S, stop, next, Good)
    PROVE  \A n \in S : n \in Good
<1> USE DEF Descends, PassesOn
<1> SUFFICES ASSUME NEW n \in S, n \notin Good
             PROVE  FALSE
  OBVIOUS
<1> DEFINE T == {rank[m] : m \in S \ Good}
<1>1. T \in SUBSET Nat /\ T # {}
  OBVIOUS
<1>2. PICK k \in T : \A j \in T : k <= j
  BY <1>1, LeastNatural
<1>3. PICK m \in S \ Good : k = rank[m]
  BY <1>2
<1>4. m \notin stop /\ next[m] \in S \ Good /\ rank[next[m]] < rank[m]
  BY <1>3
<1>5. rank[next[m]] \in T /\ rank[next[m]] \in 0..N /\ rank[m] \in 0..N
  BY <1>3, <1>4
<1>6. k <= rank[next[m]]
  BY <1>2, <1>5
<1> QED
  BY <1>3, <1>4, <1>5, <1>6

-----------------------------------------------------------------------------
(* Where the loops of the tree end                                         *)

LEMMA LeftEndIs ==
    ASSUME NEW N, NEW at, NEW lo, NEW hi, Shape(tree, root, N, at, lo, hi), NEW n \in Linked
    PROVE  LeftEnd(n) \in Linked /\ at[LeftEnd(n)] = lo[n]
<1> DEFINE D == Linked
           stop == {m \in D : tree[m].left = NULL}
           val == [m \in D |-> m]
           next == [m \in D |-> tree[m].left]
           rank == [m \in D |-> hi[m] - lo[m]]
<1>1. /\ N \in Nat /\ NULL \notin D
      /\ \A m \in D : /\ at[m] \in 1..N /\ lo[m] \in 1..N /\ hi[m] \in 1..N
                      /\ lo[m] <= at[m] /\ at[m] <= hi[m]
      /\ \A m \in D : /\ at[m] = lo[m] => tree[m].left = NULL
                      /\ at[m] # lo[m] => /\ tree[m].left \in D
                                          /\ lo[tree[m].left] = lo[m] /\ hi[tree[m].left] = at[m] - 1
  BY ShapeIs DEF Linked
<1>2. Descends(D, stop, next, rank, N)
  BY <1>1 DEF Descends
<1>4. \A m \in D : m \in stop <=> tree[m].left = NULL
  OBVIOUS
<1>5. \A m \in D : val[m] = m /\ next[m] = tree[m].left
  OBVIOUS
<1> HIDE DEF stop, val, next, rank
<1>6. \E f : IsWalk(f, D, stop, val, next)
  BY <1>2, WalkExists
<1>7. \E f : f = [m \in D |-> IF tree[m].left = NULL THEN m ELSE f[tree[m].left]]
  BY <1>4, <1>5, <1>6 DEF IsWalk
<1> DEFINE f == CHOOSE f : f = [m \in D |-> IF tree[m].left = NULL THEN m ELSE f[tree[m].left]]
<1>8. f = [m \in D |-> IF tree[m].left = NULL THEN m ELSE f[tree[m].left]]
  BY <1>7
<1>9. LeftEnd(n) = f[n]
  BY DEF LeftEnd
<1> HIDE DEF f
<1> DEFINE Good == {m \in D : f[m] \in D /\ at[f[m]] = lo[m]}
<1>10. ASSUME NEW m \in D, m \in stop \/ next[m] \in Good
       PROVE  m \in Good
  <2>1. CASE m \in stop
    BY <1>1, <1>4, <1>8, <2>1
  <2>2. CASE m \notin stop
    <3>1. f[m] = f[next[m]] /\ next[m] \in Good
      BY <1>4, <1>5, <1>8, <1>10, <2>2
    <3>2. lo[next[m]] = lo[m]
      BY <1>1, <1>4, <1>5, <2>2
    <3> QED
      BY <3>1, <3>2
  <2> QED
    BY <2>1, <2>2
<1> HIDE DEF Good
<1>11. PassesOn(D, stop, next, Good)
  BY <1>10 DEF PassesOn
<1>12. \A m \in D : m \in Good
  BY <1>2, <1>11, WalkInduction
<1> QED
  BY <1>9, <1>12 DEF Good

\* What the parent of a node says about it
LEMMA ParentIs ==
    ASSUME NEW t, NEW rt, NEW N, NEW at, NEW lo, NEW hi, Shape(t, rt, N, at, lo, hi), NEW m \in DOMAIN t
    PROVE  LET p == t[m].parent
               D == DOMAIN t
           IN  \/ p = NULL /\ m = rt /\ lo[m] = 1 /\ hi[m] = N
               \/ p \in D /\ m # rt /\ t[p].left = m /\ t[p].right # m /\ lo[m] = lo[p] /\ hi[m] = at[p] - 1
               \/ p \in D /\ m # rt /\ t[p].left # m /\ t[p].right = m /\ lo[m] = at[p] + 1 /\ hi[m] = hi[p]
<1> DEFINE D == DOMAIN t
           p == t[m].parent
<1>1. /\ N \in Nat /\ NULL \notin D /\ m \in D
      /\ \A n \in D : /\ at[n] \in 1..N /\ lo[n] \in 1..N /\ hi[n] \in 1..N
                      /\ lo[n] <= at[n] /\ at[n] <= hi[n]
  BY ShapeIs
<1>2. \A n \in D : /\ at[n] = lo[n] => t[n].left = NULL
                   /\ at[n] # lo[n] => /\ t[n].left \in D
                                       /\ lo[t[n].left] = lo[n] /\ hi[t[n].left] = at[n] - 1
  BY ShapeIs
<1>3. \A n \in D : /\ at[n] = hi[n] => t[n].right = NULL
                   /\ at[n] # hi[n] => /\ t[n].right \in D
                                       /\ lo[t[n].right] = at[n] + 1 /\ hi[t[n].right] = hi[n]
  BY ShapeIs
<1>4. /\ m = rt => p = NULL
      /\ m # rt => p \in D /\ (t[p].left = m \/ t[p].right = m)
  BY ShapeIs
<1>5. N # 0 => rt \in D /\ lo[rt] = 1 /\ hi[rt] = N
  BY ShapeIs
<1> HIDE DEF D, p
<1>6. CASE m = rt
  BY <1>1, <1>4, <1>5, <1>6 DEF D, p
<1>7. CASE m # rt
  <2>1. p \in D /\ (t[p].left = m \/ t[p].right = m) /\ m # NULL
    BY <1>1, <1>4, <1>7
  <2>2. t[p].left = m => lo[m] = lo[p] /\ hi[m] = at[p] - 1
    BY <1>2, <2>1
  <2>3. t[p].right = m => lo[m] = at[p] + 1 /\ hi[m] = hi[p]
    BY <1>3, <2>1
  <2>4. ~(t[p].left = m /\ t[p].right = m)
    BY <1>1, <2>1, <2>2, <2>3
  <2> QED
    BY <1>7, <2>1, <2>2, <2>3, <2>4 DEF D, p
<1> QED
  BY <1>6, <1>7

LEMMA RightEndIs ==
    ASSUME NEW N, NEW at, NEW lo, NEW hi, Shape(tree, root, N, at, lo, hi), NEW n \in Linked
    PROVE  RightEnd(n) \in Linked /\ at[RightEnd(n)] = hi[n]
<1> DEFINE D == Linked
           stop == {m \in D : tree[m].right = NULL}
           val == [m \in D |-> m]
           next == [m \in D |-> tree[m].right]
           rank == [m \in D |-> hi[m] - lo[m]]
<1>1. /\ N \in Nat /\ NULL \notin D
      /\ \A m \in D : /\ at[m] \in 1..N /\ lo[m] \in 1..N /\ hi[m] \in 1..N
                      /\ lo[m] <= at[m] /\ at[m] <= hi[m]
      /\ \A m \in D : /\ at[m] = hi[m] => tree[m].right = NULL
                      /\ at[m] # hi[m] => /\ tree[m].right \in D
                                          /\ lo[tree[m].right] = at[m] + 1 /\ hi[tree[m].right] = hi[m]
  BY ShapeIs DEF Linked
<1>2. Descends(D, stop, next, rank, N)
  BY <1>1 DEF Descends
<1>4. \A m \in D : m \in stop <=> tree[m].right = NULL
  OBVIOUS
<1>5. \A m \in D : val[m] = m /\ next[m] = tree[m].right
  OBVIOUS
<1> HIDE DEF stop, val, next, rank
<1>6. \E f : IsWalk(f, D, stop, val, next)
  BY <1>2, WalkExists
<1>7. \E f : f = [m \in D |-> IF tree[m].right = NULL THEN m ELSE f[tree[m].right]]
  BY <1>4, <1>5, <1>6 DEF IsWalk
<1> DEFINE f == CHOOSE f : f = [m \in D |-> IF tree[m].right = NULL THEN m ELSE f[tree[m].right]]
<1>8. f = [m \in D |-> IF tree[m].right = NULL THEN m ELSE f[tree[m].right]]
  BY <1>7
<1>9. RightEnd(n) = f[n]
  BY DEF RightEnd
<1> HIDE DEF f
<1> DEFINE Good == {m \in D : f[m] \in D /\ at[f[m]] = hi[m]}
<1>10. ASSUME NEW m \in D, m \in stop \/ next[m] \in Good
       PROVE  m \in Good
  <2>1. CASE m \in stop
    BY <1>1, <1>4, <1>8, <2>1
  <2>2. CASE m \notin stop
    <3>1. f[m] = f[next[m]] /\ next[m] \in Good
      BY <1>4, <1>5, <1>8, <1>10, <2>2
    <3>2. hi[next[m]] = hi[m]
      BY <1>1, <1>4, <1>5, <2>2
    <3> QED
      BY <3>1, <3>2
  <2> QED
    BY <2>1, <2>2
<1> HIDE DEF Good
<1>11. PassesOn(D, stop, next, Good)
  BY <1>10 DEF PassesOn
<1>12. \A m \in D : m \in Good
  BY <1>2, <1>11, WalkInduction
<1> QED
  BY <1>9, <1>12 DEF Good

\* next() goes to the next position, and from the last one to NULL.
LEMMA NextIs ==
    ASSUME NEW N, NEW at, NEW lo, NEW hi, Shape(tree, root, N, at, lo, hi), NEW n \in Linked
    PROVE  IF at[n] = N THEN NextNode(n) = NULL
           ELSE NextNode(n) \in Linked /\ at[NextNode(n)] = at[n] + 1
<1> DEFINE D == Linked
           p(m) == tree[m].parent
           stop == {m \in D : ~(p(m) # NULL /\ tree[p(m)].right = m)}
           val == [m \in D |-> p(m)]
           next == [m \in D |-> p(m)]
           rank == [m \in D |-> N - (hi[m] - lo[m])]
<1>1. /\ N \in Nat /\ NULL \notin D /\ n \in D
      /\ \A m \in D : /\ at[m] \in 1..N /\ lo[m] \in 1..N /\ hi[m] \in 1..N
                      /\ lo[m] <= at[m] /\ at[m] <= hi[m]
      /\ \A m \in D : /\ at[m] = hi[m] => tree[m].right = NULL
                      /\ at[m] # hi[m] => /\ tree[m].right \in D
                                          /\ lo[tree[m].right] = at[m] + 1 /\ hi[tree[m].right] = hi[m]
  BY ShapeIs DEF Linked
<1>2. \A m \in D :
         \/ p(m) = NULL /\ lo[m] = 1 /\ hi[m] = N
         \/ p(m) \in D /\ p(m) # NULL /\ tree[p(m)].right # m /\ lo[m] = lo[p(m)] /\ hi[m] = at[p(m)] - 1
         \/ p(m) \in D /\ p(m) # NULL /\ tree[p(m)].right = m /\ lo[m] = at[p(m)] + 1 /\ hi[m] = hi[p(m)]
  BY <1>1, ParentIs DEF Linked
<1>3. \A m \in D : m \in stop <=> ~(p(m) # NULL /\ tree[p(m)].right = m)
  OBVIOUS
<1>4. \A m \in D : val[m] = p(m) /\ next[m] = p(m) /\ rank[m] = N - (hi[m] - lo[m])
  OBVIOUS
<1> HIDE DEF stop, val, next, rank, p
<1>5. Descends(D, stop, next, rank, N)
  BY <1>1, <1>2, <1>3, <1>4 DEF Descends
<1>6. \E f : IsWalk(f, D, stop, val, next)
  BY <1>5, WalkExists
<1>7. \E f : f = [m \in D |-> IF p(m) # NULL /\ tree[p(m)].right = m THEN f[p(m)] ELSE p(m)]
  BY <1>3, <1>4, <1>6 DEF IsWalk
<1> DEFINE f == CHOOSE f : f = [m \in D |-> IF p(m) # NULL /\ tree[p(m)].right = m THEN f[p(m)] ELSE p(m)]
<1>8. f = [m \in D |-> IF p(m) # NULL /\ tree[p(m)].right = m THEN f[p(m)] ELSE p(m)]
  BY <1>7
<1>9. NextNode(n) = IF tree[n].right # NULL THEN LeftEnd(tree[n].right) ELSE f[n]
  BY DEF NextNode, p
<1> HIDE DEF f
<1> DEFINE Good == {m \in D : IF hi[m] = N THEN f[m] = NULL ELSE f[m] \in D /\ at[f[m]] = hi[m] + 1}
<1>10. ASSUME NEW m \in D, m \in stop \/ next[m] \in Good
       PROVE  m \in Good
  <2>1. CASE m \in stop
    <3>1. f[m] = p(m)
      BY <1>3, <1>8, <2>1
    <3> QED
      BY <1>1, <1>2, <1>3, <2>1, <3>1
  <2>2. CASE m \notin stop
    <3>1. f[m] = f[p(m)] /\ p(m) \in Good
      BY <1>3, <1>4, <1>8, <1>10, <2>2
    <3>2. hi[p(m)] = hi[m]
      BY <1>2, <1>3, <2>2
    <3> QED
      BY <3>1, <3>2
  <2> QED
    BY <2>1, <2>2
<1> HIDE DEF Good
<1>11. PassesOn(D, stop, next, Good)
  BY <1>10 DEF PassesOn
<1>12. \A m \in D : m \in Good
  BY <1>5, <1>11, WalkInduction
<1>13. CASE at[n] = hi[n]
  BY <1>1, <1>9, <1>12, <1>13 DEF Good
<1>14. CASE at[n] # hi[n]
  <2>1. tree[n].right \in D /\ tree[n].right # NULL /\ lo[tree[n].right] = at[n] + 1 /\ at[n] # N
    BY <1>1, <1>14
  <2>2. LeftEnd(tree[n].right) \in D /\ at[LeftEnd(tree[n].right)] = lo[tree[n].right]
    BY <2>1, LeftEndIs
  <2> QED
    BY <1>9, <2>1, <2>2
<1> QED
  BY <1>13, <1>14

LEMMA PrevIs ==
    ASSUME NEW N, NEW at, NEW lo, NEW hi, Shape(tree, root, N, at, lo, hi), NEW n \in Linked
    PROVE  IF at[n] = 1 THEN PrevNode(n) = NULL
           ELSE PrevNode(n) \in Linked /\ at[PrevNode(n)] = at[n] - 1
<1> DEFINE D == Linked
           p(m) == tree[m].parent
           stop == {m \in D : ~(p(m) # NULL /\ tree[p(m)].left = m)}
           val == [m \in D |-> p(m)]
           next == [m \in D |-> p(m)]
           rank == [m \in D |-> N - (hi[m] - lo[m])]
<1>1. /\ N \in Nat /\ NULL \notin D /\ n \in D
      /\ \A m \in D : /\ at[m] \in 1..N /\ lo[m] \in 1..N /\ hi[m] \in 1..N
                      /\ lo[m] <= at[m] /\ at[m] <= hi[m]
      /\ \A m \in D : /\ at[m] = lo[m] => tree[m].left = NULL
                      /\ at[m] # lo[m] => /\ tree[m].left \in D
                                          /\ lo[tree[m].left] = lo[m] /\ hi[tree[m].left] = at[m] - 1
  BY ShapeIs DEF Linked
<1>2. \A m \in D :
         \/ p(m) = NULL /\ lo[m] = 1 /\ hi[m] = N
         \/ p(m) \in D /\ p(m) # NULL /\ tree[p(m)].left = m /\ lo[m] = lo[p(m)] /\ hi[m] = at[p(m)] - 1
         \/ p(m) \in D /\ p(m) # NULL /\ tree[p(m)].left # m /\ lo[m] = at[p(m)] + 1 /\ hi[m] = hi[p(m)]
  BY <1>1, ParentIs DEF Linked
<1>3. \A m \in D : m \in stop <=> ~(p(m) # NULL /\ tree[p(m)].left = m)
  OBVIOUS
<1>4. \A m \in D : val[m] = p(m) /\ next[m] = p(m) /\ rank[m] = N - (hi[m] - lo[m])
  OBVIOUS
<1> HIDE DEF stop, val, next, rank, p
<1>5. Descends(D, stop, next, rank, N)
  BY <1>1, <1>2, <1>3, <1>4 DEF Descends
<1>6. \E f : IsWalk(f, D, stop, val, next)
  BY <1>5, WalkExists
<1>7. \E f : f = [m \in D |-> IF p(m) # NULL /\ tree[p(m)].left = m THEN f[p(m)] ELSE p(m)]
  BY <1>3, <1>4, <1>6 DEF IsWalk
<1> DEFINE f == CHOOSE f : f = [m \in D |-> IF p(m) # NULL /\ tree[p(m)].left = m THEN f[p(m)] ELSE p(m)]
<1>8. f = [m \in D |-> IF p(m) # NULL /\ tree[p(m)].left = m THEN f[p(m)] ELSE p(m)]
  BY <1>7
<1>9. PrevNode(n) = IF tree[n].left # NULL THEN RightEnd(tree[n].left) ELSE f[n]
  BY DEF PrevNode, p
<1> HIDE DEF f
<1> DEFINE Good == {m \in D : IF lo[m] = 1 THEN f[m] = NULL ELSE f[m] \in D /\ at[f[m]] = lo[m] - 1}
<1>10. ASSUME NEW m \in D, m \in stop \/ next[m] \in Good
       PROVE  m \in Good
  <2>1. CASE m \in stop
    <3>1. f[m] = p(m)
      BY <1>3, <1>8, <2>1
    <3> QED
      BY <1>1, <1>2, <1>3, <2>1, <3>1
  <2>2. CASE m \notin stop
    <3>1. f[m] = f[p(m)] /\ p(m) \in Good
      BY <1>3, <1>4, <1>8, <1>10, <2>2
    <3>2. lo[p(m)] = lo[m]
      BY <1>2, <1>3, <2>2
    <3> QED
      BY <3>1, <3>2
  <2> QED
    BY <2>1, <2>2
<1> HIDE DEF Good
<1>11. PassesOn(D, stop, next, Good)
  BY <1>10 DEF PassesOn
<1>12. \A m \in D : m \in Good
  BY <1>5, <1>11, WalkInduction
<1>13. CASE at[n] = lo[n]
  BY <1>1, <1>9, <1>12, <1>13 DEF Good
<1>14. CASE at[n] # lo[n]
  <2>1. tree[n].left \in D /\ tree[n].left # NULL /\ hi[tree[n].left] = at[n] - 1 /\ at[n] # 1
    BY <1>1, <1>14
  <2>2. RightEnd(tree[n].left) \in D /\ at[RightEnd(tree[n].left)] = hi[tree[n].left]
    BY <2>1, RightEndIs
  <2> QED
    BY <1>9, <2>1, <2>2
<1> QED
  BY <1>13, <1>14

-----------------------------------------------------------------------------
(* Keys                                                                    *)

KeysInOrder(D, at) ==
    /\ D \subseteq Node
    /\ \A m, n \in D : at[m] < at[n] => KeyOf[m] <= KeyOf[n]

\* The branch that can have the key
Toward(key, m) == IF key < KeyOf[m] THEN tree[m].left ELSE tree[m].right

LEMMA TowardIs ==
    ASSUME NEW N, NEW at, NEW lo, NEW hi, Shape(tree, root, N, at, lo, hi), NEW key, NEW m \in Linked
    PROVE  LET c == Toward(key, m)
           IN  \/ c = NULL /\ IF key < KeyOf[m] THEN at[m] = lo[m] ELSE at[m] = hi[m]
               \/ /\ c \in Linked
                  /\ IF key < KeyOf[m] THEN lo[c] = lo[m] /\ hi[c] = at[m] - 1
                     ELSE lo[c] = at[m] + 1 /\ hi[c] = hi[m]
<1> DEFINE D == Linked
<1>1. \A x \in D : /\ at[x] = lo[x] => tree[x].left = NULL
                   /\ at[x] # lo[x] => /\ tree[x].left \in D
                                       /\ lo[tree[x].left] = lo[x] /\ hi[tree[x].left] = at[x] - 1
  BY ShapeIs DEF Linked
<1>2. \A x \in D : /\ at[x] = hi[x] => tree[x].right = NULL
                   /\ at[x] # hi[x] => /\ tree[x].right \in D
                                       /\ lo[tree[x].right] = at[x] + 1 /\ hi[tree[x].right] = hi[x]
  BY ShapeIs DEF Linked
<1>3. CASE key < KeyOf[m]
  <2>1. Toward(key, m) = tree[m].left
    BY <1>3 DEF Toward
  <2> QED
    BY <1>1, <1>3, <2>1
<1>4. CASE ~(key < KeyOf[m])
  <2>1. Toward(key, m) = tree[m].right
    BY <1>4 DEF Toward
  <2> QED
    BY <1>2, <1>4, <2>1
<1> QED
  BY <1>3, <1>4

\* find() finds a node with the key if there is one.
LEMMA FindIs ==
    ASSUME NEW N, NEW at, NEW lo, NEW hi, Shape(tree, root, N, at, lo, hi),
           KeyAssumption, KeysInOrder(Linked, at), NEW key \in Int
    PROVE  IF \E m \in Linked : KeyOf[m] = key
           THEN Find(key) \in Linked /\ KeyOf[Find(key)] = key ELSE Find(key) = NULL
<1> DEFINE D == Linked
           child(m) == Toward(key, m)
           stop == {m \in Pointer : m = NULL \/ KeyOf[m] = key}
           val == [m \in Pointer |-> m]
           next == [m \in Pointer |-> child(m)]
           rank == [m \in Pointer |-> IF m = NULL THEN 0 ELSE hi[m] - lo[m] + 1]
<1>1. /\ N \in Nat /\ NULL \notin D
      /\ \A m \in D : /\ at[m] \in 1..N /\ lo[m] \in 1..N /\ hi[m] \in 1..N
                      /\ lo[m] <= at[m] /\ at[m] <= hi[m]
      /\ \A m, x \in D : at[m] = at[x] => m = x
      /\ \A m \in D : /\ at[m] = lo[m] => tree[m].left = NULL
                      /\ at[m] # lo[m] => /\ tree[m].left \in D
                                          /\ lo[tree[m].left] = lo[m] /\ hi[tree[m].left] = at[m] - 1
      /\ \A m \in D : /\ at[m] = hi[m] => tree[m].right = NULL
                      /\ at[m] # hi[m] => /\ tree[m].right \in D
                                          /\ lo[tree[m].right] = at[m] + 1 /\ hi[tree[m].right] = hi[m]
      /\ N = 0 => root = NULL
      /\ N # 0 => root \in D /\ lo[root] = 1 /\ hi[root] = N
  BY ShapeIs DEF Linked
<1>2. \A m \in D : KeyOf[m] \in Int
  BY DEF KeyAssumption, KeysInOrder
<1>3. Pointer = D \cup {NULL}
  BY DEF Pointer
<1>4. \A m \in D :
         /\ child(m) = IF key < KeyOf[m] THEN tree[m].left ELSE tree[m].right
         /\ \/ child(m) = NULL /\ IF key < KeyOf[m] THEN at[m] = lo[m] ELSE at[m] = hi[m]
            \/ /\ child(m) \in D
               /\ IF key < KeyOf[m] THEN lo[child(m)] = lo[m] /\ hi[child(m)] = at[m] - 1
                  ELSE lo[child(m)] = at[m] + 1 /\ hi[child(m)] = hi[m]
  BY TowardIs DEF Toward
<1>5. /\ \A m \in Pointer : m \in stop <=> m = NULL \/ KeyOf[m] = key
      /\ \A m \in Pointer : val[m] = m /\ next[m] = child(m)
      /\ \A m \in Pointer : rank[m] = IF m = NULL THEN 0 ELSE hi[m] - lo[m] + 1
  OBVIOUS
<1> HIDE DEF stop, val, next, rank, child, D
<1>6. ASSUME NEW m \in D
      PROVE  /\ child(m) \in Pointer
             /\ child(m) # NULL => /\ rank[child(m)] < rank[m]
                                   /\ IF key < KeyOf[m] THEN lo[child(m)] = lo[m] /\ hi[child(m)] = at[m] - 1
                                      ELSE lo[child(m)] = at[m] + 1 /\ hi[child(m)] = hi[m]
             /\ child(m) = NULL => /\ rank[child(m)] < rank[m]
                                   /\ IF key < KeyOf[m] THEN at[m] = lo[m] ELSE at[m] = hi[m]
  <2>1. /\ m # NULL /\ m \in Pointer /\ rank[m] = hi[m] - lo[m] + 1
        /\ at[m] \in 1..N /\ lo[m] \in 1..N /\ hi[m] \in 1..N /\ lo[m] <= at[m] /\ at[m] <= hi[m]
    BY <1>1, <1>3, <1>5
  <2>2. rank[NULL] = 0 /\ NULL \in Pointer
    BY <1>3, <1>5
  <2>3. \A x \in D : x # NULL /\ x \in Pointer /\ rank[x] = hi[x] - lo[x] + 1
    BY <1>1, <1>3, <1>5
  <2>4. CASE child(m) = NULL
    BY <1>1, <1>4, <2>1, <2>2, <2>4
  <2>5. CASE child(m) \in D
    BY <1>4, <2>1, <2>3, <2>5
  <2> QED
    BY <1>4, <2>4, <2>5
<1>7. Descends(Pointer, stop, next, rank, N)
  <2>1. \A m \in Pointer : rank[m] \in 0..N
    BY <1>1, <1>3, <1>5
  <2>2. \A m \in Pointer : m \notin stop => next[m] \in Pointer /\ rank[next[m]] < rank[m]
    BY <1>3, <1>5, <1>6
  <2> QED
    BY <1>1, <2>1, <2>2 DEF Descends
<1>8. \E f : IsWalk(f, Pointer, stop, val, next)
  BY <1>7, WalkExists
<1>9. \A m \in D : m \notin stop => KeyOf[m] < key \/ key < KeyOf[m]
  BY <1>2, <1>3, <1>5
<1> DEFINE Is(f) == f = [m \in Pointer |-> IF m = NULL THEN NULL
                                           ELSE IF key < KeyOf[m] THEN f[tree[m].left]
                                           ELSE IF KeyOf[m] < key THEN f[tree[m].right]
                                           ELSE m]
           found == CHOOSE f : Is(f)
<1>10. ASSUME NEW f, IsWalk(f, Pointer, stop, val, next)
       PROVE  Is(f)
  <2>1. ASSUME NEW m \in Pointer
        PROVE  f[m] = IF m = NULL THEN NULL
                      ELSE IF key < KeyOf[m] THEN f[tree[m].left]
                      ELSE IF KeyOf[m] < key THEN f[tree[m].right] ELSE m
    <3>1. f[m] = IF m \in stop THEN m ELSE f[child(m)]
      BY <1>5, <1>10 DEF IsWalk
    <3>2. CASE m = NULL
      BY <1>5, <3>1, <3>2
    <3>3. CASE m # NULL /\ m \in stop
      BY <1>2, <1>3, <1>5, <3>1, <3>3
    <3>4. CASE m # NULL /\ m \notin stop
      BY <1>2, <1>3, <1>4, <1>9, <3>1, <3>4
    <3> QED
      BY <3>2, <3>3, <3>4
  <2>2. f = [m \in Pointer |-> f[m]]
    BY <1>10 DEF IsWalk
  <2> QED
    BY <2>1, <2>2
<1>11. Is(found)
  BY <1>8, <1>10
<1>12. Find(key) = found[root]
  BY DEF Find
<1>13. ASSUME NEW m \in D
       PROVE  found[m] = IF m \in stop THEN m ELSE found[next[m]]
  <2>1. /\ m \in Pointer /\ m # NULL /\ next[m] = child(m) /\ (m \in stop <=> KeyOf[m] = key)
        /\ KeyOf[m] \in Int
    BY <1>1, <1>2, <1>3, <1>5
  <2>2. found[m] = IF key < KeyOf[m] THEN found[tree[m].left]
                   ELSE IF KeyOf[m] < key THEN found[tree[m].right] ELSE m
    <3> HIDE DEF found
    <3> QED
      BY <1>11, <2>1
  <2> HIDE DEF found
  <2> QED
    BY <1>4, <2>1, <2>2
<1>14. found[NULL] = NULL
  BY <1>3, <1>11
<1> HIDE DEF Is, found
<1> DEFINE Has(m) == \E x \in D : lo[m] <= at[x] /\ at[x] <= hi[m] /\ KeyOf[x] = key
           Good == {m \in Pointer : m = NULL \/ IF Has(m) THEN found[m] \in D /\ KeyOf[found[m]] = key
                                                ELSE found[m] = NULL}
<1>15. ASSUME NEW m \in Pointer, m \in stop \/ next[m] \in Good
       PROVE  m \in Good
  <2>1. CASE m = NULL
    BY <2>1
  <2>2. CASE m # NULL /\ m \in stop
    <3>1. m \in D /\ found[m] = m /\ KeyOf[m] = key
      BY <1>3, <1>5, <1>13, <2>2
    <3> QED
      BY <1>1, <3>1
  <2>3. CASE m # NULL /\ m \notin stop
    <3> DEFINE c == child(m)
    <3>1. m \in D /\ c \in Good /\ found[m] = found[c] /\ c \in Pointer /\ KeyOf[m] # key
      BY <1>3, <1>5, <1>6, <1>13, <1>15, <2>3
    <3>2. ASSUME NEW x \in D, KeyOf[x] = key, lo[m] <= at[x], at[x] <= hi[m]
          PROVE  c # NULL /\ lo[c] <= at[x] /\ at[x] <= hi[c]
      <4>1. x # m /\ at[x] # at[m] /\ at[x] \in Int /\ at[m] \in Int
        BY <1>1, <3>1, <3>2
      <4>2. CASE key < KeyOf[m]
        <5>1. ~(at[m] < at[x])
          BY <1>2, <3>1, <3>2, <4>2 DEF KeysInOrder, D
        <5> QED
          BY <1>1, <1>6, <3>1, <3>2, <4>1, <4>2, <5>1
      <4>3. CASE KeyOf[m] < key
        <5>1. ~(at[x] < at[m])
          BY <1>2, <3>1, <3>2, <4>3 DEF KeysInOrder, D
        <5>2. ~(key < KeyOf[m])
          BY <1>2, <3>1, <4>3
        <5> QED
          BY <1>1, <1>6, <3>1, <3>2, <4>1, <5>1, <5>2
      <4> QED
        BY <1>9, <2>3, <3>1, <4>2, <4>3
    <3>3. ASSUME c # NULL, Has(c)
          PROVE  Has(m)
      <4>1. PICK x \in D : lo[c] <= at[x] /\ at[x] <= hi[c] /\ KeyOf[x] = key
        BY <3>3
      <4>2. lo[m] <= lo[c] /\ hi[c] <= hi[m]
        BY <1>1, <1>6, <3>1, <3>3
      <4>3. c \in D /\ lo[m] \in Int /\ lo[c] \in Int /\ hi[m] \in Int /\ hi[c] \in Int /\ at[x] \in Int
        BY <1>1, <1>3, <3>1, <3>3
      <4>4. lo[m] <= at[x] /\ at[x] <= hi[m]
        BY <4>1, <4>2, <4>3
      <4> QED
        BY <4>1, <4>4
    <3>4. CASE c = NULL
      <4>1. ~Has(m) /\ found[m] = NULL
        BY <1>14, <3>1, <3>2, <3>4
      <4> QED
        BY <2>3, <4>1
    <3>5. CASE c # NULL
      <4>1. Has(m) <=> Has(c)
        BY <3>2, <3>3, <3>5
      <4> HIDE DEF Has, c
      <4> QED
        BY <3>1, <3>5, <4>1
    <3> QED
      BY <3>4, <3>5
  <2> QED
    BY <2>1, <2>2, <2>3
<1>16. PassesOn(Pointer, stop, next, Good)
  <2> HIDE DEF Good
  <2> QED
    BY <1>15 DEF PassesOn
<1>17. \A m \in Pointer : m \in Good
  <2> HIDE DEF Good
  <2> QED
    BY <1>7, <1>16, WalkInduction
<1>18. CASE N = 0
  <2>1. D = {}
    BY <1>1, <1>18
  <2> QED
    BY <1>1, <1>12, <1>14, <1>18, <2>1 DEF D
<1>19. CASE N # 0
  <2>1. root \in D /\ root # NULL /\ root \in Good
    BY <1>1, <1>3, <1>17, <1>19
  <2>2. Has(root) <=> \E x \in D : KeyOf[x] = key
    BY <1>1, <1>19
  <2> QED
    BY <1>12, <2>1, <2>2 DEF D
<1> QED
  BY <1>18, <1>19

\* The search ends at a node with the key, or at one beside which it belongs.
LEMMA SearchIs ==
    ASSUME NEW N, NEW at, NEW lo, NEW hi, Shape(tree, root, N, at, lo, hi),
           KeyAssumption, KeysInOrder(Linked, at), NEW key \in Int
    PROVE  LET e == Search(key)
               x == e.node
           IN  IF N = 0 THEN e = [node |-> NULL, cmp |-> 0]
               ELSE /\ x \in Linked /\ e.cmp \in {-1, 0, 1}
                    /\ e.cmp = 0 => KeyOf[x] = key
                    /\ e.cmp = -1 => /\ tree[x].left = NULL /\ key < KeyOf[x]
                                     /\ \A y \in Linked : at[y] < at[x] => KeyOf[y] < key
                    /\ e.cmp = 1 => /\ tree[x].right = NULL /\ KeyOf[x] < key
                                    /\ \A y \in Linked : at[x] < at[y] => key < KeyOf[y]
<1> DEFINE D == Linked
           child(m) == Toward(key, m)
           stop == {m \in D : KeyOf[m] = key \/ child(m) = NULL}
           val == [m \in D |-> [node |-> m, cmp |-> IF key < KeyOf[m] THEN -1
                                                    ELSE IF KeyOf[m] < key THEN 1 ELSE 0]]
           next == [m \in D |-> child(m)]
           rank == [m \in D |-> hi[m] - lo[m]]
<1>1. /\ N \in Nat /\ NULL \notin D
      /\ \A m \in D : /\ at[m] \in 1..N /\ lo[m] \in 1..N /\ hi[m] \in 1..N
                      /\ lo[m] <= at[m] /\ at[m] <= hi[m]
      /\ \A m \in D : at[m] = lo[m] => tree[m].left = NULL
      /\ \A m \in D : at[m] = hi[m] => tree[m].right = NULL
      /\ N = 0 => root = NULL
      /\ N # 0 => root \in D /\ lo[root] = 1 /\ hi[root] = N
  BY ShapeIs DEF Linked
<1>2. \A m \in D : KeyOf[m] \in Int
  BY DEF KeyAssumption, KeysInOrder
<1>3. \A m \in D :
         /\ child(m) = IF key < KeyOf[m] THEN tree[m].left ELSE tree[m].right
         /\ \/ child(m) = NULL /\ IF key < KeyOf[m] THEN at[m] = lo[m] ELSE at[m] = hi[m]
            \/ /\ child(m) \in D
               /\ IF key < KeyOf[m] THEN lo[child(m)] = lo[m] /\ hi[child(m)] = at[m] - 1
                  ELSE lo[child(m)] = at[m] + 1 /\ hi[child(m)] = hi[m]
  BY TowardIs DEF Toward
<1>4. /\ \A m \in D : m \in stop <=> KeyOf[m] = key \/ child(m) = NULL
      /\ \A m \in D :
            /\ key < KeyOf[m] => val[m] = [node |-> m, cmp |-> -1]
            /\ KeyOf[m] < key => ~(key < KeyOf[m]) /\ val[m] = [node |-> m, cmp |-> 1]
            /\ KeyOf[m] = key => ~(KeyOf[m] < key) /\ ~(key < KeyOf[m]) /\ val[m] = [node |-> m, cmp |-> 0]
      /\ \A m \in D : next[m] = child(m) /\ rank[m] = hi[m] - lo[m]
  BY <1>2
<1> HIDE DEF stop, val, next, rank, child, D
<1>5. Descends(D, stop, next, rank, N)
  <2>1. \A m \in D : rank[m] \in 0..N
    BY <1>1, <1>4
  <2>2. \A m \in D : m \notin stop => next[m] \in D /\ rank[next[m]] < rank[m]
    BY <1>1, <1>3, <1>4
  <2> QED
    BY <1>1, <2>1, <2>2 DEF Descends
<1>6. \E f : IsWalk(f, D, stop, val, next)
  BY <1>5, WalkExists
<1> DEFINE End(f, n) ==
               IF key < KeyOf[n]
               THEN IF tree[n].left # NULL THEN f[tree[n].left] ELSE [node |-> n, cmp |-> -1]
               ELSE IF KeyOf[n] < key
               THEN IF tree[n].right # NULL THEN f[tree[n].right] ELSE [node |-> n, cmp |-> 1]
               ELSE [node |-> n, cmp |-> 0]
           Is(f) == f = [n \in D |-> End(f, n)]
           end == CHOOSE f : Is(f)
<1>7. ASSUME NEW f, NEW m \in D
      PROVE  End(f, m) = IF m \in stop THEN val[m] ELSE f[next[m]]
  <2>1. CASE key < KeyOf[m]
    <3>1. /\ KeyOf[m] # key /\ val[m] = [node |-> m, cmp |-> -1] /\ child(m) = tree[m].left
          /\ next[m] = child(m) /\ (m \in stop <=> child(m) = NULL)
      BY <1>2, <1>3, <1>4, <2>1
    <3> QED
      BY <2>1, <3>1
  <2>2. CASE KeyOf[m] < key
    <3>1. /\ ~(key < KeyOf[m]) /\ KeyOf[m] # key /\ val[m] = [node |-> m, cmp |-> 1]
          /\ child(m) = tree[m].right /\ next[m] = child(m) /\ (m \in stop <=> child(m) = NULL)
      BY <1>2, <1>3, <1>4, <2>2
    <3> QED
      BY <2>2, <3>1
  <2>3. CASE KeyOf[m] = key
    <3>1. ~(key < KeyOf[m]) /\ ~(KeyOf[m] < key) /\ val[m] = [node |-> m, cmp |-> 0] /\ m \in stop
      BY <1>4, <2>3
    <3> QED
      BY <3>1
  <2> QED
    BY <1>2, <2>1, <2>2, <2>3
<1>8. ASSUME NEW f, IsWalk(f, D, stop, val, next)
      PROVE  Is(f)
  <2> HIDE DEF End
  <2> QED
    BY <1>7, <1>8 DEF IsWalk
<1>9. Is(end)
  <2> HIDE DEF Is
  <2> QED
    BY <1>6, <1>8
<1>10. Search(key) = IF root = NULL THEN [node |-> NULL, cmp |-> 0] ELSE end[root]
  BY DEF Search, D
<1> HIDE DEF end
<1>11. \A m \in D : end[m] = IF m \in stop THEN val[m] ELSE end[next[m]]
  <2> HIDE DEF End
  <2> QED
    BY <1>7, <1>9
<1> HIDE DEF Is, End
<1> DEFINE Right(m, e) ==
               LET x == e.node
               IN  /\ x \in D /\ lo[m] <= at[x] /\ at[x] <= hi[m] /\ e.cmp \in {-1, 0, 1}
                   /\ e.cmp = 0 => KeyOf[x] = key
                   /\ e.cmp = -1 => /\ tree[x].left = NULL /\ key < KeyOf[x]
                                    /\ \A y \in D : lo[m] <= at[y] /\ at[y] < at[x] => KeyOf[y] < key
                   /\ e.cmp = 1 => /\ tree[x].right = NULL /\ KeyOf[x] < key
                                   /\ \A y \in D : at[x] < at[y] /\ at[y] <= hi[m] => key < KeyOf[y]
           Good == {m \in D : Right(m, end[m])}
<1>12. ASSUME NEW m \in D, m \in stop \/ next[m] \in Good
       PROVE  m \in Good
  <2> DEFINE c == child(m)
  <2>1. CASE KeyOf[m] = key
    <3>1. end[m] = val[m] /\ val[m] = [node |-> m, cmp |-> 0]
      BY <1>4, <1>11, <2>1
    <3> QED
      BY <1>1, <2>1, <3>1
  <2>2. CASE KeyOf[m] # key /\ c = NULL
    <3>1. end[m] = val[m]
      BY <1>4, <1>11, <2>2
    <3>2. CASE key < KeyOf[m]
      <4>1. val[m] = [node |-> m, cmp |-> -1] /\ tree[m].left = NULL /\ at[m] = lo[m]
        BY <1>1, <1>3, <1>4, <2>2, <3>2
      <4> QED
        BY <1>1, <3>1, <3>2, <4>1
    <3>3. CASE KeyOf[m] < key
      <4>1. val[m] = [node |-> m, cmp |-> 1] /\ tree[m].right = NULL /\ at[m] = hi[m]
        <5>1. ~(key < KeyOf[m])
          BY <1>2, <3>3
        <5> QED
          BY <1>1, <1>3, <1>4, <2>2, <3>3, <5>1
      <4> QED
        BY <1>1, <3>1, <3>3, <4>1
    <3> QED
      BY <1>2, <2>2, <3>2, <3>3
  <2>3. CASE KeyOf[m] # key /\ c # NULL
    <3> DEFINE e == end[c]
               x == e.node
    <3>1. m \notin stop /\ next[m] = c /\ end[m] = e /\ c \in Good
      BY <1>4, <1>11, <1>12, <2>3
    <3>2. Right(c, e)
      BY <3>1
    <3> HIDE DEF e, Good
    <3>3. c \in D /\ x \in D /\ lo[c] <= at[x] /\ at[x] <= hi[c] /\ e.cmp \in {-1, 0, 1}
      BY <1>3, <2>3, <3>2
    <3>4. /\ e.cmp = 0 => KeyOf[x] = key
          /\ e.cmp = -1 => tree[x].left = NULL /\ key < KeyOf[x]
          /\ e.cmp = 1 => tree[x].right = NULL /\ KeyOf[x] < key
      BY <3>2
    <3>5. lo[m] <= at[x] /\ at[x] <= hi[m]
      BY <1>1, <1>3, <3>3
    <3>6. ASSUME e.cmp = -1, NEW y \in D, lo[m] <= at[y], at[y] < at[x]
          PROVE  KeyOf[y] < key
      <4>1. lo[c] <= at[y] => KeyOf[y] < key
        BY <3>2, <3>6
      <4>2. CASE key < KeyOf[m]
        BY <1>3, <2>3, <3>6, <4>1, <4>2, <1>1
      <4>3. CASE KeyOf[m] < key
        <5>1. lo[c] = at[m] + 1
          BY <1>1, <1>2, <1>3, <2>3, <4>3
        <5>2. at[y] < at[m] => KeyOf[y] <= KeyOf[m]
          BY DEF KeysInOrder, D
        <5>3. at[y] = at[m] => y = m
          BY ShapeIs DEF D, Linked
        <5> QED
          BY <1>1, <1>2, <4>1, <4>3, <5>1, <5>2, <5>3
      <4> QED
        BY <1>2, <2>3, <4>2, <4>3
    <3>7. ASSUME e.cmp = 1, NEW y \in D, at[x] < at[y], at[y] <= hi[m]
          PROVE  key < KeyOf[y]
      <4>1. at[y] <= hi[c] => key < KeyOf[y]
        BY <3>2, <3>7
      <4>2. CASE KeyOf[m] < key
        BY <1>1, <1>2, <1>3, <2>3, <3>7, <4>1, <4>2
      <4>3. CASE key < KeyOf[m]
        <5>1. hi[c] = at[m] - 1
          BY <1>1, <1>3, <2>3, <4>3
        <5>2. at[m] < at[y] => KeyOf[m] <= KeyOf[y]
          BY DEF KeysInOrder, D
        <5>3. at[y] = at[m] => y = m
          BY ShapeIs DEF D, Linked
        <5> QED
          BY <1>1, <1>2, <4>1, <4>3, <5>1, <5>2, <5>3
      <4> QED
        BY <1>2, <2>3, <4>2, <4>3
    <3>8. Right(m, e)
      BY <3>3, <3>4, <3>5, <3>6, <3>7
    <3> HIDE DEF Right
    <3> QED
      BY <3>1, <3>8 DEF Good
  <2> QED
    BY <2>1, <2>2, <2>3
<1>13. PassesOn(D, stop, next, Good)
  <2> HIDE DEF Good
  <2> QED
    BY <1>12 DEF PassesOn
<1>14. \A m \in D : m \in Good
  <2> HIDE DEF Good
  <2> QED
    BY <1>5, <1>13, WalkInduction
<1>15. CASE N = 0
  BY <1>1, <1>10, <1>15
<1>16. CASE N # 0
  <2> DEFINE e == end[root]
             x == e.node
  <2>1. root \in D /\ Search(key) = e /\ root \in Good /\ lo[root] = 1 /\ hi[root] = N
    BY <1>1, <1>10, <1>14, <1>16
  <2>2. Right(root, e)
    BY <2>1
  <2> HIDE DEF e, Good
  <2>3. \A y \in D : lo[root] <= at[y] /\ at[y] <= hi[root]
    BY <1>1, <2>1
  <2> QED
    BY <1>16, <2>1, <2>2, <2>3 DEF D
<1> QED
  BY <1>15, <1>16

-----------------------------------------------------------------------------
(* The inorder walk                                                        *)

\* s is the sequence of the nodes of D.
IsOrder(s, D, N, at) ==
    /\ s \in Seq(D) /\ Len(s) = N /\ DOMAIN s = 1..N
    /\ \A i \in 1..N : s[i] \in D /\ at[s[i]] = i
    /\ \A m \in D : s[at[m]] = m

LEMMA OrderExists ==
    ASSUME NEW D, NEW N, NEW at, NEW lo, NEW hi, Placed(D, N, at, lo, hi)
    PROVE  \E s : IsOrder(s, D, N, at)
<1> DEFINE s == [i \in 1..N |-> CHOOSE m \in D : at[m] = i]
<1>1. /\ N \in Nat /\ \A i \in 1..N : \E m \in D : at[m] = i
      /\ \A m, n \in D : at[m] = at[n] => m = n
      /\ \A m \in D : at[m] \in 1..N
  BY DEF Placed
<1>2. \A i \in 1..N : s[i] \in D /\ at[s[i]] = i
  BY <1>1
<1>3. DOMAIN s = 1..N /\ s = [i \in 1..N |-> s[i]]
  OBVIOUS
<1> HIDE DEF s
<1>4. s \in [1..N -> D]
  BY <1>2, <1>3
<1>5. s \in Seq(D)
  BY <1>1, <1>4, SeqDef
<1>6. Len(s) = N
  BY <1>1, <1>3, <1>5, LenProperties
<1>7. \A m \in D : s[at[m]] = m
  BY <1>1, <1>2
<1> QED
  BY <1>2, <1>3, <1>5, <1>6, <1>7 DEF IsOrder

\* Adjacent parts of a sequence and the element between them
LEMMA PartsAround ==
    ASSUME NEW D, NEW s \in Seq(D), NEW a \in Int, NEW b \in Int, NEW c \in Int,
           1 <= a, a <= c, c <= b, b <= Len(s)
    PROVE  SubSeq(s, a, c - 1) \o <<s[c]>> \o SubSeq(s, c + 1, b) = SubSeq(s, a, b)
<1>1. Len(s) \in Nat /\ \A i \in 1..Len(s) : s[i] \in D
  BY LenProperties, ElementOfSeq
<1> DEFINE x == SubSeq(s, a, c - 1)
           y == <<s[c]>>
           z == SubSeq(s, c + 1, b)
           w == SubSeq(s, a, b)
<1>2. x \in Seq(D) /\ Len(x) = c - a /\ \A i \in 1..(c - a) : x[i] = s[a + i - 1]
  <2>1. /\ a \in Int /\ c - 1 \in Int /\ \A i \in a..(c - 1) : s[i] \in D
    BY <1>1
  <2>2. /\ x \in Seq(D) /\ Len(x) = IF a <= c - 1 THEN (c - 1) - a + 1 ELSE 0
        /\ \A i \in 1 .. (c - 1) - a + 1 : x[i] = s[a + i - 1]
    BY <2>1, SubSeqProperties
  <2> HIDE DEF x
  <2> QED
    BY <2>2
<1>3. y \in Seq(D) /\ Len(y) = 1 /\ y[1] = s[c]
  BY <1>1
<1>4. z \in Seq(D) /\ Len(z) = b - c /\ \A i \in 1..(b - c) : z[i] = s[c + i]
  <2>1. /\ c + 1 \in Int /\ b \in Int /\ \A i \in (c + 1)..b : s[i] \in D
    BY <1>1
  <2>2. /\ z \in Seq(D) /\ Len(z) = IF c + 1 <= b THEN b - (c + 1) + 1 ELSE 0
        /\ \A i \in 1 .. b - (c + 1) + 1 : z[i] = s[c + 1 + i - 1]
    BY <2>1, SubSeqProperties
  <2>3. \A i \in Int : c + 1 + i - 1 = c + i
    OBVIOUS
  <2> HIDE DEF z
  <2> QED
    BY <2>2, <2>3
<1>5. w \in Seq(D) /\ Len(w) = b - a + 1 /\ \A i \in 1..(b - a + 1) : w[i] = s[a + i - 1]
  <2>1. /\ a \in Int /\ b \in Int /\ \A i \in a..b : s[i] \in D
    BY <1>1
  <2>2. /\ w \in Seq(D) /\ Len(w) = IF a <= b THEN b - a + 1 ELSE 0
        /\ \A i \in 1 .. b - a + 1 : w[i] = s[a + i - 1]
    BY <2>1, SubSeqProperties
  <2> HIDE DEF w
  <2> QED
    BY <2>2
<1> HIDE DEF x, y, z, w
<1> DEFINE q == x \o y
           v == q \o z
<1>6. /\ q \in Seq(D) /\ Len(q) = c - a + 1
      /\ \A i \in 1..(c - a + 1) : q[i] = IF i <= c - a THEN x[i] ELSE y[i - (c - a)]
  <2>1. x \in Seq(D) /\ y \in Seq(D)
    BY <1>2, <1>3
  <2>2. /\ q \in Seq(D) /\ Len(q) = Len(x) + Len(y)
        /\ \A i \in 1..Len(x) + Len(y) : q[i] = IF i <= Len(x) THEN x[i] ELSE y[i - Len(x)]
    BY <2>1, ConcatProperties
  <2>3. Len(x) = c - a /\ Len(y) = 1
    BY <1>2, <1>3
  <2> HIDE DEF q
  <2> QED
    BY <2>2, <2>3
<1> HIDE DEF q
<1>7. /\ v \in Seq(D) /\ Len(v) = (c - a + 1) + (b - c)
      /\ \A i \in 1..((c - a + 1) + (b - c)) :
            v[i] = IF i <= c - a + 1 THEN q[i] ELSE z[i - (c - a + 1)]
  <2>1. q \in Seq(D) /\ z \in Seq(D)
    BY <1>4, <1>6
  <2>2. /\ v \in Seq(D) /\ Len(v) = Len(q) + Len(z)
        /\ \A i \in 1..Len(q) + Len(z) : v[i] = IF i <= Len(q) THEN q[i] ELSE z[i - Len(q)]
    BY <2>1, ConcatProperties
  <2>3. Len(q) = c - a + 1 /\ Len(z) = b - c
    BY <1>4, <1>6
  <2> HIDE DEF v
  <2> QED
    BY <2>2, <2>3
<1> HIDE DEF v
<1>8. Len(v) = b - a + 1
  BY <1>7
<1>9. ASSUME NEW i \in 1..Len(v)
      PROVE  v[i] = w[i]
  <2>1. i \in 1..(b - a + 1) /\ w[i] = s[a + i - 1]
    BY <1>5, <1>8
  <2>2. CASE i <= c - a
    <3>1. v[i] = q[i] /\ i \in 1..(c - a) /\ i \in 1..(c - a + 1)
      BY <1>7, <1>8, <2>1, <2>2
    <3>2. v[i] = x[i]
      BY <1>6, <2>2, <3>1
    <3> QED
      BY <1>2, <2>1, <3>1, <3>2
  <2>3. CASE i = c - a + 1
    <3>1. v[i] = q[i] /\ a + i - 1 = c /\ i - (c - a) = 1 /\ i \in 1..(c - a + 1) /\ ~(i <= c - a)
      BY <1>7, <1>8, <2>1, <2>3
    <3>2. v[i] = y[1]
      BY <1>6, <3>1
    <3> QED
      BY <1>3, <2>1, <3>1, <3>2
  <2>4. CASE i > c - a + 1
    <3>1. v[i] = z[i - (c - a + 1)] /\ i - (c - a + 1) \in 1..(b - c)
      BY <1>7, <2>1, <2>4
    <3>2. z[i - (c - a + 1)] = s[c + (i - (c - a + 1))] /\ c + (i - (c - a + 1)) = a + i - 1
      BY <1>4, <2>1, <3>1
    <3> QED
      BY <2>1, <3>1, <3>2
  <2> QED
    BY <2>1, <2>2, <2>3, <2>4
<1>10. v = w
  BY <1>5, <1>7, <1>8, <1>9, SeqEqual
<1> QED
  BY <1>10 DEF v, q, w, x, y, z

LEMMA InOrderIs ==
    ASSUME NEW N, NEW at, NEW lo, NEW hi, Shape(tree, root, N, at, lo, hi)
    PROVE  IsOrder(InOrder, Linked, N, at)
<1> DEFINE D == Linked
<1>1. /\ N \in Nat /\ NULL \notin D
      /\ \A m \in D : /\ at[m] \in 1..N /\ lo[m] \in 1..N /\ hi[m] \in 1..N
                      /\ lo[m] <= at[m] /\ at[m] <= hi[m]
      /\ \A m \in D : /\ at[m] = lo[m] => tree[m].left = NULL
                      /\ at[m] # lo[m] => /\ tree[m].left \in D
                                          /\ lo[tree[m].left] = lo[m] /\ hi[tree[m].left] = at[m] - 1
      /\ \A m \in D : /\ at[m] = hi[m] => tree[m].right = NULL
                      /\ at[m] # hi[m] => /\ tree[m].right \in D
                                          /\ lo[tree[m].right] = at[m] + 1 /\ hi[tree[m].right] = hi[m]
      /\ N = 0 => root = NULL
      /\ N # 0 => root \in D /\ lo[root] = 1 /\ hi[root] = N
  BY ShapeIs DEF Linked
<1>2. PICK s : IsOrder(s, D, N, at)
  BY OrderExists DEF Shape, Linked
<1>3. s \in Seq(D) /\ Len(s) = N /\ \A m \in D : s[at[m]] = m
  BY <1>2 DEF IsOrder
<1>4. Pointer = D \cup {NULL}
  BY DEF Pointer
<1> DEFINE Body(f, n) == IF n = NULL THEN << >> ELSE f[tree[n].left] \o <<n>> \o f[tree[n].right]
           Is(f) == f = [n \in Pointer |-> Body(f, n)]
           W == [n \in Pointer |-> IF n = NULL THEN << >> ELSE SubSeq(s, lo[n], hi[n])]
<1> HIDE DEF D
<1>5. ASSUME NEW n \in D
      PROVE  /\ \/ tree[n].left = NULL
                \/ tree[n].left \in D /\ hi[tree[n].left] - lo[tree[n].left] < hi[n] - lo[n]
             /\ \/ tree[n].right = NULL
                \/ tree[n].right \in D /\ hi[tree[n].right] - lo[tree[n].right] < hi[n] - lo[n]
             /\ W[tree[n].left] = SubSeq(s, lo[n], at[n] - 1)
             /\ W[tree[n].right] = SubSeq(s, at[n] + 1, hi[n])
             /\ W[n] = SubSeq(s, lo[n], hi[n])
  <2> DEFINE l == tree[n].left
             r == tree[n].right
  <2>1. /\ at[n] \in 1..N /\ lo[n] \in 1..N /\ hi[n] \in 1..N /\ lo[n] <= at[n] /\ at[n] <= hi[n]
    BY <1>1
  <2>2. \/ l = NULL /\ at[n] = lo[n]
        \/ l \in D /\ l # NULL /\ lo[l] = lo[n] /\ hi[l] = at[n] - 1
    BY <1>1
  <2>3. \/ r = NULL /\ at[n] = hi[n]
        \/ r \in D /\ r # NULL /\ lo[r] = at[n] + 1 /\ hi[r] = hi[n]
    BY <1>1
  <2>4. W[NULL] = << >> /\ \A m \in D : W[m] = SubSeq(s, lo[m], hi[m])
    BY <1>1, <1>4
  <2> HIDE DEF l, r, W
  <2>5. W[l] = SubSeq(s, lo[n], at[n] - 1)
    <3>1. CASE l = NULL /\ at[n] = lo[n]
      <4>1. SubSeq(s, lo[n], at[n] - 1) = << >>
        BY <2>1, <3>1, SubSeqEmpty
      <4> QED
        BY <2>4, <3>1, <4>1
    <3> QED
      BY <2>2, <2>4, <3>1
  <2>6. W[r] = SubSeq(s, at[n] + 1, hi[n])
    <3>1. CASE r = NULL /\ at[n] = hi[n]
      <4>1. SubSeq(s, at[n] + 1, hi[n]) = << >>
        BY <2>1, <3>1, SubSeqEmpty
      <4> QED
        BY <2>4, <3>1, <4>1
    <3> QED
      BY <2>3, <2>4, <3>1
  <2> QED
    BY <2>1, <2>2, <2>3, <2>4, <2>5, <2>6 DEF l, r
<1>6. ASSUME NEW n \in D
      PROVE  Body(W, n) = W[n]
  <2>1. /\ at[n] \in Int /\ lo[n] \in Int /\ hi[n] \in Int /\ 1 <= lo[n] /\ lo[n] <= at[n]
        /\ at[n] <= hi[n] /\ hi[n] <= Len(s) /\ n # NULL /\ s[at[n]] = n
    BY <1>1, <1>3
  <2>2. SubSeq(s, lo[n], at[n] - 1) \o <<s[at[n]]>> \o SubSeq(s, at[n] + 1, hi[n]) = SubSeq(s, lo[n], hi[n])
    BY <1>3, <2>1, PartsAround
  <2> HIDE DEF W
  <2> QED
    BY <1>5, <2>1, <2>2
<1>7. Is(W)
  <2>1. ASSUME NEW n \in Pointer
        PROVE  W[n] = Body(W, n)
    <3>1. CASE n = NULL
      BY <3>1
    <3>2. CASE n # NULL
      <4> HIDE DEF W, Body
      <4> QED
        BY <1>4, <1>6, <3>2
    <3> QED
      BY <3>1, <3>2
  <2>2. W = [n \in Pointer |-> W[n]]
    OBVIOUS
  <2> HIDE DEF W, Body
  <2> QED
    BY <2>1, <2>2
<1>8. ASSUME NEW f, Is(f), NEW n \in D, f[n] # W[n]
      PROVE  FALSE
  <2> DEFINE Bad == {m \in D : f[m] # W[m]}
             T == {hi[m] - lo[m] : m \in Bad}
  <2>1. T \in SUBSET Nat /\ T # {}
    <3> HIDE DEF W, Is
    <3> QED
      BY <1>1, <1>8
  <2>2. PICK k \in T : \A j \in T : k <= j
    BY <2>1, LeastNatural
  <2>3. PICK m \in D : f[m] # W[m] /\ k = hi[m] - lo[m]
    <3> HIDE DEF W, Is
    <3> QED
      BY <2>2
  <2>4. \A x \in D : hi[x] - lo[x] < hi[m] - lo[m] => f[x] = W[x]
    <3> HIDE DEF W, Is
    <3> SUFFICES ASSUME NEW x \in D, f[x] # W[x]
                 PROVE  ~(hi[x] - lo[x] < hi[m] - lo[m])
      OBVIOUS
    <3>1. hi[x] - lo[x] \in T
      OBVIOUS
    <3>2. k <= hi[x] - lo[x]
      BY <2>2, <3>1
    <3> QED
      BY <1>1, <2>3, <3>2
  <2>5. f[NULL] = << >> /\ W[NULL] = << >>
    BY <1>4, <1>8
  <2>6. f[tree[m].left] = W[tree[m].left] /\ f[tree[m].right] = W[tree[m].right]
    <3> HIDE DEF W, Is
    <3> QED
      BY <1>5, <2>4, <2>5
  <2>7. f[m] = Body(f, m)
    <3>1. m \in Pointer
      BY <1>4
    <3> HIDE DEF Body
    <3> QED
      BY <1>8, <3>1
  <2>8. Body(f, m) = Body(W, m)
    <3> HIDE DEF W
    <3> QED
      BY <2>6
  <2> HIDE DEF W, Body
  <2> QED
    BY <1>6, <2>3, <2>7, <2>8
<1> DEFINE walk == CHOOSE f : Is(f)
<1>9. Is(walk)
  <2> HIDE DEF Is, W
  <2> QED
    BY <1>7
<1>10. InOrder = walk[root]
  BY DEF InOrder
<1> HIDE DEF walk
<1>11. CASE N = 0
  <2>1. root = NULL /\ s = << >>
    BY <1>1, <1>3, <1>11, EmptySeq
  <2>2. walk[NULL] = << >>
    BY <1>4, <1>9
  <2> QED
    BY <1>2, <1>10, <2>1, <2>2 DEF D
<1>12. CASE N # 0
  <2>1. root \in D /\ lo[root] = 1 /\ hi[root] = N
    BY <1>1, <1>12
  <2>2. walk[root] = W[root]
    <3> HIDE DEF W, Is
    <3> QED
      BY <1>8, <1>9, <2>1
  <2>3. W[root] = SubSeq(s, 1, N)
    BY <1>1, <1>4, <2>1
  <2>4. SubSeq(s, 1, N) = s
    BY <1>3, SubSeqFull
  <2> QED
    BY <1>2, <1>10, <2>2, <2>3, <2>4 DEF D
<1> QED
  BY <1>11, <1>12

LEMMA SizeIs ==
    ASSUME NEW D, NEW N, NEW at, NEW lo, NEW hi, Placed(D, N, at, lo, hi)
    PROVE  IsFiniteSet(D) /\ Cardinality(D) = N
<1>1. N \in Nat /\ \A m \in D : at[m] \in 1..N
  BY DEF Placed
<1>2. PICK s : IsOrder(s, D, N, at)
  BY OrderExists
<1>3. s \in [1..N -> D]
  BY <1>2, LenProperties DEF IsOrder
<1>4. \A i, j \in 1..N : s[i] = s[j] => i = j
  BY <1>2 DEF IsOrder
<1>5. \A m \in D : \E i \in 1..N : s[i] = m
  BY <1>1, <1>2 DEF IsOrder
<1>6. s \in Bijection(1..N, D)
  BY <1>3, <1>4, <1>5 DEF Bijection, Injection, IsInjective, Surjection
<1>7. ExistsBijection(1..N, D)
  BY <1>6 DEF ExistsBijection
<1> QED
  BY <1>1, <1>7, FS_NatBijection, FS_CountingElements

-----------------------------------------------------------------------------
(* Changing one pointer                                                    *)

Place == [parent : Node \cup {NULL}, left : Node \cup {NULL}, right : Node \cup {NULL}]

SetParent(t, x, y) == [t EXCEPT ![x].parent = y]
SetLeft(t, x, y)   == [t EXCEPT ![x].left = y]
SetRight(t, x, y)  == [t EXCEPT ![x].right = y]

LEMMA SetParentIs ==
    ASSUME NEW D, NEW t \in [D -> Place], NEW x \in D, NEW y \in Node \cup {NULL}
    PROVE  LET u == SetParent(t, x, y)
           IN  /\ u \in [D -> Place]
               /\ \A m \in D : /\ u[m].left = t[m].left /\ u[m].right = t[m].right
                               /\ u[m].parent = IF m = x THEN y ELSE t[m].parent
<1> DEFINE r == [t[x] EXCEPT !.parent = y]
<1>1. t[x] \in Place
  OBVIOUS
<1>2. r \in Place /\ r.left = t[x].left /\ r.right = t[x].right /\ r.parent = y
  BY <1>1 DEF Place
<1>3. SetParent(t, x, y) = [t EXCEPT ![x] = r]
  BY DEF SetParent
<1> HIDE DEF r
<1> QED
  BY <1>2, <1>3

LEMMA SetLeftIs ==
    ASSUME NEW D, NEW t \in [D -> Place], NEW x \in D, NEW y \in Node \cup {NULL}
    PROVE  LET u == SetLeft(t, x, y)
           IN  /\ u \in [D -> Place]
               /\ \A m \in D : /\ u[m].parent = t[m].parent /\ u[m].right = t[m].right
                               /\ u[m].left = IF m = x THEN y ELSE t[m].left
<1> DEFINE r == [t[x] EXCEPT !.left = y]
<1>1. t[x] \in Place
  OBVIOUS
<1>2. r \in Place /\ r.parent = t[x].parent /\ r.right = t[x].right /\ r.left = y
  BY <1>1 DEF Place
<1>3. SetLeft(t, x, y) = [t EXCEPT ![x] = r]
  BY DEF SetLeft
<1> HIDE DEF r
<1> QED
  BY <1>2, <1>3

LEMMA SetRightIs ==
    ASSUME NEW D, NEW t \in [D -> Place], NEW x \in D, NEW y \in Node \cup {NULL}
    PROVE  LET u == SetRight(t, x, y)
           IN  /\ u \in [D -> Place]
               /\ \A m \in D : /\ u[m].parent = t[m].parent /\ u[m].left = t[m].left
                               /\ u[m].right = IF m = x THEN y ELSE t[m].right
<1> DEFINE r == [t[x] EXCEPT !.right = y]
<1>1. t[x] \in Place
  OBVIOUS
<1>2. r \in Place /\ r.parent = t[x].parent /\ r.left = t[x].left /\ r.right = y
  BY <1>1 DEF Place
<1>3. SetRight(t, x, y) = [t EXCEPT ![x] = r]
  BY DEF SetRight
<1> HIDE DEF r
<1> QED
  BY <1>2, <1>3

LEMMA LeafIs ==
    ASSUME NEW D, NEW t \in [D -> Place], NEW n \in Node \ D, NEW p \in Node \cup {NULL}
    PROVE  LET u == Leaf(t, n, p)
           IN  /\ u \in [D \cup {n} -> Place]
               /\ u[n] = [parent |-> p, left |-> NULL, right |-> NULL]
               /\ \A m \in D : u[m] = t[m]
<1>1. [parent |-> p, left |-> NULL, right |-> NULL] \in Place
  BY DEF Place
<1> QED
  BY <1>1 DEF Leaf

-----------------------------------------------------------------------------
(* The inductive invariant                                                 *)

IsTree(t, rt, lm, rm, count, N, at, lo, hi) ==
    /\ t \in [DOMAIN t -> Place]
    /\ Shape(t, rt, N, at, lo, hi)
    /\ KeysInOrder(DOMAIN t, at)
    /\ IF N = 0 THEN lm = NULL /\ rm = NULL
       ELSE lm \in DOMAIN t /\ at[lm] = 1 /\ rm \in DOMAIN t /\ at[rm] = N
    /\ count = N

TreeInv == \E N, at, lo, hi : IsTree(tree, root, leftmost, rightmost, number_of_nodes, N, at, lo, hi)

LEMMA TreeInvSound ==
    ASSUME NodeAssumption, KeyAssumption, TreeInv
    PROVE  TreeIsSound
<1> DEFINE D == Linked
<1>1. PICK N, at, lo, hi : IsTree(tree, root, leftmost, rightmost, number_of_nodes, N, at, lo, hi)
  BY DEF TreeInv
<1>2. /\ tree \in [D -> Place] /\ Shape(tree, root, N, at, lo, hi) /\ KeysInOrder(D, at)
      /\ number_of_nodes = N
  BY <1>1 DEF IsTree, Linked
<1>3. IF N = 0 THEN leftmost = NULL /\ rightmost = NULL
      ELSE leftmost \in D /\ at[leftmost] = 1 /\ rightmost \in D /\ at[rightmost] = N
  BY <1>1 DEF IsTree, Linked
<1>4. /\ N \in Nat /\ NULL \notin D
      /\ \A m \in D : /\ at[m] \in 1..N /\ lo[m] \in 1..N /\ hi[m] \in 1..N
                      /\ lo[m] <= at[m] /\ at[m] <= hi[m]
      /\ \A m \in D : at[m] = lo[m] => tree[m].left = NULL
      /\ \A m \in D : at[m] # lo[m] =>
            /\ tree[m].left \in D /\ tree[tree[m].left].parent = m
            /\ lo[tree[m].left] = lo[m] /\ hi[tree[m].left] = at[m] - 1
      /\ \A m \in D : at[m] = hi[m] => tree[m].right = NULL
      /\ \A m \in D : at[m] # hi[m] =>
            /\ tree[m].right \in D /\ tree[tree[m].right].parent = m
            /\ lo[tree[m].right] = at[m] + 1 /\ hi[tree[m].right] = hi[m]
      /\ N = 0 => root = NULL
      /\ N # 0 => root \in D /\ lo[root] = 1 /\ hi[root] = N
  BY <1>2, ShapeIs DEF Linked
<1>5. ASSUME NEW m \in D
      PROVE  LET p == tree[m].parent
             IN  \/ p = NULL /\ m = root
                 \/ p \in D /\ m # root /\ (tree[p].left = m \/ tree[p].right = m)
  BY <1>2, ParentIs DEF Linked
<1>6. TypeOK
  <2>1. Linked \subseteq Node
    BY <1>2 DEF KeysInOrder
  <2>2. ASSUME NEW m \in Linked
        PROVE  tree[m] \in Links
    <3>1. tree[m] \in Place
      BY <1>2
    <3>2. tree[m].left \in Pointer /\ tree[m].right \in Pointer /\ tree[m].parent \in Pointer
      BY <1>4, <1>5 DEF Pointer
    <3> QED
      BY <3>1, <3>2 DEF Place, Links
  <2>3. {root, leftmost, rightmost} \subseteq Pointer
    BY <1>3, <1>4 DEF Pointer
  <2> QED
    BY <1>2, <1>4, <2>1, <2>2, <2>3 DEF TypeOK
<1>7. LinksAgree
  <2>1. root = NULL <=> Linked = {}
    <3>1. CASE N = 0
      BY <1>4, <3>1
    <3>2. CASE N # 0
      BY <1>4, <3>2
    <3> QED
      BY <3>1, <3>2
  <2>2. ASSUME NEW n \in Linked
        PROVE  LET p == tree[n].parent
               IN  /\ p = NULL <=> n = root
                   /\ p # NULL => (tree[p].left = n \/ tree[p].right = n)
                   /\ \A c \in {tree[n].left, tree[n].right} \ {NULL} : tree[c].parent = n
                   /\ tree[n].left = tree[n].right => tree[n].left = NULL
    <3>1. \A c \in {tree[n].left, tree[n].right} \ {NULL} : tree[c].parent = n
      BY <1>4
    <3>2. tree[n].left = tree[n].right => tree[n].left = NULL
      BY <1>4
    <3> QED
      BY <1>4, <1>5, <3>1, <3>2
  <2> QED
    BY <2>1, <2>2 DEF LinksAgree
<1>8. IsOrder(InOrder, D, N, at)
  BY <1>2, InOrderIs
<1>9. AllReached
  <2>1. Placed(D, N, at, lo, hi)
    BY <1>2 DEF Shape, Linked
  <2>2. Cardinality(Linked) = N
    BY <2>1, SizeIs
  <2>3. /\ Len(InOrder) = N /\ DOMAIN InOrder = 1..N
        /\ \A i \in 1..N : InOrder[i] \in Linked
        /\ \A m \in Linked : InOrder[at[m]] = m
    BY <1>8 DEF IsOrder
  <2> HIDE DEF D
  <2>4. {InOrder[i] : i \in DOMAIN InOrder} = Linked
    BY <1>4, <2>3 DEF D
  <2> QED
    BY <1>2, <2>2, <2>3, <2>4 DEF AllReached
<1>10. IterationInOrder
  <2> DEFINE s == InOrder
  <2>1. /\ s \in Seq(D) /\ Len(s) = N /\ DOMAIN s = 1..N
        /\ \A i \in 1..N : s[i] \in D /\ at[s[i]] = i
        /\ \A m \in D : s[at[m]] = m
    BY <1>8 DEF IsOrder
  <2> HIDE DEF s, D
  <2>2. s = << >> <=> N = 0
    BY <2>1, EmptySeq
  <2>3. leftmost = IF s = << >> THEN NULL ELSE s[1]
    BY <1>3, <2>1, <2>2
  <2>4. rightmost = IF s = << >> THEN NULL ELSE s[Len(s)]
    BY <1>3, <2>1, <2>2
  <2>5. ASSUME NEW i \in DOMAIN s
        PROVE  /\ NextNode(s[i]) = IF i = Len(s) THEN NULL ELSE s[i + 1]
               /\ PrevNode(s[i]) = IF i = 1 THEN NULL ELSE s[i - 1]
    <3>1. i \in 1..N /\ s[i] \in D /\ at[s[i]] = i
      BY <2>1
    <3>2. IF at[s[i]] = N THEN NextNode(s[i]) = NULL
          ELSE NextNode(s[i]) \in D /\ at[NextNode(s[i])] = at[s[i]] + 1
      BY <1>2, <3>1, NextIs DEF D
    <3>3. IF at[s[i]] = 1 THEN PrevNode(s[i]) = NULL
          ELSE PrevNode(s[i]) \in D /\ at[PrevNode(s[i])] = at[s[i]] - 1
      BY <1>2, <3>1, PrevIs DEF D
    <3> QED
      BY <2>1, <3>1, <3>2, <3>3
  <2> QED
    BY <2>3, <2>4, <2>5 DEF IterationInOrder, s
<1>11. FindsKeys
  <2>1. ASSUME NEW key \in {KeyOf[n] : n \in Node}
        PROVE  LET n == Find(key)
               IN  IF \E m \in Linked : KeyOf[m] = key THEN n # NULL /\ KeyOf[n] = key ELSE n = NULL
    <3>1. key \in Int
      BY DEF KeyAssumption
    <3>2. IF \E m \in Linked : KeyOf[m] = key
          THEN Find(key) \in Linked /\ KeyOf[Find(key)] = key ELSE Find(key) = NULL
      BY <1>2, <3>1, FindIs
    <3> QED
      BY <1>4, <3>2
  <2> QED
    BY <2>1 DEF FindsKeys
<1> QED
  BY <1>6, <1>7, <1>9, <1>10, <1>11 DEF TreeIsSound

-----------------------------------------------------------------------------
(* Insertion                                                               *)

LEMMA KeysWith ==
    ASSUME NEW D, NEW at, NEW N \in Nat, \A m \in D : at[m] \in 1..N, KeyAssumption, KeysInOrder(D, at),
           NEW n \in Node \ D, NEW k \in Int,
           \A y \in D : at[y] < k => KeyOf[y] <= KeyOf[n],
           \A y \in D : at[y] >= k => KeyOf[n] <= KeyOf[y]
    PROVE  KeysInOrder(D \cup {n}, With(D \cup {n}, at, n, k, k))
<1> DEFINE E == D \cup {n}
           a == With(E, at, n, k, k)
<1>1. a[n] = k /\ \A m \in D : a[m] = IF at[m] >= k THEN at[m] + 1 ELSE at[m]
  BY DEF With
<1>2. /\ D \subseteq Node /\ E \subseteq Node
      /\ \A m, x \in D : at[m] < at[x] => KeyOf[m] <= KeyOf[x]
  BY DEF KeysInOrder
<1> HIDE DEF a
<1>3. ASSUME NEW m \in E, NEW x \in E, a[m] < a[x]
      PROVE  KeyOf[m] <= KeyOf[x]
  <2>1. KeyOf[m] \in Int /\ KeyOf[x] \in Int
    BY <1>2 DEF KeyAssumption
  <2>2. CASE m = n
    <3>1. x \in D /\ at[x] \in Int
      BY <1>1, <1>3, <2>2
    <3>2. at[x] >= k
      BY <1>1, <1>3, <2>2, <3>1
    <3> QED
      BY <2>2, <3>1, <3>2
  <2>3. CASE m # n /\ x = n
    <3>1. m \in D /\ at[m] \in Int
      BY <2>3
    <3>2. at[m] < k
      <4>1. a[m] = IF at[m] >= k THEN at[m] + 1 ELSE at[m]
        BY <1>1, <3>1
      <4>2. a[m] < k
        BY <1>1, <1>3, <2>3
      <4> QED
        BY <3>1, <4>1, <4>2
    <3> QED
      BY <2>3, <3>1, <3>2
  <2>4. CASE m # n /\ x # n
    <3>1. m \in D /\ at[m] \in Int /\ x \in D /\ at[x] \in Int
      BY <2>4
    <3>2. at[m] < at[x]
      <4>1. /\ a[m] = IF at[m] >= k THEN at[m] + 1 ELSE at[m]
            /\ a[x] = IF at[x] >= k THEN at[x] + 1 ELSE at[x]
        BY <1>1, <3>1
      <4>2. a[m] < a[x] /\ k \in Int
        BY <1>3
      <4> QED
        BY <3>1, <4>1, <4>2
    <3> QED
      BY <1>2, <3>1, <3>2
  <2> QED
    BY <2>2, <2>3, <2>4
<1>4. KeysInOrder(E, a)
  BY <1>2, <1>3 DEF KeysInOrder
<1> QED
  BY <1>4 DEF a

LEMMA AddLeft ==
    ASSUME NodeAssumption, KeyAssumption,
           NEW t, NEW rt, NEW lm, NEW rm, NEW count, NEW N, NEW at, NEW lo, NEW hi,
           IsTree(t, rt, lm, rm, count, N, at, lo, hi),
           NEW n \in Node \ DOMAIN t, NEW p \in DOMAIN t, t[p].left = NULL, KeyOf[n] <= KeyOf[p],
           \A y \in DOMAIN t : at[y] < at[p] => KeyOf[y] <= KeyOf[n]
    PROVE  LET E == DOMAIN t \cup {n}
               k == at[p]
           IN  IsTree(Leaf(SetLeft(t, p, n), n, p), rt, IF lm = p THEN n ELSE lm, rm, count + 1, N + 1,
                      With(E, at, n, k, k), With(E, lo, n, k, k + 1), With(E, hi, n, k, k))
<1> DEFINE D == DOMAIN t
           E == D \cup {n}
           k == at[p]
           v == SetLeft(t, p, n)
           u == Leaf(v, n, p)
           a == With(E, at, n, k, k)
           l == With(E, lo, n, k, k + 1)
           h == With(E, hi, n, k, k)
<1>1. /\ t \in [D -> Place] /\ Shape(t, rt, N, at, lo, hi) /\ KeysInOrder(D, at) /\ count = N
      /\ IF N = 0 THEN lm = NULL /\ rm = NULL ELSE lm \in D /\ at[lm] = 1 /\ rm \in D /\ at[rm] = N
  BY DEF IsTree
<1>2. /\ N \in Nat /\ NULL \notin D /\ \A m \in D : at[m] \in 1..N /\ \A x \in D : at[m] = at[x] => m = x
  BY <1>1, ShapeIs
<1>3. n # NULL /\ n \in Node /\ p \in Node /\ D \subseteq Node /\ n \notin D /\ p \in D
  BY <1>1 DEF NodeAssumption, KeysInOrder
<1>4. /\ v \in [D -> Place]
      /\ \A m \in D : /\ v[m].parent = t[m].parent /\ v[m].right = t[m].right
                      /\ v[m].left = IF m = p THEN n ELSE t[m].left
  BY <1>1, <1>3, SetLeftIs
<1> HIDE DEF v
<1>5. /\ u \in [E -> Place] /\ u[n].parent = p /\ u[n].left = NULL /\ u[n].right = NULL
      /\ \A m \in D : u[m] = v[m]
  <2>1. v \in [D -> Place] /\ n \in Node \ D /\ p \in Node \cup {NULL}
    BY <1>3, <1>4
  <2>2. LET x == Leaf(v, n, p)
        IN  /\ x \in [D \cup {n} -> Place]
            /\ x[n] = [parent |-> p, left |-> NULL, right |-> NULL]
            /\ \A m \in D : x[m] = v[m]
    <3> HIDE DEF D
    <3> QED
      BY ONLY <2>1, LeafIs
  <2> QED
    BY <2>2
<1> HIDE DEF u
<1>6. Shape(u, rt, N + 1, a, l, h)
  <2>1. DOMAIN u = E
    BY <1>5
  <2>2. DOMAIN u = DOMAIN t \cup {n}
    BY <2>1
  <2>3. \A m \in DOMAIN t : /\ u[m].left = IF m = p THEN n ELSE t[m].left
                            /\ u[m].right = t[m].right /\ u[m].parent = t[m].parent
    BY <1>4, <1>5
  <2>4. LET F == DOMAIN u
        IN  Shape(u, rt, N + 1, With(F, at, n, k, k), With(F, lo, n, k, k + 1), With(F, hi, n, k, k))
    BY <1>1, <1>3, <1>5, <2>2, <2>3, ShapeWithLeft
  <2> QED
    BY <2>1, <2>4
<1>7. KeysInOrder(E, a)
  <2>1. \A y \in D : at[y] >= k => KeyOf[n] <= KeyOf[y]
    <3> SUFFICES ASSUME NEW y \in D, at[y] >= k
                 PROVE  KeyOf[n] <= KeyOf[y]
      OBVIOUS
    <3>1. y = p \/ KeyOf[p] <= KeyOf[y]
      BY <1>1, <1>2 DEF KeysInOrder
    <3>2. KeyOf[n] \in Int /\ KeyOf[p] \in Int /\ KeyOf[y] \in Int
      BY <1>3 DEF KeyAssumption
    <3> QED
      BY <3>1, <3>2
  <2>2. k \in Int
    BY <1>2
  <2> HIDE DEF k, D
  <2> QED
    BY <1>1, <1>2, <1>3, <2>1, <2>2, KeysWith DEF D, k
<1>8. IF lm = p THEN n \in E /\ a[n] = 1 ELSE lm \in E /\ a[lm] = 1
  <2>1. N # 0 /\ lm \in D /\ at[lm] = 1 /\ k \in 1..N /\ a[n] = k
    BY <1>1, <1>2 DEF With
  <2>2. CASE lm = p
    BY <2>1, <2>2
  <2>3. CASE lm # p
    <3>1. a[lm] = IF at[lm] >= k THEN at[lm] + 1 ELSE at[lm]
      BY <1>3, <2>1 DEF With
    <3>2. at[lm] # k
      BY <1>2, <2>1, <2>3
    <3> HIDE DEF k, a
    <3> QED
      BY <2>1, <2>3, <3>1, <3>2
  <2> QED
    BY <2>2, <2>3
<1>9. rm \in E /\ a[rm] = N + 1
  <2>1. N # 0 /\ rm \in D /\ at[rm] = N /\ k \in 1..N
    BY <1>1, <1>2
  <2>2. a[rm] = IF at[rm] >= k THEN at[rm] + 1 ELSE at[rm]
    BY <1>3, <2>1 DEF With
  <2> QED
    BY <2>1, <2>2
<1>10. count + 1 = N + 1 /\ N + 1 # 0 /\ DOMAIN u = E
  BY <1>1, <1>2, <1>5
<1> HIDE DEF a, l, h, k, E
<1>11. IsTree(u, rt, IF lm = p THEN n ELSE lm, rm, count + 1, N + 1, a, l, h)
  BY <1>5, <1>6, <1>7, <1>8, <1>9, <1>10 DEF IsTree
<1> QED
  BY <1>11 DEF u, v, a, l, h, k, E

LEMMA AddRight ==
    ASSUME NodeAssumption, KeyAssumption,
           NEW t, NEW rt, NEW lm, NEW rm, NEW count, NEW N, NEW at, NEW lo, NEW hi,
           IsTree(t, rt, lm, rm, count, N, at, lo, hi),
           NEW n \in Node \ DOMAIN t, NEW p \in DOMAIN t, t[p].right = NULL, KeyOf[p] <= KeyOf[n],
           \A y \in DOMAIN t : at[p] < at[y] => KeyOf[n] <= KeyOf[y]
    PROVE  LET E == DOMAIN t \cup {n}
               k == at[p] + 1
           IN  IsTree(Leaf(SetRight(t, p, n), n, p), rt, lm, IF rm = p THEN n ELSE rm, count + 1, N + 1,
                      With(E, at, n, k, k), With(E, lo, n, k, k), With(E, hi, n, k, k - 1))
<1> DEFINE D == DOMAIN t
           E == D \cup {n}
           k == at[p] + 1
           v == SetRight(t, p, n)
           u == Leaf(v, n, p)
           a == With(E, at, n, k, k)
           l == With(E, lo, n, k, k)
           h == With(E, hi, n, k, k - 1)
<1>1. /\ t \in [D -> Place] /\ Shape(t, rt, N, at, lo, hi) /\ KeysInOrder(D, at) /\ count = N
      /\ IF N = 0 THEN lm = NULL /\ rm = NULL ELSE lm \in D /\ at[lm] = 1 /\ rm \in D /\ at[rm] = N
  BY DEF IsTree
<1>2. /\ N \in Nat /\ NULL \notin D /\ \A m \in D : at[m] \in 1..N /\ \A x \in D : at[m] = at[x] => m = x
  BY <1>1, ShapeIs
<1>3. n # NULL /\ n \in Node /\ p \in Node /\ D \subseteq Node /\ n \notin D /\ p \in D
  BY <1>1 DEF NodeAssumption, KeysInOrder
<1>4. /\ v \in [D -> Place]
      /\ \A m \in D : /\ v[m].parent = t[m].parent /\ v[m].left = t[m].left
                      /\ v[m].right = IF m = p THEN n ELSE t[m].right
  BY <1>1, <1>3, SetRightIs
<1> HIDE DEF v
<1>5. /\ u \in [E -> Place] /\ u[n].parent = p /\ u[n].left = NULL /\ u[n].right = NULL
      /\ \A m \in D : u[m] = v[m]
  <2>1. v \in [D -> Place] /\ n \in Node \ D /\ p \in Node \cup {NULL}
    BY <1>3, <1>4
  <2>2. LET x == Leaf(v, n, p)
        IN  /\ x \in [D \cup {n} -> Place]
            /\ x[n] = [parent |-> p, left |-> NULL, right |-> NULL]
            /\ \A m \in D : x[m] = v[m]
    <3> HIDE DEF D
    <3> QED
      BY ONLY <2>1, LeafIs
  <2> QED
    BY <2>2
<1> HIDE DEF u
<1>6. Shape(u, rt, N + 1, a, l, h)
  <2>1. DOMAIN u = E
    BY <1>5
  <2>2. DOMAIN u = DOMAIN t \cup {n}
    BY <2>1
  <2>3. \A m \in DOMAIN t : /\ u[m].left = t[m].left /\ u[m].parent = t[m].parent
                            /\ u[m].right = IF m = p THEN n ELSE t[m].right
    BY <1>4, <1>5
  <2>4. LET g == at[p] + 1
            F == DOMAIN u
        IN  Shape(u, rt, N + 1, With(F, at, n, g, g), With(F, lo, n, g, g), With(F, hi, n, g, g - 1))
    <3>1. /\ Shape(t, rt, N, at, lo, hi) /\ n \notin DOMAIN t /\ n # NULL /\ p \in DOMAIN t /\ t[p].right = NULL
          /\ u[n].left = NULL /\ u[n].right = NULL /\ u[n].parent = p
      BY <1>1, <1>3, <1>5
    <3> QED
      BY ONLY <2>2, <2>3, <3>1, ShapeWithRight
  <2> QED
    BY <2>1, <2>4
<1>7. KeysInOrder(E, a)
  <2>1. \A y \in D : at[y] < k => KeyOf[y] <= KeyOf[n]
    <3> SUFFICES ASSUME NEW y \in D, at[y] < k
                 PROVE  KeyOf[y] <= KeyOf[n]
      OBVIOUS
    <3>1. y = p \/ KeyOf[y] <= KeyOf[p]
      BY <1>1, <1>2 DEF KeysInOrder
    <3>2. KeyOf[n] \in Int /\ KeyOf[p] \in Int /\ KeyOf[y] \in Int
      BY <1>3 DEF KeyAssumption
    <3> QED
      BY <3>1, <3>2
  <2>2. k \in Int /\ \A y \in D : at[y] >= k => KeyOf[n] <= KeyOf[y]
    BY <1>2
  <2> HIDE DEF k, D
  <2> QED
    BY <1>1, <1>2, <1>3, <2>1, <2>2, KeysWith DEF D, k
<1>8. lm \in E /\ a[lm] = 1
  <2>1. N # 0 /\ lm \in D /\ at[lm] = 1 /\ k \in 2..(N + 1)
    BY <1>1, <1>2
  <2>2. a[lm] = IF at[lm] >= k THEN at[lm] + 1 ELSE at[lm]
    BY <1>3, <2>1 DEF With
  <2> QED
    BY <2>1, <2>2
<1>9. IF rm = p THEN n \in E /\ a[n] = N + 1 ELSE rm \in E /\ a[rm] = N + 1
  <2>1. N # 0 /\ rm \in D /\ at[rm] = N /\ k \in 2..(N + 1) /\ a[n] = k /\ at[p] \in 1..N
    BY <1>1, <1>2 DEF With
  <2>2. CASE rm = p
    BY <2>1, <2>2
  <2>3. CASE rm # p
    <3>1. a[rm] = IF at[rm] >= k THEN at[rm] + 1 ELSE at[rm]
      BY <1>3, <2>1 DEF With
    <3>2. at[rm] # at[p]
      BY <1>2, <2>1, <2>3
    <3>3. at[rm] >= k
      BY <1>2, <2>1, <3>2
    <3> HIDE DEF k, a
    <3> QED
      BY <2>1, <2>3, <3>1, <3>3
  <2> QED
    BY <2>2, <2>3
<1>10. count + 1 = N + 1 /\ N + 1 # 0 /\ DOMAIN u = E
  BY <1>1, <1>2, <1>5
<1> HIDE DEF a, l, h, k, E
<1>11. IsTree(u, rt, lm, IF rm = p THEN n ELSE rm, count + 1, N + 1, a, l, h)
  BY <1>5, <1>6, <1>7, <1>8, <1>9, <1>10 DEF IsTree
<1> QED
  BY <1>11 DEF u, v, a, l, h, k, E

\* The tree in a state, and in the next one, has a shape with these positions.
TreeIs(N, at, lo, hi) == IsTree(tree, root, leftmost, rightmost, number_of_nodes, N, at, lo, hi)
TreeBecomes(N, at, lo, hi) == IsTree(tree', root', leftmost', rightmost', number_of_nodes', N, at, lo, hi)

LEMMA LeafOfNone ==
    ASSUME NodeAssumption, NEW t, DOMAIN t = {}, NEW n \in Node, NEW count, count = 0,
           NEW at, NEW lo, NEW hi
    PROVE  LET E == DOMAIN t \cup {n}
           IN  IsTree(Leaf(t, n, NULL), n, n, n, count + 1, 1,
                      With(E, at, n, 1, 1), With(E, lo, n, 1, 1), With(E, hi, n, 1, 1))
<1> DEFINE u == Leaf(t, n, NULL)
           f == [m \in {n} |-> 1]
<1>1. n # NULL
  BY DEF NodeAssumption
<1>2. u = [m \in {n} |-> [parent |-> NULL, left |-> NULL, right |-> NULL]]
  BY DEF Leaf
<1>3. /\ DOMAIN u = {n} /\ u \in [{n} -> Place]
      /\ u[n].left = NULL /\ u[n].right = NULL /\ u[n].parent = NULL
  BY <1>2 DEF Place
<1> HIDE DEF u
<1>4. Shape(u, n, 1, f, f, f)
  BY <1>1, <1>3, ShapeOfOne
<1>5. KeysInOrder({n}, f)
  BY DEF KeysInOrder
<1>6. f[n] = 1
  OBVIOUS
<1>7. /\ With(DOMAIN t \cup {n}, at, n, 1, 1) = f
      /\ With(DOMAIN t \cup {n}, lo, n, 1, 1) = f
      /\ With(DOMAIN t \cup {n}, hi, n, 1, 1) = f
  BY DEF With
<1> HIDE DEF f
<1>8. IsTree(u, n, n, n, count + 1, 1, f, f, f)
  BY <1>3, <1>4, <1>5, <1>6 DEF IsTree
<1> QED
  BY <1>7, <1>8 DEF u

\* Where InsertNext puts a node.
LEMMA RightBranchStart ==
    ASSUME NEW N, NEW at, NEW lo, NEW hi, Shape(tree, root, N, at, lo, hi),
           NEW p \in Linked, tree[p].right # NULL
    PROVE  LET q == LeftEnd(tree[p].right)
           IN  q \in Linked /\ at[q] = at[p] + 1 /\ lo[q] = at[q] /\ tree[q].left = NULL
<1> DEFINE D == Linked
           r == tree[p].right
           q == LeftEnd(r)
<1>1. /\ N \in Nat /\ NULL \notin D
      /\ \A m \in D : /\ at[m] \in 1..N /\ lo[m] \in 1..N /\ hi[m] \in 1..N
                      /\ lo[m] <= at[m] /\ at[m] <= hi[m]
      /\ \A m, x \in D : lo[m] <= at[x] /\ at[x] <= hi[m] => lo[m] <= lo[x] /\ hi[x] <= hi[m]
      /\ \A m \in D : at[m] = lo[m] => tree[m].left = NULL
      /\ \A m \in D : at[m] = hi[m] => tree[m].right = NULL
      /\ \A m \in D : at[m] # hi[m] => tree[m].right \in D /\ lo[tree[m].right] = at[m] + 1
  BY ShapeIs DEF Linked
<1>2. r \in D /\ lo[r] = at[p] + 1
  BY <1>1
<1>3. q \in D /\ at[q] = lo[r]
  BY <1>2, LeftEndIs
<1> HIDE DEF D, q, r
<1>4. lo[r] <= lo[q]
  BY <1>1, <1>2, <1>3
<1>5. lo[q] = at[q]
  BY <1>1, <1>2, <1>3, <1>4
<1>6. q \in D /\ at[q] = at[p] + 1 /\ lo[q] = at[q] /\ tree[q].left = NULL
  BY <1>1, <1>2, <1>3, <1>5
<1> QED
  BY <1>6 DEF D, q, r

LEMMA InsertKeeps ==
    ASSUME NodeAssumption, KeyAssumption, NEW N, NEW at, NEW lo, NEW hi, TreeIs(N, at, lo, hi),
           NEW n \in Node \ Linked, InsertAfterSearch(n, Search(KeyOf[n]))
    PROVE  \E k \in 1..(N + 1) : \E l, h : TreeBecomes(N + 1, With(Linked \cup {n}, at, n, k, k), l, h)
<1> DEFINE D == Linked
           key == KeyOf[n]
           found == Search(key)
           p == found.node
<1>1. /\ tree \in [D -> Place] /\ Shape(tree, root, N, at, lo, hi) /\ KeysInOrder(D, at)
      /\ number_of_nodes = N
      /\ IF N = 0 THEN leftmost = NULL /\ rightmost = NULL
         ELSE leftmost \in D /\ at[leftmost] = 1 /\ rightmost \in D /\ at[rightmost] = N
  BY DEF TreeIs, IsTree, Linked
<1>2. /\ N \in Nat /\ NULL \notin D /\ D = DOMAIN tree
      /\ \A m \in D : at[m] \in 1..N
      /\ \A m, x \in D : at[m] = at[x] => m = x
      /\ \A m, x \in D : at[m] < at[x] => KeyOf[m] <= KeyOf[x]
      /\ D \subseteq Node
  BY <1>1, ShapeIs DEF Linked, KeysInOrder
<1>3. key \in Int /\ \A m \in D : KeyOf[m] \in Int
  BY <1>2 DEF KeyAssumption
<1>4. IF N = 0 THEN found = [node |-> NULL, cmp |-> 0]
      ELSE /\ p \in D /\ found.cmp \in {-1, 0, 1}
           /\ found.cmp = 0 => KeyOf[p] = key
           /\ found.cmp = -1 => /\ tree[p].left = NULL /\ key < KeyOf[p]
                                /\ \A y \in D : at[y] < at[p] => KeyOf[y] < key
           /\ found.cmp = 1 => /\ tree[p].right = NULL /\ KeyOf[p] < key
                               /\ \A y \in D : at[p] < at[y] => key < KeyOf[y]
  BY <1>1, <1>3, SearchIs
<1>5. /\ \/ p = NULL /\ InsertRoot(n)
         \/ p # NULL /\ found.cmp < 0 /\ InsertLeft(n, p)
         \/ p # NULL /\ found.cmp > 0 /\ InsertRight(n, p)
         \/ p # NULL /\ found.cmp = 0 /\ tree[p].right = NULL /\ InsertRight(n, p)
         \/ p # NULL /\ found.cmp = 0 /\ tree[p].right # NULL /\ InsertNext(n, p)
      /\ number_of_nodes' = number_of_nodes + 1
  BY DEF InsertAfterSearch
<1> HIDE DEF found
<1>6. IsTree(tree, root, leftmost, rightmost, number_of_nodes, N, at, lo, hi)
  BY DEF TreeIs
<1>7. CASE N = 0
  <2>1. InsertRoot(n)
    BY <1>2, <1>4, <1>5, <1>7
  <2>2. DOMAIN tree = {} /\ number_of_nodes = 0
    BY <1>1, <1>2, <1>7
  <2>3. LET E == DOMAIN tree \cup {n}
        IN  IsTree(Leaf(tree, n, NULL), n, n, n, number_of_nodes + 1, 1,
                   With(E, at, n, 1, 1), With(E, lo, n, 1, 1), With(E, hi, n, 1, 1))
    BY <2>2, LeafOfNone
  <2>4. TreeBecomes(1, With(D \cup {n}, at, n, 1, 1), With(D \cup {n}, lo, n, 1, 1), With(D \cup {n}, hi, n, 1, 1))
    BY <1>5, <2>1, <2>3 DEF InsertRoot, TreeBecomes, Linked
  <2>5. N + 1 = 1 /\ 1 \in 1..1
    BY <1>7
  <2> HIDE DEF D
  <2> QED
    BY <2>4, <2>5 DEF D
<1>8. ASSUME NEW q \in D, tree[q].left = NULL, key <= KeyOf[q],
             \A y \in D : at[y] < at[q] => KeyOf[y] <= key,
             tree' = Leaf(SetLeft(tree, q, n), n, q),
             leftmost' = IF leftmost = q THEN n ELSE leftmost,
             UNCHANGED <<root, rightmost>>
      PROVE  \E k \in 1..(N + 1) : \E l, h : TreeBecomes(N + 1, With(Linked \cup {n}, at, n, k, k), l, h)
  <2> DEFINE E == DOMAIN tree \cup {n}
             k == at[q]
  <2>1. IsTree(Leaf(SetLeft(tree, q, n), n, q), root, IF leftmost = q THEN n ELSE leftmost, rightmost,
               number_of_nodes + 1, N + 1,
               With(E, at, n, k, k), With(E, lo, n, k, k + 1), With(E, hi, n, k, k))
    BY <1>6, <1>8, AddLeft DEF Linked
  <2>2. TreeBecomes(N + 1, With(E, at, n, k, k), With(E, lo, n, k, k + 1), With(E, hi, n, k, k))
    BY <1>5, <1>8, <2>1 DEF TreeBecomes
  <2>3. k \in 1..(N + 1) /\ E = Linked \cup {n}
    BY <1>2 DEF Linked
  <2> HIDE DEF k, E
  <2> QED
    BY <2>2, <2>3
<1>9. ASSUME NEW q \in D, tree[q].right = NULL, KeyOf[q] <= key,
             \A y \in D : at[q] < at[y] => key <= KeyOf[y], InsertRight(n, q)
      PROVE  \E k \in 1..(N + 1) : \E l, h : TreeBecomes(N + 1, With(Linked \cup {n}, at, n, k, k), l, h)
  <2> DEFINE E == DOMAIN tree \cup {n}
             k == at[q] + 1
  <2>1. IsTree(Leaf(SetRight(tree, q, n), n, q), root, leftmost, IF rightmost = q THEN n ELSE rightmost,
               number_of_nodes + 1, N + 1,
               With(E, at, n, k, k), With(E, lo, n, k, k), With(E, hi, n, k, k - 1))
    BY <1>6, <1>9, AddRight DEF Linked
  <2>2. TreeBecomes(N + 1, With(E, at, n, k, k), With(E, lo, n, k, k), With(E, hi, n, k, k - 1))
    BY <1>5, <1>9, <2>1 DEF TreeBecomes, InsertRight, SetRight
  <2>3. k \in 1..(N + 1) /\ E = Linked \cup {n}
    BY <1>2 DEF Linked
  <2> HIDE DEF k, E
  <2> QED
    BY <2>2, <2>3
<1>10. CASE N # 0
  <2>1. p \in D /\ p # NULL /\ found.cmp \in {-1, 0, 1} /\ KeyOf[p] \in Int
    BY <1>2, <1>3, <1>4, <1>10
  <2>2. CASE found.cmp = -1
    <3>1. InsertLeft(n, p)
      BY <1>5, <2>1, <2>2
    <3>2. key <= KeyOf[p]
      BY <1>3, <1>4, <1>10, <2>1, <2>2
    <3>3. \A y \in D : at[y] < at[p] => KeyOf[y] <= key
      BY <1>3, <1>4, <1>10, <2>1, <2>2
    <3>4. tree[p].left = NULL
      BY <1>4, <1>10, <2>2
    <3>5. /\ tree' = Leaf(SetLeft(tree, p, n), n, p)
          /\ leftmost' = IF leftmost = p THEN n ELSE leftmost
          /\ UNCHANGED <<root, rightmost>>
      BY <3>1 DEF InsertLeft, SetLeft
    <3> HIDE DEF p, key, D
    <3> QED
      BY <1>8, <2>1, <3>2, <3>3, <3>4, <3>5
  <2>3. CASE found.cmp = 1
    <3>1. InsertRight(n, p)
      BY <1>5, <2>1, <2>3
    <3>2. KeyOf[p] <= key
      BY <1>3, <1>4, <1>10, <2>1, <2>3
    <3>3. \A y \in D : at[p] < at[y] => key <= KeyOf[y]
      BY <1>3, <1>4, <1>10, <2>1, <2>3
    <3>4. tree[p].right = NULL
      BY <1>4, <1>10, <2>3
    <3> HIDE DEF p, key, D
    <3> QED
      BY <1>9, <2>1, <3>1, <3>2, <3>3, <3>4
  <2>4. CASE found.cmp = 0 /\ tree[p].right = NULL
    <3>1. InsertRight(n, p)
      BY <1>5, <2>1, <2>4
    <3>2. KeyOf[p] = key /\ KeyOf[p] <= key
      BY <1>3, <1>4, <1>10, <2>1, <2>4
    <3>3. \A y \in D : at[p] < at[y] => key <= KeyOf[y]
      BY <1>2, <2>1, <3>2
    <3>4. tree[p].right = NULL
      BY <2>4
    <3> HIDE DEF p, key, D
    <3> QED
      BY <1>9, <2>1, <3>1, <3>2, <3>3, <3>4
  <2>5. CASE found.cmp = 0 /\ tree[p].right # NULL
    <3> DEFINE q == LeftEnd(tree[p].right)
    <3>1. InsertNext(n, p)
      BY <1>5, <2>1, <2>5
    <3>2. KeyOf[p] = key
      BY <1>3, <1>4, <1>10, <2>1, <2>5
    <3>3. q \in D /\ at[q] = at[p] + 1 /\ tree[q].left = NULL
      BY <1>1, <2>1, <2>5, RightBranchStart
    <3>4. tree' = Leaf(SetLeft(tree, q, n), n, q) /\ UNCHANGED <<root, leftmost, rightmost>>
      BY <3>1 DEF InsertNext, SetLeft
    <3> HIDE DEF q, p, key, D
    <3>5. at[p] \in 1..N /\ at[q] \in 1..N
      BY <1>2, <2>1, <3>3
    <3>6. key <= KeyOf[q]
      BY <1>2, <2>1, <3>2, <3>3, <3>5
    <3>7. ASSUME NEW y \in D, at[y] < at[q]
          PROVE  KeyOf[y] <= key
      <4>1. at[y] \in 1..N
        BY <1>2
      <4>2. at[y] = at[p] \/ at[y] < at[p]
        BY <3>3, <3>5, <3>7, <4>1
      <4>3. y = p \/ KeyOf[y] <= KeyOf[p]
        BY <1>2, <2>1, <4>2
      <4> QED
        BY <1>3, <2>1, <3>2, <4>3
    <3>8. leftmost # q
      BY <1>1, <1>10, <3>3, <3>5
    <3>9. leftmost' = IF leftmost = q THEN n ELSE leftmost
      BY <3>4, <3>8
    <3> QED
      BY <1>8, <3>3, <3>4, <3>6, <3>7, <3>9
  <2> QED
    BY <2>1, <2>2, <2>3, <2>4, <2>5
<1> QED
  BY <1>7, <1>10

-----------------------------------------------------------------------------
(* Removal                                                                 *)

\* Up and down agree.
LinksMatch(t, rt) ==
    /\ NULL \notin DOMAIN t
    /\ \A m \in DOMAIN t : /\ t[m].left \in DOMAIN t \cup {NULL}
                           /\ t[m].right \in DOMAIN t \cup {NULL}
                           /\ t[m].parent \in DOMAIN t \cup {NULL}
    /\ \A m \in DOMAIN t : t[m].left # NULL => t[t[m].left].parent = m
    /\ \A m \in DOMAIN t : t[m].right # NULL => t[t[m].right].parent = m
    /\ \A m \in DOMAIN t : t[m].left # NULL => t[m].left # t[m].right
    /\ \A m \in DOMAIN t : t[m].parent = NULL <=> m = rt
    /\ \A m \in DOMAIN t : t[m].parent # NULL =>
          (t[t[m].parent].left = m <=> t[t[m].parent].right # m)

LEMMA LinksDoMatch ==
    ASSUME NEW t, NEW rt, NEW N, NEW at, NEW lo, NEW hi, Shape(t, rt, N, at, lo, hi)
    PROVE  LinksMatch(t, rt)
<1> DEFINE D == DOMAIN t
<1>1. /\ N \in Nat /\ NULL \notin D
      /\ \A m \in D : /\ at[m] \in 1..N /\ lo[m] \in 1..N /\ hi[m] \in 1..N
                      /\ lo[m] <= at[m] /\ at[m] <= hi[m]
      /\ \A m \in D : /\ at[m] = lo[m] => t[m].left = NULL
                      /\ at[m] # lo[m] => /\ t[m].left \in D /\ t[t[m].left].parent = m
                                          /\ hi[t[m].left] = at[m] - 1
      /\ \A m \in D : /\ at[m] = hi[m] => t[m].right = NULL
                      /\ at[m] # hi[m] => /\ t[m].right \in D /\ t[t[m].right].parent = m
                                          /\ hi[t[m].right] = hi[m]
  BY ShapeIs
<1>2. ASSUME NEW m \in D
      PROVE  LET p == t[m].parent
             IN  \/ p = NULL /\ m = rt
                 \/ p \in D /\ m # rt /\ t[p].left = m /\ t[p].right # m
                 \/ p \in D /\ m # rt /\ t[p].left # m /\ t[p].right = m
  BY ParentIs
<1>3. \A m \in D : /\ t[m].left \in D \cup {NULL} /\ t[m].right \in D \cup {NULL}
                   /\ t[m].parent \in D \cup {NULL}
  BY <1>1, <1>2
<1>4. \A m \in D : /\ t[m].left # NULL => t[t[m].left].parent = m
                   /\ t[m].right # NULL => t[t[m].right].parent = m
  BY <1>1
<1>5. ASSUME NEW m \in D, t[m].left # NULL
      PROVE  t[m].left # t[m].right
  <2>1. at[m] # lo[m] /\ hi[t[m].left] = at[m] - 1
    BY <1>1, <1>5
  <2>2. at[m] = hi[m] \/ hi[t[m].right] = hi[m]
    BY <1>1
  <2>3. at[m] = hi[m] => t[m].right = NULL
    BY <1>1
  <2>4. at[m] \in Int /\ hi[m] \in Int /\ at[m] <= hi[m]
    BY <1>1
  <2> QED
    BY <1>5, <2>1, <2>2, <2>3, <2>4
<1>6. \A m \in D : /\ t[m].parent = NULL <=> m = rt
                   /\ t[m].parent # NULL => (t[t[m].parent].left = m <=> t[t[m].parent].right # m)
  BY <1>1, <1>2
<1> QED
  BY <1>1, <1>3, <1>4, <1>5, <1>6 DEF LinksMatch

LEMMA PutIs ==
    ASSUME NEW D, NEW t \in [D -> Place], NEW n \in D, NEW child \in Node \cup {NULL},
           tree[n].parent \in D \cup {NULL}, PutInPlace(t, n, child)
    PROVE  LET p == tree[n].parent
           IN  /\ DOMAIN tree' = D \ {n} /\ tree' \in [D \ {n} -> Place]
               /\ root' = IF p = NULL THEN child ELSE root
               /\ \A m \in D \ {n} :
                     /\ tree'[m].parent = t[m].parent
                     /\ tree'[m].left = IF p # NULL /\ m = p /\ t[p].left = n THEN child ELSE t[m].left
                     /\ tree'[m].right = IF p # NULL /\ m = p /\ t[p].left # n THEN child ELSE t[m].right
<1> DEFINE p == tree[n].parent
           linked == IF p = NULL THEN t
                     ELSE IF t[p].left = n THEN SetLeft(t, p, child) ELSE SetRight(t, p, child)
<1>1. tree' = [m \in DOMAIN linked \ {n} |-> linked[m]] /\ root' = IF p = NULL THEN child ELSE root
  BY DEF PutInPlace, SetLeft, SetRight
<1>2. p = NULL \/ p \in D
  OBVIOUS
<1> HIDE DEF p
<1>3. /\ linked \in [D -> Place]
      /\ \A m \in D :
            /\ linked[m].parent = t[m].parent
            /\ linked[m].left = IF p # NULL /\ m = p /\ t[p].left = n THEN child ELSE t[m].left
            /\ linked[m].right = IF p # NULL /\ m = p /\ t[p].left # n THEN child ELSE t[m].right
  <2>1. CASE p = NULL
    BY <2>1
  <2>2. CASE p # NULL /\ t[p].left = n
    <3>1. p \in D /\ linked = SetLeft(t, p, child)
      BY <1>2, <2>2
    <3>2. /\ linked \in [D -> Place]
          /\ \A m \in D : /\ linked[m].parent = t[m].parent /\ linked[m].right = t[m].right
                          /\ linked[m].left = IF m = p THEN child ELSE t[m].left
      BY <3>1, SetLeftIs
    <3> HIDE DEF linked
    <3> QED
      BY <2>2, <3>2
  <2>3. CASE p # NULL /\ t[p].left # n
    <3>1. p \in D /\ linked = SetRight(t, p, child)
      BY <1>2, <2>3
    <3>2. /\ linked \in [D -> Place]
          /\ \A m \in D : /\ linked[m].parent = t[m].parent /\ linked[m].left = t[m].left
                          /\ linked[m].right = IF m = p THEN child ELSE t[m].right
      BY <3>1, SetRightIs
    <3> HIDE DEF linked
    <3> QED
      BY <2>3, <3>2
  <2> QED
    BY <2>1, <2>2, <2>3
<1> HIDE DEF linked
<1>4. /\ DOMAIN tree' = D \ {n} /\ tree' \in [D \ {n} -> Place]
      /\ \A m \in D \ {n} : tree'[m] = linked[m]
  BY <1>1, <1>3
<1>5. root' = IF p = NULL THEN child ELSE root
  BY <1>1
<1>6. ASSUME NEW m \in D \ {n}
      PROVE  /\ tree'[m].parent = t[m].parent
             /\ tree'[m].left = IF p # NULL /\ m = p /\ t[p].left = n THEN child ELSE t[m].left
             /\ tree'[m].right = IF p # NULL /\ m = p /\ t[p].left # n THEN child ELSE t[m].right
  BY <1>3, <1>4
<1> QED
  BY <1>4, <1>5, <1>6 DEF p

LEMMA KeysWithout ==
    ASSUME NEW D, NEW at, NEW N \in Nat, \A m \in D : at[m] \in 1..N, KeysInOrder(D, at),
           \A m, x \in D : at[m] = at[x] => m = x, NEW n \in D
    PROVE  KeysInOrder(D \ {n}, Without(D \ {n}, at, at[n]))
<1> DEFINE E == D \ {n}
           a == Without(E, at, at[n])
<1>1. \A m \in E : a[m] = IF at[m] > at[n] THEN at[m] - 1 ELSE at[m]
  BY DEF Without
<1> HIDE DEF a
<1>2. ASSUME NEW m \in E, NEW x \in E, a[m] < a[x]
      PROVE  at[m] < at[x]
  <2>1. /\ a[m] = IF at[m] > at[n] THEN at[m] - 1 ELSE at[m]
        /\ a[x] = IF at[x] > at[n] THEN at[x] - 1 ELSE at[x]
    BY <1>1
  <2>2. at[m] \in Int /\ at[x] \in Int /\ at[n] \in Int
    OBVIOUS
  <2>3. at[m] # at[n] /\ at[x] # at[n]
    OBVIOUS
  <2> QED
    BY <1>2, <2>1, <2>2, <2>3
<1>3. KeysInOrder(E, a)
  BY <1>2 DEF KeysInOrder
<1> QED
  BY <1>3 DEF a

\* A node s next to n in order, which has at most one child c, leaves its place
\* to c and takes the place of n.
Raised(t, n, s, c, u) ==
    /\ OnlyChild(t, s, c)
    /\ DOMAIN u = DOMAIN t \ {n}
    /\ u[s].left = IF t[n].left = s THEN c ELSE t[n].left
    /\ u[s].right = IF t[n].right = s THEN c ELSE t[n].right
    /\ u[s].parent = t[n].parent
    /\ \A m \in DOMAIN u \ {s} :
          /\ u[m].left = IF t[m].left = s THEN c ELSE IF t[m].left = n THEN s ELSE t[m].left
          /\ u[m].right = IF t[m].right = s THEN c ELSE IF t[m].right = n THEN s ELSE t[m].right
          /\ u[m].parent = IF m = c THEN IF t[s].parent = n THEN s ELSE t[s].parent
                           ELSE IF t[m].parent = n THEN s ELSE t[m].parent

LEMMA ShapeRaised ==
    ASSUME NEW t, NEW rt, NEW N, NEW at, NEW lo, NEW hi, Shape(t, rt, N, at, lo, hi),
           NEW n \in DOMAIN t, NEW s \in DOMAIN t, s # n, s # rt, t[n].parent # s,
           at[s] = at[n] + 1 \/ at[s] = at[n] - 1,
           NEW c, NEW u, Raised(t, n, s, c, u)
    PROVE  \E l, h : Shape(u, IF rt = n THEN s ELSE rt, N - 1, Without(DOMAIN u, at, at[n]), l, h)
<1> USE DEF Raised
<1> DEFINE D == DOMAIN t
           F == D \ {s}
           E == D \ {n}
           left(m) == IF t[m].left = s THEN c ELSE t[m].left
           right(m) == IF t[m].right = s THEN c ELSE t[m].right
           parent(m) == IF m = c THEN t[s].parent ELSE t[m].parent
           v == [m \in F |-> [left |-> left(m), right |-> right(m), parent |-> parent(m)]]
           fat == Without(F, at, at[s])
           flo == Without(F, lo, at[s])
           fhi == EndsWithout(F, hi, at[s])
<1>1. LinksMatch(t, rt)
  BY LinksDoMatch
<1>2. /\ NULL \notin D
      /\ \A m \in D : t[m].left \in D \cup {NULL} /\ t[m].right \in D \cup {NULL} /\ t[m].parent \in D \cup {NULL}
      /\ \A m \in D : t[m].left # NULL => t[t[m].left].parent = m
      /\ \A m \in D : t[m].right # NULL => t[t[m].right].parent = m
      /\ \A m \in D : t[m].parent = NULL <=> m = rt
  BY <1>1 DEF LinksMatch
<1>3. c # n /\ n # NULL /\ s # NULL /\ t[s].parent # NULL
  <2>1. c # NULL => t[c].parent = s
    BY <1>2 DEF OnlyChild
  <2> QED
    BY <1>2, <2>1
<1>4. DOMAIN v = F /\ \A m \in F : v[m].left = left(m) /\ v[m].right = right(m) /\ v[m].parent = parent(m)
  OBVIOUS
<1> HIDE DEF v
<1>5. Shape(v, rt, N - 1, fat, flo, fhi)
  <2>1. Shape(t, rt, N, at, lo, hi) /\ s \in DOMAIN t
    OBVIOUS
  <2>2. Spliced(t, rt, s, c, v, rt)
    BY <1>4 DEF Spliced
  <2>3. LET k == at[s]
            G == DOMAIN v
        IN  Shape(v, rt, N - 1, Without(G, at, k), Without(G, lo, k), EndsWithout(G, hi, k))
    BY ONLY <2>1, <2>2, ShapeWithout
  <2> QED
    BY <1>4, <2>3
<1>6. DOMAIN u = E /\ E = (F \ {n}) \cup {s}
  OBVIOUS
<1>7. ASSUME NEW m \in E
      PROVE  LET o == IF m = s THEN n ELSE m
             IN  /\ u[m].left = Replaced(v[o].left, n, s)
                 /\ u[m].right = Replaced(v[o].right, n, s)
                 /\ u[m].parent = Replaced(v[o].parent, n, s)
  <2>1. CASE m = s
    <3>1. /\ v[n].left = left(n) /\ v[n].right = right(n) /\ v[n].parent = t[n].parent
      BY <1>3, <1>4
    <3>2. left(n) # n /\ right(n) # n /\ t[n].parent # n
      <4>1. t[n].left # n /\ t[n].right # n /\ t[n].parent # n
        <5>1. /\ N \in Nat
              /\ \A x \in D : /\ at[x] \in 1..N /\ lo[x] \in 1..N /\ hi[x] \in 1..N
                              /\ lo[x] <= at[x] /\ at[x] <= hi[x]
              /\ \A x \in D : /\ at[x] = lo[x] => t[x].left = NULL
                              /\ at[x] # lo[x] => /\ t[x].left \in D /\ hi[t[x].left] = at[x] - 1
              /\ \A x \in D : /\ at[x] = hi[x] => t[x].right = NULL
                              /\ at[x] # hi[x] => /\ t[x].right \in D /\ lo[t[x].right] = at[x] + 1
          BY ShapeIs
        <5>2. t[n].left # n
          BY <1>3, <5>1
        <5>3. t[n].right # n
          BY <1>3, <5>1
        <5>4. t[n].parent # n
          <6>1. t[n].parent # NULL => (t[t[n].parent].left = n <=> t[t[n].parent].right # n)
            BY <1>1 DEF LinksMatch
          <6> QED
            BY <1>3, <5>2, <5>3, <6>1
        <5> QED
          BY <5>2, <5>3, <5>4
      <4> QED
        BY <1>3, <4>1
    <3> QED
      BY <2>1, <3>1, <3>2 DEF Replaced
  <2>2. CASE m # s
    <3>1. m \in DOMAIN u \ {s} /\ m \in F
      BY <2>2
    <3>2. /\ u[m].left = IF t[m].left = s THEN c ELSE IF t[m].left = n THEN s ELSE t[m].left
          /\ u[m].right = IF t[m].right = s THEN c ELSE IF t[m].right = n THEN s ELSE t[m].right
          /\ u[m].parent = IF m = c THEN IF t[s].parent = n THEN s ELSE t[s].parent
                           ELSE IF t[m].parent = n THEN s ELSE t[m].parent
      BY <3>1
    <3>3. /\ v[m].left = left(m) /\ v[m].right = right(m) /\ v[m].parent = parent(m)
      BY <1>4, <3>1
    <3>4. u[m].left = Replaced(v[m].left, n, s)
      BY <1>3, <3>2, <3>3 DEF Replaced
    <3>5. u[m].right = Replaced(v[m].right, n, s)
      BY <1>3, <3>2, <3>3 DEF Replaced
    <3>6. u[m].parent = Replaced(v[m].parent, n, s)
      BY <3>2, <3>3 DEF Replaced
    <3> QED
      BY <2>2, <3>4, <3>5, <3>6
  <2> QED
    BY <2>1, <2>2
<1>8. Shape(u, Replaced(rt, n, s), N - 1, InPlace(E, fat, n, s), InPlace(E, flo, n, s), InPlace(E, fhi, n, s))
  <2>1. /\ Shape(v, rt, N - 1, fat, flo, fhi) /\ n \in DOMAIN v /\ s \notin DOMAIN v /\ s # NULL
        /\ DOMAIN u = (DOMAIN v \ {n}) \cup {s}
    BY <1>3, <1>4, <1>5, <1>6
  <2>2. \A m \in DOMAIN u :
          LET o == IF m = s THEN n ELSE m
          IN  /\ u[m].left = Replaced(v[o].left, n, s)
              /\ u[m].right = Replaced(v[o].right, n, s)
              /\ u[m].parent = Replaced(v[o].parent, n, s)
    BY <1>6, <1>7
  <2> HIDE DEF fat, flo, fhi, E
  <2>3. LET G == DOMAIN u
        IN  Shape(u, Replaced(rt, n, s), N - 1, InPlace(G, fat, n, s), InPlace(G, flo, n, s), InPlace(G, fhi, n, s))
    BY ONLY <2>1, <2>2, ShapeReplaced
  <2> QED
    BY <1>6, <2>3
<1>9. InPlace(E, fat, n, s) = Without(E, at, at[n])
  <2>1. \A m \in D : at[m] \in Int
    <3>1. N \in Nat /\ \A m \in D : at[m] \in 1..N
      BY ShapeIs
    <3> QED
      BY <3>1
  <2>2. \A m, x \in D : at[m] = at[x] => m = x
    BY ShapeIs
  <2>3. ASSUME NEW m \in E
        PROVE  fat[IF m = s THEN n ELSE m] = IF at[m] > at[n] THEN at[m] - 1 ELSE at[m]
    <3>1. CASE m = s
      <4>1. fat[n] = IF at[n] > at[s] THEN at[n] - 1 ELSE at[n]
        BY DEF Without
      <4>2. at[n] \in Int /\ at[s] \in Int
        BY <2>1
      <4> QED
        BY <3>1, <4>1, <4>2
    <3>2. CASE m # s
      <4>1. fat[m] = IF at[m] > at[s] THEN at[m] - 1 ELSE at[m]
        BY <3>2 DEF Without
      <4>2. at[m] \in Int /\ at[n] \in Int /\ at[s] \in Int
        BY <2>1
      <4>3. at[m] # at[n] /\ at[m] # at[s]
        BY <2>2, <3>2
      <4> HIDE DEF fat
      <4> QED
        BY <3>2, <4>1, <4>2, <4>3
    <3> QED
      BY <3>1, <3>2
  <2> HIDE DEF fat
  <2>4. InPlace(E, fat, n, s) = [m \in E |-> IF at[m] > at[n] THEN at[m] - 1 ELSE at[m]]
    BY <2>3 DEF InPlace
  <2> QED
    BY <2>4 DEF Without
<1>10. Replaced(rt, n, s) = IF rt = n THEN s ELSE rt
  BY DEF Replaced
<1> HIDE DEF E, fat, flo, fhi
<1> QED
  BY <1>6, <1>8, <1>9, <1>10

\* A node, its parent and its children are different nodes.
Family(n, at, lo, hi) ==
    LET p == tree[n].parent
        l == tree[n].left
        r == tree[n].right
    IN  /\ p \in Linked \cup {NULL} /\ l \in Linked \cup {NULL} /\ r \in Linked \cup {NULL}
        /\ p # n /\ l # n /\ r # n
        /\ p = NULL <=> n = root
        /\ p # NULL => lo[p] <= at[n] /\ at[n] <= hi[p]
        /\ l = NULL => at[n] = lo[n]
        /\ l # NULL => /\ l # r /\ l # p /\ l # root /\ tree[l].parent = n
                       /\ lo[l] = lo[n] /\ hi[l] = at[n] - 1
        /\ r = NULL => at[n] = hi[n]
        /\ r # NULL => /\ r # p /\ r # root /\ tree[r].parent = n
                       /\ lo[r] = at[n] + 1 /\ hi[r] = hi[n]

LEMMA FamilyIs ==
    ASSUME NEW N, NEW at, NEW lo, NEW hi, Shape(tree, root, N, at, lo, hi), NEW n \in Linked
    PROVE  Family(n, at, lo, hi)
<1> DEFINE D == Linked
           p == tree[n].parent
           l == tree[n].left
           r == tree[n].right
<1>1. /\ N \in Nat /\ NULL \notin D
      /\ \A m \in D : /\ at[m] \in 1..N /\ lo[m] \in 1..N /\ hi[m] \in 1..N
                      /\ lo[m] <= at[m] /\ at[m] <= hi[m]
  BY ShapeIs DEF Linked
<1>2. /\ at[n] = lo[n] => l = NULL
      /\ at[n] # lo[n] => l \in D /\ tree[l].parent = n /\ lo[l] = lo[n] /\ hi[l] = at[n] - 1
  BY ShapeIs DEF Linked
<1>3. /\ at[n] = hi[n] => r = NULL
      /\ at[n] # hi[n] => r \in D /\ tree[r].parent = n /\ lo[r] = at[n] + 1 /\ hi[r] = hi[n]
  BY ShapeIs DEF Linked
<1>4. \/ p = NULL /\ n = root /\ lo[n] = 1 /\ hi[n] = N
      \/ p \in D /\ n # root /\ tree[p].left = n /\ tree[p].right # n /\ lo[n] = lo[p] /\ hi[n] = at[p] - 1
      \/ p \in D /\ n # root /\ tree[p].left # n /\ tree[p].right = n /\ lo[n] = at[p] + 1 /\ hi[n] = hi[p]
  BY ParentIs DEF Linked
<1>5. LinksMatch(tree, root)
  BY LinksDoMatch
<1>6. \A m \in D : tree[m].parent = NULL <=> m = root
  BY <1>5 DEF LinksMatch, Linked
<1> HIDE DEF D, p, l, r
<1>7. p # NULL => lo[p] <= at[n] /\ at[n] <= hi[p] /\ p \in D
  <2>1. n \in D
    BY DEF D
  <2> QED
    BY <1>1, <1>4, <2>1
<1>8. n \in D /\ n # NULL
  BY <1>1 DEF D
<1>9. p # n
  <2>1. p \in D => p # n
    BY <1>1, <1>4, <1>8
  <2> QED
    BY <1>1, <1>4, <1>8, <2>1
<1>10. l # n /\ (l # NULL => l # p /\ l # root)
  <2>1. CASE l = NULL
    BY <1>8, <2>1
  <2>2. CASE l # NULL
    <3>1. l \in D /\ tree[l].parent = n /\ hi[l] = at[n] - 1
      BY <1>2, <2>2
    <3>2. l # n
      BY <1>1, <1>8, <3>1
    <3>3. l # p
      BY <1>1, <1>7, <1>8, <3>1, <2>2
    <3>4. l # root
      BY <1>6, <1>8, <3>1
    <3> QED
      BY <3>2, <3>3, <3>4
  <2> QED
    BY <2>1, <2>2
<1>11. r # n /\ (r # NULL => r # p /\ r # root)
  <2>1. CASE r = NULL
    BY <1>8, <2>1
  <2>2. CASE r # NULL
    <3>1. r \in D /\ tree[r].parent = n /\ lo[r] = at[n] + 1
      BY <1>3, <2>2
    <3>2. r # n
      BY <1>1, <1>8, <3>1
    <3>3. r # p
      BY <1>1, <1>7, <1>8, <3>1, <2>2
    <3>4. r # root
      BY <1>6, <1>8, <3>1
    <3> QED
      BY <3>2, <3>3, <3>4
  <2> QED
    BY <2>1, <2>2
<1>12. l # NULL => l # r
  <2>1. LinksMatch(tree, root) /\ n \in DOMAIN tree
    BY <1>5 DEF Linked
  <2> QED
    BY <2>1 DEF LinksMatch, l, r
<1>13. /\ p \in D \cup {NULL} /\ l \in D \cup {NULL} /\ r \in D \cup {NULL}
       /\ p = NULL <=> n = root
  BY <1>1, <1>2, <1>3, <1>4
<1>14. /\ l = NULL => at[n] = lo[n]
       /\ l # NULL => tree[l].parent = n /\ lo[l] = lo[n] /\ hi[l] = at[n] - 1
  BY <1>1, <1>2
<1>15. /\ r = NULL => at[n] = hi[n]
       /\ r # NULL => tree[r].parent = n /\ lo[r] = at[n] + 1 /\ hi[r] = hi[n]
  BY <1>1, <1>3
<1> QED
  BY <1>7, <1>9, <1>10, <1>11, <1>12, <1>13, <1>14, <1>15 DEF Family, D, p, l, r

\* What removal needs of the tree.
Removable(n, N, at, lo, hi) ==
    /\ Shape(tree, root, N, at, lo, hi)
    /\ tree \in [Linked -> Place] /\ Linked \subseteq Node /\ n \in Linked

\* What it comes to.
Removed(n, N, at) ==
    /\ DOMAIN tree' = Linked \ {n} /\ tree' \in [Linked \ {n} -> Place]
    /\ \E l, h : Shape(tree', root', N - 1, Without(Linked \ {n}, at, at[n]), l, h)

LEMMA RemovedDirectly ==
    ASSUME NEW N, NEW at, NEW lo, NEW hi, NEW n, Removable(n, N, at, lo, hi), NEW c,
           OnlyChild(tree, n, c),
           NEW t \in [Linked -> Place],
           \A m \in Linked : /\ t[m].left = tree[m].left /\ t[m].right = tree[m].right
                             /\ t[m].parent = IF m = c THEN tree[n].parent ELSE tree[m].parent,
           PutInPlace(t, n, c)
    PROVE  Removed(n, N, at)
<1> DEFINE D == Linked
           E == D \ {n}
           p == tree[n].parent
<1>1. /\ Shape(tree, root, N, at, lo, hi) /\ tree \in [D -> Place] /\ D \subseteq Node /\ n \in D
  BY DEF Removable
<1>2. LinksMatch(tree, root)
  BY <1>1, LinksDoMatch
<1>3. /\ NULL \notin D
      /\ \A m \in D : /\ tree[m].left \in D \cup {NULL} /\ tree[m].right \in D \cup {NULL}
                      /\ tree[m].parent \in D \cup {NULL}
      /\ \A m \in D : tree[m].left # NULL => tree[tree[m].left].parent = m
      /\ \A m \in D : tree[m].right # NULL => tree[tree[m].right].parent = m
      /\ p = NULL <=> n = root
      /\ p # NULL => (tree[p].left = n <=> tree[p].right # n)
  BY <1>1, <1>2 DEF LinksMatch, Linked
<1>4. n # NULL /\ n \in Node /\ p \in D \cup {NULL} /\ c \in D \cup {NULL} /\ c \in Node \cup {NULL}
  BY <1>1, <1>3 DEF OnlyChild
<1>5. /\ DOMAIN tree' = E /\ tree' \in [E -> Place]
      /\ root' = IF p = NULL THEN c ELSE root
      /\ \A m \in E : /\ tree'[m].parent = t[m].parent
                      /\ tree'[m].left = IF p # NULL /\ m = p /\ t[p].left = n THEN c ELSE t[m].left
                      /\ tree'[m].right = IF p # NULL /\ m = p /\ t[p].left # n THEN c ELSE t[m].right
  <2>1. /\ t \in [D -> Place] /\ n \in D /\ c \in Node \cup {NULL}
        /\ tree[n].parent \in D \cup {NULL} /\ PutInPlace(t, n, c)
    BY <1>1, <1>4
  <2> HIDE DEF D
  <2>2. LET q == tree[n].parent
        IN  /\ DOMAIN tree' = D \ {n} /\ tree' \in [D \ {n} -> Place]
            /\ root' = IF q = NULL THEN c ELSE root
            /\ \A m \in D \ {n} :
                  /\ tree'[m].parent = t[m].parent
                  /\ tree'[m].left = IF q # NULL /\ m = q /\ t[q].left = n THEN c ELSE t[m].left
                  /\ tree'[m].right = IF q # NULL /\ m = q /\ t[q].left # n THEN c ELSE t[m].right
    BY ONLY <2>1, PutIs, SMTT(30)
  <2> QED
    BY <2>2
<1>6. root' = IF root = n THEN c ELSE root
  BY <1>3, <1>5
<1>7. ASSUME NEW m \in E
      PROVE  /\ tree'[m].left = IF tree[m].left = n THEN c ELSE tree[m].left
             /\ tree'[m].right = IF tree[m].right = n THEN c ELSE tree[m].right
             /\ tree'[m].parent = IF m = c THEN tree[n].parent ELSE tree[m].parent
  <2>1. /\ tree'[m].parent = t[m].parent
        /\ tree'[m].left = IF p # NULL /\ m = p /\ t[p].left = n THEN c ELSE t[m].left
        /\ tree'[m].right = IF p # NULL /\ m = p /\ t[p].left # n THEN c ELSE t[m].right
    BY <1>5
  <2>2. /\ t[m].left = tree[m].left /\ t[m].right = tree[m].right
        /\ t[m].parent = IF m = c THEN tree[n].parent ELSE tree[m].parent
    OBVIOUS
  <2>3. p # NULL => t[p].left = tree[p].left
    BY <1>4
  <2>4. tree[m].left = n => m = p
    BY <1>3, <1>4
  <2>5. tree[m].right = n => m = p
    BY <1>3, <1>4
  <2>6. m # NULL
    BY <1>3
  <2>7. p # NULL => (tree[p].left = n <=> tree[p].right # n)
    BY <1>3
  <2> HIDE DEF p
  <2>8. tree'[m].left = IF tree[m].left = n THEN c ELSE tree[m].left
    BY <2>1, <2>2, <2>3, <2>4, <2>6
  <2>9. tree'[m].right = IF tree[m].right = n THEN c ELSE tree[m].right
    BY <2>1, <2>2, <2>3, <2>5, <2>6, <2>7
  <2> QED
    BY <2>1, <2>2, <2>8, <2>9
<1>8. LET k == at[n]
          G == DOMAIN tree'
      IN  Shape(tree', root', N - 1, Without(G, at, k), Without(G, lo, k), EndsWithout(G, hi, k))
  <2>1. Shape(tree, root, N, at, lo, hi) /\ n \in DOMAIN tree
    BY <1>1 DEF Linked
  <2>2. Spliced(tree, root, n, c, tree', root')
    BY <1>5, <1>6, <1>7 DEF Spliced, Linked
  <2> QED
    BY ONLY <2>1, <2>2, ShapeWithout
<1> QED
  BY <1>5, <1>8 DEF Removed

LEMMA RemovedByRaising ==
    ASSUME NEW N, NEW at, NEW lo, NEW hi, NEW n, Removable(n, N, at, lo, hi),
           NEW s \in Linked, s # n, s # root, tree[n].parent # s,
           at[s] = at[n] + 1 \/ at[s] = at[n] - 1,
           NEW c, OnlyChild(tree, s, c),
           NEW t \in [Linked -> Place],
           \A m \in Linked \ {n, s} :
              /\ t[m].left = IF tree[m].left = s THEN c ELSE tree[m].left
              /\ t[m].right = IF tree[m].right = s THEN c ELSE tree[m].right
              /\ t[m].parent = IF m = c THEN IF tree[s].parent = n THEN s ELSE tree[s].parent
                               ELSE IF tree[m].parent = n THEN s ELSE tree[m].parent,
           t[s].left = IF tree[n].left = s THEN c ELSE tree[n].left,
           t[s].right = IF tree[n].right = s THEN c ELSE tree[n].right,
           t[s].parent = tree[n].parent,
           PutInPlace(t, n, s)
    PROVE  Removed(n, N, at)
<1> DEFINE D == Linked
           E == D \ {n}
           p == tree[n].parent
<1>1. /\ Shape(tree, root, N, at, lo, hi) /\ tree \in [D -> Place] /\ D \subseteq Node /\ n \in D
  BY DEF Removable
<1>2. LinksMatch(tree, root) /\ Family(n, at, lo, hi)
  BY <1>1, LinksDoMatch, FamilyIs
<1>3. /\ NULL \notin D /\ p \in D \cup {NULL} /\ p # n
      /\ \A m \in D : tree[m].left # NULL => tree[tree[m].left].parent = m
      /\ \A m \in D : tree[m].right # NULL => tree[tree[m].right].parent = m
      /\ p = NULL <=> n = root
      /\ p # NULL => (tree[p].left = n <=> tree[p].right # n)
  BY <1>1, <1>2 DEF LinksMatch, Linked, Family
<1>4. n # NULL /\ n \in Node /\ s \in Node \cup {NULL} /\ s # NULL /\ p # s
  BY <1>1, <1>3
<1>5. /\ DOMAIN tree' = E /\ tree' \in [E -> Place]
      /\ root' = IF p = NULL THEN s ELSE root
      /\ \A m \in E : /\ tree'[m].parent = t[m].parent
                      /\ tree'[m].left = IF p # NULL /\ m = p /\ t[p].left = n THEN s ELSE t[m].left
                      /\ tree'[m].right = IF p # NULL /\ m = p /\ t[p].left # n THEN s ELSE t[m].right
  <2>1. /\ t \in [D -> Place] /\ n \in D /\ s \in Node \cup {NULL}
        /\ tree[n].parent \in D \cup {NULL} /\ PutInPlace(t, n, s)
    BY <1>1, <1>3, <1>4
  <2> QED
    BY ONLY <2>1, PutIs
<1>6. root' = IF root = n THEN s ELSE root
  BY <1>3, <1>5
<1>7. c # n
  <2>1. c # NULL => tree[c].parent = s
    BY <1>3 DEF OnlyChild
  <2> QED
    BY <1>4, <2>1
<1>8. p # NULL => (t[p].left = n <=> tree[p].left = n)
  <2> SUFFICES ASSUME p # NULL
               PROVE  t[p].left = n <=> tree[p].left = n
    OBVIOUS
  <2>1. t[p].left = IF tree[p].left = s THEN c ELSE tree[p].left
    BY <1>3, <1>4
  <2> QED
    BY <1>7, <2>1
<1>9. ASSUME NEW m \in E \ {s}
      PROVE  /\ tree'[m].left = IF tree[m].left = s THEN c ELSE IF tree[m].left = n THEN s ELSE tree[m].left
             /\ tree'[m].right = IF tree[m].right = s THEN c ELSE IF tree[m].right = n THEN s ELSE tree[m].right
             /\ tree'[m].parent = IF m = c THEN IF tree[s].parent = n THEN s ELSE tree[s].parent
                                  ELSE IF tree[m].parent = n THEN s ELSE tree[m].parent
  <2>1. /\ tree'[m].parent = t[m].parent
        /\ tree'[m].left = IF p # NULL /\ m = p /\ t[p].left = n THEN s ELSE t[m].left
        /\ tree'[m].right = IF p # NULL /\ m = p /\ t[p].left # n THEN s ELSE t[m].right
    BY <1>5
  <2>2. /\ t[m].left = IF tree[m].left = s THEN c ELSE tree[m].left
        /\ t[m].right = IF tree[m].right = s THEN c ELSE tree[m].right
        /\ t[m].parent = IF m = c THEN IF tree[s].parent = n THEN s ELSE tree[s].parent
                         ELSE IF tree[m].parent = n THEN s ELSE tree[m].parent
    OBVIOUS
  <2>3. m # NULL /\ (tree[m].left = n => m = p) /\ (tree[m].right = n => m = p)
    BY <1>3, <1>4
  <2>4. p # NULL => (tree[p].left = n <=> tree[p].right # n)
    BY <1>3
  <2> HIDE DEF p
  <2>5. tree'[m].left = IF tree[m].left = s THEN c ELSE IF tree[m].left = n THEN s ELSE tree[m].left
    BY <1>8, <2>1, <2>2, <2>3
  <2>6. tree'[m].right = IF tree[m].right = s THEN c ELSE IF tree[m].right = n THEN s ELSE tree[m].right
    BY <1>8, <2>1, <2>2, <2>3, <2>4
  <2> QED
    BY <2>1, <2>2, <2>5, <2>6
<1>10. /\ tree'[s].left = IF tree[n].left = s THEN c ELSE tree[n].left
       /\ tree'[s].right = IF tree[n].right = s THEN c ELSE tree[n].right
       /\ tree'[s].parent = tree[n].parent
  <2>1. s \in E /\ s # p
    BY <1>4
  <2> HIDE DEF p
  <2> QED
    BY <1>5, <2>1
<1>11. \E l, h : Shape(tree', IF root = n THEN s ELSE root, N - 1, Without(DOMAIN tree', at, at[n]), l, h)
  <2>1. /\ Shape(tree, root, N, at, lo, hi) /\ n \in DOMAIN tree /\ s \in DOMAIN tree
        /\ s # n /\ s # root /\ tree[n].parent # s
        /\ (at[s] = at[n] + 1 \/ at[s] = at[n] - 1)
    BY <1>1 DEF Linked
  <2>2. Raised(tree, n, s, c, tree')
    BY <1>5, <1>9, <1>10 DEF Raised, Linked
  <2> QED
    BY ONLY <2>1, <2>2, ShapeRaised
<1> QED
  BY <1>5, <1>6, <1>11 DEF Removed

\* The two ends of the tree, and what removal has to make of them.
EndsAre(N, at) ==
    /\ leftmost \in Linked /\ at[leftmost] = 1
    /\ rightmost \in Linked /\ at[rightmost] = N

EndsBecome(n, N, at) ==
    IF N = 1 THEN leftmost' = NULL /\ rightmost' = NULL
    ELSE /\ leftmost' \in Linked \ {n} /\ at[leftmost'] = IF at[n] = 1 THEN 2 ELSE 1
         /\ rightmost' \in Linked \ {n} /\ at[rightmost'] = IF at[n] = N THEN N - 1 ELSE N

\* The numbers of a tree, for one node and all.
Numbered(n, N, at, lo, hi) ==
    /\ N \in Nat /\ NULL \notin Linked
    /\ \A m \in Linked : /\ at[m] \in 1..N /\ lo[m] \in 1..N /\ hi[m] \in 1..N
                         /\ lo[m] <= at[m] /\ at[m] <= hi[m]
    /\ \A m, x \in Linked : at[m] = at[x] => m = x
    /\ n = root => lo[n] = 1 /\ hi[n] = N

LEMMA NumberedIs ==
    ASSUME NEW N, NEW at, NEW lo, NEW hi, NEW n, Removable(n, N, at, lo, hi)
    PROVE  Numbered(n, N, at, lo, hi)
<1>1. /\ N \in Nat /\ NULL \notin Linked
      /\ \A m \in Linked : /\ at[m] \in 1..N /\ lo[m] \in 1..N /\ hi[m] \in 1..N
                           /\ lo[m] <= at[m] /\ at[m] <= hi[m]
      /\ \A m, x \in Linked : at[m] = at[x] => m = x
  BY ShapeIs DEF Removable, Linked
<1>2. n = root => lo[n] = 1 /\ hi[n] = N
  <2>1. N # 0 => root \in Linked /\ lo[root] = 1 /\ hi[root] = N
    BY ShapeIs DEF Removable, Linked
  <2>2. N = 0 => root = NULL
    BY ShapeIs DEF Removable, Linked
  <2>3. n \in Linked
    BY DEF Removable
  <2> QED
    BY <1>1, <2>1, <2>2, <2>3
<1> QED
  BY <1>1, <1>2 DEF Numbered

LEMMA LeafRemoved ==
    ASSUME NEW N, NEW at, NEW lo, NEW hi, NEW n, Removable(n, N, at, lo, hi), EndsAre(N, at),
           RemoveLeaf(n)
    PROVE  Removed(n, N, at) /\ EndsBecome(n, N, at)
<1> DEFINE D == Linked
           p == tree[n].parent
<1>1. /\ Shape(tree, root, N, at, lo, hi) /\ tree \in [D -> Place] /\ n \in D
  BY DEF Removable
<1>2. Numbered(n, N, at, lo, hi) /\ Family(n, at, lo, hi)
  BY <1>1, NumberedIs, FamilyIs
<1>3. /\ tree[n].right = NULL /\ tree[n].left = NULL /\ PutInPlace(tree, n, NULL)
      /\ leftmost' = IF p = NULL \/ (tree[p].left = n /\ leftmost = n) THEN p ELSE leftmost
      /\ rightmost' = IF p = NULL \/ (tree[p].left # n /\ rightmost = n) THEN p ELSE rightmost
  BY DEF RemoveLeaf
<1>4. NULL \notin D /\ \A m \in D : at[m] \in 1..N
  BY <1>2 DEF Numbered
<1>5. Removed(n, N, at)
  <2>1. OnlyChild(tree, n, NULL)
    BY <1>3 DEF OnlyChild
  <2>2. \A m \in Linked : /\ tree[m].left = tree[m].left /\ tree[m].right = tree[m].right
                          /\ tree[m].parent = IF m = NULL THEN tree[n].parent ELSE tree[m].parent
    BY <1>4
  <2> QED
    BY <1>1, <1>3, <2>1, <2>2, RemovedDirectly
<1>6. EndsBecome(n, N, at)
  <2>1. lo[n] = at[n] /\ hi[n] = at[n] /\ at[n] \in 1..N /\ N \in Nat
    BY <1>1, <1>2, <1>3 DEF Family, Numbered
  <2>2. /\ leftmost \in D /\ at[leftmost] = 1 /\ rightmost \in D /\ at[rightmost] = N
        /\ \A m, x \in D : at[m] = at[x] => m = x
    BY <1>2 DEF EndsAre, Numbered
  <2>3. \/ p = NULL /\ n = root
        \/ p \in D /\ tree[p].left = n /\ at[n] = at[p] - 1
        \/ p \in D /\ tree[p].left # n /\ at[n] = at[p] + 1
    <3>1. \/ p = NULL /\ n = root
          \/ p \in D /\ tree[p].left = n /\ hi[n] = at[p] - 1
          \/ p \in D /\ tree[p].left # n /\ lo[n] = at[p] + 1
      BY <1>1, ParentIs DEF Linked
    <3> QED
      BY <2>1, <3>1
  <2>4. CASE p = NULL
    <3>1. n = root
      BY <1>4, <2>3, <2>4
    <3>2. N = 1
      BY <1>2, <2>1, <3>1 DEF Numbered
    <3> QED
      BY <1>3, <2>4, <3>2 DEF EndsBecome
  <2>5. CASE p \in D /\ tree[p].left = n /\ at[n] = at[p] - 1
    <3>1. p # NULL /\ at[p] \in 1..N /\ p # n
      BY <1>4, <2>1, <2>5
    <3>2. leftmost' \in D \ {n} /\ at[leftmost'] = IF at[n] = 1 THEN 2 ELSE 1
      <4>1. CASE leftmost = n
        <5>1. leftmost' = p /\ at[n] = 1
          BY <1>3, <2>2, <2>5, <4>1
        <5>2. at[p] = 2
          BY <2>5, <3>1, <5>1
        <5> HIDE DEF p, D
        <5> QED
          BY <2>5, <3>1, <5>1, <5>2
      <4>2. CASE leftmost # n
        <5>1. leftmost' = leftmost /\ at[n] # 1
          BY <1>1, <1>3, <2>2, <3>1, <4>2
        <5> QED
          BY <2>2, <4>2, <5>1
      <4> QED
        BY <4>1, <4>2
    <3>3. rightmost' = rightmost /\ at[n] # N /\ N # 1
      BY <1>3, <2>1, <2>5, <3>1
    <3> QED
      BY <2>2, <3>2, <3>3 DEF EndsBecome
  <2>6. CASE p \in D /\ tree[p].left # n /\ at[n] = at[p] + 1
    <3>1. p # NULL /\ at[p] \in 1..N /\ p # n
      BY <1>4, <2>1, <2>6
    <3>2. rightmost' \in D \ {n} /\ at[rightmost'] = IF at[n] = N THEN N - 1 ELSE N
      <4>1. CASE rightmost = n
        <5>1. rightmost' = p /\ at[n] = N
          BY <1>3, <2>2, <2>6, <4>1
        <5>2. at[p] = N - 1
          BY <2>6, <3>1, <5>1
        <5> HIDE DEF p, D
        <5> QED
          BY <2>6, <3>1, <5>1, <5>2
      <4>2. CASE rightmost # n
        <5>1. rightmost' = rightmost /\ at[n] # N
          BY <1>1, <1>3, <2>2, <3>1, <4>2
        <5> QED
          BY <2>2, <4>2, <5>1
      <4> QED
        BY <4>1, <4>2
    <3>3. leftmost' = leftmost /\ at[n] # 1 /\ N # 1
      BY <1>3, <2>1, <2>6, <3>1
    <3> QED
      BY <2>2, <3>2, <3>3 DEF EndsBecome
  <2> QED
    BY <2>3, <2>4, <2>5, <2>6
<1> QED
  BY <1>5, <1>6

LEMMA WithoutRightRemoved ==
    ASSUME NEW N, NEW at, NEW lo, NEW hi, NEW n, Removable(n, N, at, lo, hi), EndsAre(N, at),
           RemoveWithoutRight(n)
    PROVE  Removed(n, N, at) /\ EndsBecome(n, N, at)
<1> DEFINE D == Linked
           l == tree[n].left
           t == SetParent(tree, l, tree[n].parent)
<1>1. /\ Shape(tree, root, N, at, lo, hi) /\ tree \in [D -> Place] /\ n \in D
  BY DEF Removable
<1>2. Numbered(n, N, at, lo, hi) /\ Family(n, at, lo, hi)
  BY <1>1, NumberedIs, FamilyIs
<1>3. /\ tree[n].right = NULL /\ l # NULL /\ PutInPlace(t, n, l)
      /\ rightmost' = IF rightmost = n THEN RightEnd(l) ELSE rightmost
      /\ leftmost' = leftmost
  BY DEF RemoveWithoutRight, SetParent
<1>4. l \in D /\ tree[n].parent \in Node \cup {NULL} /\ hi[l] = at[n] - 1 /\ lo[l] = lo[n] /\ at[n] = hi[n]
  <2>1. tree[n] \in Place
    BY <1>1
  <2> QED
    BY <1>2, <1>3, <2>1 DEF Family, Place
<1>5. /\ t \in [D -> Place]
      /\ \A m \in D : /\ t[m].left = tree[m].left /\ t[m].right = tree[m].right
                      /\ t[m].parent = IF m = l THEN tree[n].parent ELSE tree[m].parent
  BY <1>1, <1>4, SetParentIs
<1>6. OnlyChild(tree, n, l)
  BY <1>3 DEF OnlyChild
<1> HIDE DEF t
<1>7. Removed(n, N, at)
  BY <1>3, <1>5, <1>6, RemovedDirectly
<1>8. RightEnd(l) \in D /\ at[RightEnd(l)] = hi[l]
  BY <1>1, <1>4, RightEndIs
<1> HIDE DEF l
<1>9. EndsBecome(n, N, at)
  <2>1. /\ lo[l] \in 1..N /\ hi[l] \in 1..N /\ lo[l] <= at[l] /\ at[l] <= hi[l] /\ at[n] \in 1..N
        /\ at[l] \in 1..N /\ N \in Nat
    BY <1>1, <1>2, <1>4 DEF Numbered
  <2>2. /\ leftmost \in D /\ at[leftmost] = 1 /\ rightmost \in D /\ at[rightmost] = N
        /\ \A m, x \in D : at[m] = at[x] => m = x
    BY <1>2 DEF EndsAre, Numbered
  <2>3. at[n] # 1 /\ N # 1
    BY <1>4, <2>1
  <2>4. leftmost' \in D \ {n} /\ at[leftmost'] = 1
    BY <1>3, <2>2, <2>3
  <2>5. rightmost' \in D \ {n} /\ at[rightmost'] = IF at[n] = N THEN N - 1 ELSE N
    <3>1. CASE rightmost = n
      <4>1. rightmost' = RightEnd(l) /\ at[n] = N
        BY <1>3, <2>2, <3>1
      <4>2. at[RightEnd(l)] = N - 1 /\ N - 1 # N
        BY <1>4, <1>8, <2>1, <4>1
      <4> QED
        BY <1>8, <4>1, <4>2
    <3>2. CASE rightmost # n
      <4>1. at[n] # N
        BY <1>1, <2>2, <3>2
      <4> QED
        BY <1>3, <2>2, <3>2, <4>1
    <3> QED
      BY <3>1, <3>2
  <2> QED
    BY <2>3, <2>4, <2>5 DEF EndsBecome
<1> QED
  BY <1>7, <1>9

LEMMA WithoutLeftRemoved ==
    ASSUME NEW N, NEW at, NEW lo, NEW hi, NEW n, Removable(n, N, at, lo, hi), EndsAre(N, at),
           RemoveWithoutLeft(n)
    PROVE  Removed(n, N, at) /\ EndsBecome(n, N, at)
<1> DEFINE D == Linked
           r == tree[n].right
           t == SetParent(tree, r, tree[n].parent)
<1>1. /\ Shape(tree, root, N, at, lo, hi) /\ tree \in [D -> Place] /\ n \in D
  BY DEF Removable
<1>2. Numbered(n, N, at, lo, hi) /\ Family(n, at, lo, hi)
  BY <1>1, NumberedIs, FamilyIs
<1>3. /\ tree[n].left = NULL /\ r # NULL /\ PutInPlace(t, n, r)
      /\ leftmost' = IF leftmost = n THEN LeftEnd(r) ELSE leftmost
      /\ rightmost' = rightmost
  BY DEF RemoveWithoutLeft, SetParent
<1>4. r \in D /\ tree[n].parent \in Node \cup {NULL} /\ lo[r] = at[n] + 1 /\ hi[r] = hi[n] /\ at[n] = lo[n]
  <2>1. tree[n] \in Place
    BY <1>1
  <2> QED
    BY <1>2, <1>3, <2>1 DEF Family, Place
<1>5. /\ t \in [D -> Place]
      /\ \A m \in D : /\ t[m].left = tree[m].left /\ t[m].right = tree[m].right
                      /\ t[m].parent = IF m = r THEN tree[n].parent ELSE tree[m].parent
  BY <1>1, <1>4, SetParentIs
<1>6. OnlyChild(tree, n, r)
  BY <1>3 DEF OnlyChild
<1> HIDE DEF t
<1>7. Removed(n, N, at)
  BY <1>3, <1>5, <1>6, RemovedDirectly
<1>8. LeftEnd(r) \in D /\ at[LeftEnd(r)] = lo[r]
  BY <1>1, <1>4, LeftEndIs
<1> HIDE DEF r
<1>9. EndsBecome(n, N, at)
  <2>1. /\ lo[r] \in 1..N /\ hi[r] \in 1..N /\ lo[r] <= at[r] /\ at[r] <= hi[r] /\ at[n] \in 1..N
        /\ at[r] \in 1..N /\ N \in Nat
    BY <1>1, <1>2, <1>4 DEF Numbered
  <2>2. /\ leftmost \in D /\ at[leftmost] = 1 /\ rightmost \in D /\ at[rightmost] = N
        /\ \A m, x \in D : at[m] = at[x] => m = x
    BY <1>2 DEF EndsAre, Numbered
  <2>3. at[n] # N /\ N # 1
    BY <1>4, <2>1
  <2>4. rightmost' \in D \ {n} /\ at[rightmost'] = N
    BY <1>3, <2>2, <2>3
  <2>5. leftmost' \in D \ {n} /\ at[leftmost'] = IF at[n] = 1 THEN 2 ELSE 1
    <3>1. CASE leftmost = n
      <4>1. leftmost' = LeftEnd(r) /\ at[n] = 1
        BY <1>3, <2>2, <3>1
      <4>2. at[LeftEnd(r)] = 2
        BY <1>4, <1>8, <2>1, <4>1
      <4> QED
        BY <1>8, <4>1, <4>2
    <3>2. CASE leftmost # n
      <4>1. at[n] # 1
        BY <1>1, <2>2, <3>2
      <4> QED
        BY <1>3, <2>2, <3>2, <4>1
    <3> QED
      BY <3>1, <3>2
  <2> QED
    BY <2>3, <2>4, <2>5 DEF EndsBecome
<1> QED
  BY <1>7, <1>9

LEMMA LeftChildRaised ==
    ASSUME NEW N, NEW at, NEW lo, NEW hi, NEW n, Removable(n, N, at, lo, hi), EndsAre(N, at),
           RaiseLeftChild(n)
    PROVE  Removed(n, N, at) /\ EndsBecome(n, N, at)
<1> DEFINE D == Linked
           p == tree[n].parent
           l == tree[n].left
           r == tree[n].right
           c == tree[l].left
           t1 == SetRight(tree, l, r)
           t2 == SetParent(t1, r, l)
           t == SetParent(t2, l, p)
<1>1. /\ Shape(tree, root, N, at, lo, hi) /\ tree \in [D -> Place] /\ n \in D /\ D \subseteq Node
  BY DEF Removable
<1>2. Numbered(n, N, at, lo, hi) /\ Family(n, at, lo, hi)
  BY <1>1, NumberedIs, FamilyIs
<1>3. /\ l # NULL /\ r # NULL /\ tree[l].right = NULL /\ PutInPlace(t, n, l)
      /\ rightmost' = IF rightmost = n THEN l ELSE rightmost
      /\ leftmost' = leftmost
  BY DEF RaiseLeftChild, SetParent, SetRight
<1>4. /\ l \in D /\ r \in D /\ l # r /\ l # n /\ r # n /\ p # n /\ p # l /\ p # r /\ l # root
      /\ tree[l].parent = n /\ tree[r].parent = n /\ p \in D \cup {NULL}
      /\ hi[l] = at[n] - 1 /\ lo[l] = lo[n] /\ lo[r] = at[n] + 1 /\ hi[r] = hi[n]
  BY <1>2, <1>3 DEF Family
<1>5. Family(l, at, lo, hi) /\ LinksMatch(tree, root)
  BY <1>1, <1>4, FamilyIs, LinksDoMatch
<1>6. at[l] = hi[l] /\ c \in D \cup {NULL} /\ (c # NULL => tree[c].parent = l)
  BY <1>3, <1>5 DEF Family
<1>7. /\ p \in Node \cup {NULL} /\ l \in Node \cup {NULL} /\ r \in Node \cup {NULL}
      /\ l # NULL /\ n # NULL /\ NULL \notin D
      /\ \A m \in D : tree[m].left # NULL => tree[tree[m].left].parent = m
      /\ \A m \in D : tree[m].right # NULL => tree[tree[m].right].parent = m
      /\ \A m \in D : tree[m].parent = n => m = l \/ m = r
  BY <1>1, <1>4, <1>5 DEF LinksMatch, Linked
<1>8. /\ t1 \in [D -> Place]
      /\ \A m \in D : /\ t1[m].parent = tree[m].parent /\ t1[m].left = tree[m].left
                      /\ t1[m].right = IF m = l THEN r ELSE tree[m].right
  BY <1>1, <1>4, <1>7, SetRightIs
<1> HIDE DEF t1
<1>9. /\ t2 \in [D -> Place]
      /\ \A m \in D : /\ t2[m].left = t1[m].left /\ t2[m].right = t1[m].right
                      /\ t2[m].parent = IF m = r THEN l ELSE t1[m].parent
  BY <1>4, <1>7, <1>8, SetParentIs
<1> HIDE DEF t2
<1>10. /\ t \in [D -> Place]
       /\ \A m \in D : /\ t[m].left = t2[m].left /\ t[m].right = t2[m].right
                       /\ t[m].parent = IF m = l THEN p ELSE t2[m].parent
  BY <1>4, <1>7, <1>9, SetParentIs
<1> HIDE DEF t
<1>11. \A m \in D : /\ t[m].left = tree[m].left
                    /\ t[m].right = IF m = l THEN r ELSE tree[m].right
                    /\ t[m].parent = IF m = l THEN p ELSE IF m = r THEN l ELSE tree[m].parent
  BY <1>8, <1>9, <1>10
<1>12. Removed(n, N, at)
  <2>1. /\ l \in Linked /\ l # n /\ l # root /\ tree[n].parent # l
        /\ (at[l] = at[n] + 1 \/ at[l] = at[n] - 1)
    BY <1>4, <1>6
  <2>2. OnlyChild(tree, l, c)
    BY <1>3 DEF OnlyChild
  <2>3. ASSUME NEW m \in Linked \ {n, l}
        PROVE  /\ t[m].left = IF tree[m].left = l THEN c ELSE tree[m].left
               /\ t[m].right = IF tree[m].right = l THEN c ELSE tree[m].right
               /\ t[m].parent = IF m = c THEN IF tree[l].parent = n THEN l ELSE tree[l].parent
                                ELSE IF tree[m].parent = n THEN l ELSE tree[m].parent
    <3>1. /\ t[m].left = tree[m].left /\ t[m].right = tree[m].right
          /\ t[m].parent = IF m = r THEN l ELSE tree[m].parent
      BY <1>11
    <3>2. tree[m].left # l /\ tree[m].right # l
      BY <1>4, <1>7
    <3>3. m = c => tree[m].parent = l /\ m # r
      BY <1>4, <1>6, <1>7
    <3>4. tree[m].parent = n <=> m = r
      BY <1>4, <1>7
    <3> HIDE DEF c, l, r, p
    <3> QED
      BY <1>4, <3>1, <3>2, <3>3, <3>4
  <2>4. /\ t[l].left = IF tree[n].left = l THEN c ELSE tree[n].left
        /\ t[l].right = IF tree[n].right = l THEN c ELSE tree[n].right
        /\ t[l].parent = tree[n].parent
    BY <1>4, <1>11
  <2> HIDE DEF c, l
  <2> QED
    BY <1>3, <1>10, <2>1, <2>2, <2>3, <2>4, RemovedByRaising
<1> HIDE DEF l, r
<1>13. EndsBecome(n, N, at)
  <2>1. /\ lo[l] \in 1..N /\ at[l] \in 1..N /\ at[n] \in 1..N /\ N \in Nat
        /\ lo[r] \in 1..N /\ hi[l] \in 1..N
    BY <1>1, <1>2, <1>4 DEF Numbered
  <2>2. /\ leftmost \in D /\ at[leftmost] = 1 /\ rightmost \in D /\ at[rightmost] = N
    BY DEF EndsAre
  <2>3. at[n] # 1 /\ at[n] # N /\ N # 1
    BY <1>4, <2>1
  <2>4. leftmost # n /\ rightmost # n
    BY <2>2, <2>3
  <2> QED
    BY <1>3, <2>2, <2>3, <2>4 DEF EndsBecome
<1> QED
  BY <1>12, <1>13

LEMMA RightChildRaised ==
    ASSUME NEW N, NEW at, NEW lo, NEW hi, NEW n, Removable(n, N, at, lo, hi), EndsAre(N, at),
           RaiseRightChild(n)
    PROVE  Removed(n, N, at) /\ EndsBecome(n, N, at)
<1> DEFINE D == Linked
           p == tree[n].parent
           l == tree[n].left
           r == tree[n].right
           c == tree[r].right
           t1 == SetLeft(tree, r, l)
           t2 == SetParent(t1, l, r)
           t == SetParent(t2, r, p)
<1>1. /\ Shape(tree, root, N, at, lo, hi) /\ tree \in [D -> Place] /\ n \in D /\ D \subseteq Node
  BY DEF Removable
<1>2. Numbered(n, N, at, lo, hi) /\ Family(n, at, lo, hi)
  BY <1>1, NumberedIs, FamilyIs
<1>3. /\ l # NULL /\ r # NULL /\ tree[r].left = NULL /\ PutInPlace(t, n, r)
      /\ leftmost' = IF leftmost = n THEN r ELSE leftmost
      /\ rightmost' = rightmost
  BY DEF RaiseRightChild, SetParent, SetLeft
<1>4. /\ l \in D /\ r \in D /\ l # r /\ l # n /\ r # n /\ p # n /\ p # l /\ p # r /\ r # root
      /\ tree[l].parent = n /\ tree[r].parent = n /\ p \in D \cup {NULL}
      /\ hi[l] = at[n] - 1 /\ lo[l] = lo[n] /\ lo[r] = at[n] + 1 /\ hi[r] = hi[n]
  BY <1>2, <1>3 DEF Family
<1>5. Family(r, at, lo, hi) /\ LinksMatch(tree, root)
  BY <1>1, <1>4, FamilyIs, LinksDoMatch
<1>6. at[r] = lo[r] /\ c \in D \cup {NULL} /\ (c # NULL => tree[c].parent = r)
  BY <1>3, <1>5 DEF Family
<1>7. /\ p \in Node \cup {NULL} /\ l \in Node \cup {NULL} /\ r \in Node \cup {NULL}
      /\ r # NULL /\ n # NULL /\ NULL \notin D
      /\ \A m \in D : tree[m].left # NULL => tree[tree[m].left].parent = m
      /\ \A m \in D : tree[m].right # NULL => tree[tree[m].right].parent = m
      /\ \A m \in D : tree[m].parent = n => m = l \/ m = r
  BY <1>1, <1>4, <1>5 DEF LinksMatch, Linked
<1>8. /\ t1 \in [D -> Place]
      /\ \A m \in D : /\ t1[m].parent = tree[m].parent /\ t1[m].right = tree[m].right
                      /\ t1[m].left = IF m = r THEN l ELSE tree[m].left
  BY <1>1, <1>4, <1>7, SetLeftIs
<1> HIDE DEF t1
<1>9. /\ t2 \in [D -> Place]
      /\ \A m \in D : /\ t2[m].left = t1[m].left /\ t2[m].right = t1[m].right
                      /\ t2[m].parent = IF m = l THEN r ELSE t1[m].parent
  BY <1>4, <1>7, <1>8, SetParentIs
<1> HIDE DEF t2
<1>10. /\ t \in [D -> Place]
       /\ \A m \in D : /\ t[m].left = t2[m].left /\ t[m].right = t2[m].right
                       /\ t[m].parent = IF m = r THEN p ELSE t2[m].parent
  BY <1>4, <1>7, <1>9, SetParentIs
<1> HIDE DEF t
<1>11. \A m \in D : /\ t[m].right = tree[m].right
                    /\ t[m].left = IF m = r THEN l ELSE tree[m].left
                    /\ t[m].parent = IF m = r THEN p ELSE IF m = l THEN r ELSE tree[m].parent
  BY <1>8, <1>9, <1>10
<1>12. Removed(n, N, at)
  <2>1. /\ r \in Linked /\ r # n /\ r # root /\ tree[n].parent # r
        /\ (at[r] = at[n] + 1 \/ at[r] = at[n] - 1)
    BY <1>4, <1>6
  <2>2. OnlyChild(tree, r, c)
    BY <1>3 DEF OnlyChild
  <2>3. ASSUME NEW m \in Linked \ {n, r}
        PROVE  /\ t[m].left = IF tree[m].left = r THEN c ELSE tree[m].left
               /\ t[m].right = IF tree[m].right = r THEN c ELSE tree[m].right
               /\ t[m].parent = IF m = c THEN IF tree[r].parent = n THEN r ELSE tree[r].parent
                                ELSE IF tree[m].parent = n THEN r ELSE tree[m].parent
    <3>1. /\ t[m].left = tree[m].left /\ t[m].right = tree[m].right
          /\ t[m].parent = IF m = l THEN r ELSE tree[m].parent
      BY <1>11
    <3>2. tree[m].left # r /\ tree[m].right # r
      BY <1>4, <1>7
    <3>3. m = c => tree[m].parent = r /\ m # l
      BY <1>4, <1>6, <1>7
    <3>4. tree[m].parent = n <=> m = l
      BY <1>4, <1>7
    <3> HIDE DEF c, l, r, p
    <3> QED
      BY <1>4, <3>1, <3>2, <3>3, <3>4
  <2>4. /\ t[r].left = IF tree[n].left = r THEN c ELSE tree[n].left
        /\ t[r].right = IF tree[n].right = r THEN c ELSE tree[n].right
        /\ t[r].parent = tree[n].parent
    BY <1>4, <1>11
  <2> HIDE DEF c, r
  <2> QED
    BY <1>3, <1>10, <2>1, <2>2, <2>3, <2>4, RemovedByRaising
<1> HIDE DEF l, r
<1>13. EndsBecome(n, N, at)
  <2>1. /\ lo[l] \in 1..N /\ at[l] \in 1..N /\ at[n] \in 1..N /\ N \in Nat
        /\ lo[r] \in 1..N /\ hi[l] \in 1..N
    BY <1>1, <1>2, <1>4 DEF Numbered
  <2>2. /\ leftmost \in D /\ at[leftmost] = 1 /\ rightmost \in D /\ at[rightmost] = N
    BY DEF EndsAre
  <2>3. at[n] # 1 /\ at[n] # N /\ N # 1
    BY <1>4, <2>1
  <2>4. leftmost # n /\ rightmost # n
    BY <2>2, <2>3
  <2> QED
    BY <1>3, <2>2, <2>3, <2>4 DEF EndsBecome
<1> QED
  BY <1>12, <1>13

LEMMA SuccessorRaised ==
    ASSUME NEW N, NEW at, NEW lo, NEW hi, NEW n, Removable(n, N, at, lo, hi), EndsAre(N, at),
           RaiseSuccessor(n)
    PROVE  Removed(n, N, at) /\ EndsBecome(n, N, at)
<1> DEFINE D == Linked
           p == tree[n].parent
           l == tree[n].left
           r == tree[n].right
           b == tree[r].left
           s == LeftEnd(b)
           q == tree[s].parent
           c == tree[s].right
           t1 == SetLeft(tree, q, c)
           t2 == IF c = NULL THEN t1 ELSE SetParent(t1, c, q)
           t3 == SetLeft(t2, s, l)
           t4 == SetParent(t3, l, s)
           t5 == SetRight(t4, s, r)
           t6 == SetParent(t5, r, s)
           t == SetParent(t6, s, p)
<1>1. /\ Shape(tree, root, N, at, lo, hi) /\ tree \in [D -> Place] /\ n \in D /\ D \subseteq Node
  BY DEF Removable
<1>2. Numbered(n, N, at, lo, hi) /\ Family(n, at, lo, hi) /\ LinksMatch(tree, root)
  BY <1>1, NumberedIs, FamilyIs, LinksDoMatch
<1>3. /\ l # NULL /\ r # NULL /\ b # NULL /\ PutInPlace(t, n, s)
      /\ leftmost' = leftmost /\ rightmost' = rightmost
  BY DEF RaiseSuccessor, SetParent, SetLeft, SetRight
<1>4. /\ l \in D /\ r \in D /\ l # r /\ l # n /\ r # n /\ p # n /\ p # l /\ p # r
      /\ tree[l].parent = n /\ tree[r].parent = n /\ p \in D \cup {NULL}
      /\ hi[l] = at[n] - 1 /\ lo[l] = lo[n] /\ lo[r] = at[n] + 1 /\ hi[r] = hi[n]
      /\ p # NULL => lo[p] <= at[n] /\ at[n] <= hi[p]
  BY <1>2, <1>3 DEF Family
<1>5. /\ N \in Nat /\ NULL \notin D
      /\ \A m \in D : /\ at[m] \in 1..N /\ lo[m] \in 1..N /\ hi[m] \in 1..N
                      /\ lo[m] <= at[m] /\ at[m] <= hi[m]
      /\ \A m, x \in D : at[m] = at[x] => m = x
  BY <1>2 DEF Numbered
<1>6. b \in D /\ lo[b] = at[n] + 1 /\ hi[b] = at[r] - 1
  <2>1. Family(r, at, lo, hi)
    BY <1>1, <1>4, FamilyIs
  <2> QED
    BY <1>3, <1>4, <2>1 DEF Family
\* s is the node after n.
<1>7. s \in D /\ at[s] = at[n] + 1 /\ lo[s] = at[s] /\ tree[s].left = NULL
  <2>1. s \in D /\ at[s] = lo[b]
    BY <1>1, <1>6, LeftEndIs
  <2>2. \A m, x \in D : lo[m] <= at[x] /\ at[x] <= hi[m] => lo[m] <= lo[x] /\ hi[x] <= hi[m]
    BY <1>1, ShapeIs DEF Linked
  <2>3. \A m \in D : at[m] = lo[m] => tree[m].left = NULL
    BY <1>1, ShapeIs DEF Linked
  <2> HIDE DEF s, b, D
  <2>4. lo[b] <= lo[s]
    BY <1>5, <1>6, <2>1, <2>2
  <2>5. lo[s] = at[s]
    BY <1>5, <2>1, <2>4, <1>6
  <2> QED
    BY <1>6, <2>1, <2>3, <2>5
<1>8. s # n /\ s # l /\ s # r /\ s # p
  <2> HIDE DEF s, l, r, p, b, D
  <2>1. /\ at[n] \in Int /\ at[r] \in Int /\ at[l] \in Int /\ at[l] <= hi[l] /\ hi[l] \in Int
        /\ lo[b] <= hi[b] /\ lo[b] \in Int /\ hi[b] \in Int
    <3>1. n \in D
      BY <1>1
    <3>2. lo[b] \in 1..N /\ hi[b] \in 1..N /\ at[b] \in 1..N /\ lo[b] <= at[b] /\ at[b] <= hi[b]
      BY <1>5, <1>6
    <3> QED
      BY <1>4, <1>5, <3>1, <3>2
  <2>2. s # n
    BY <1>7, <2>1
  <2>3. s # l
    BY <1>4, <1>7, <2>1
  <2>4. s # r
    BY <1>6, <1>7, <2>1
  <2>5. s # p
    <3>1. s # NULL /\ lo[s] > at[n]
      BY <1>5, <1>7, <2>1
    <3>2. s = p => lo[s] <= at[n]
      BY <1>4, <3>1
    <3> QED
      BY <1>7, <2>1, <3>1, <3>2
  <2> QED
    BY <2>2, <2>3, <2>4, <2>5
<1>9. /\ Family(s, at, lo, hi)
      /\ s # root => /\ q \in D
                     /\ \/ tree[q].left = s /\ tree[q].right # s
                        \/ tree[q].left # s /\ tree[q].right = s /\ lo[s] = at[q] + 1
  BY <1>1, <1>7, FamilyIs, ParentIs DEF Linked
<1>10. s # root
  <2>1. s = root => lo[s] = 1
    <3>1. N # 0 => lo[root] = 1
      BY <1>1, ShapeIs
    <3>2. N # 0
      BY <1>1, <1>5
    <3> QED
      BY <3>1, <3>2
  <2>2. at[n] \in 1..N /\ lo[s] = at[n] + 1
    BY <1>1, <1>5, <1>7
  <2> HIDE DEF s
  <2> QED
    BY <2>1, <2>2
<1>11. /\ tree[l].parent = n /\ tree[r].parent = n /\ n # NULL /\ l # NULL /\ r # NULL /\ s # NULL
       /\ \A m \in D : tree[m].left # NULL => tree[tree[m].left].parent = m
       /\ \A m \in D : tree[m].right # NULL => tree[tree[m].right].parent = m
       /\ \A m \in D : tree[m].parent = n => m = l \/ m = r
  BY <1>1, <1>2, <1>4, <1>5, <1>7 DEF LinksMatch, Linked
<1>12. q # n
  BY <1>7, <1>8, <1>11
<1>13. q \in D /\ q # s /\ tree[q].left = s /\ tree[q].right # s
  <2>1. q \in D /\ q # s
    BY <1>9, <1>10 DEF Family
  <2>2. tree[q].right = s => lo[s] # at[q] + 1
    <3>1. at[q] = at[n] => q = n
      BY <1>1, <1>5, <2>1
    <3>2. at[q] \in Int /\ at[n] \in Int
      BY <1>1, <1>5, <2>1
    <3> HIDE DEF q, s
    <3> QED
      BY <1>7, <1>12, <3>1, <3>2
  <2> QED
    BY <1>9, <1>10, <2>1, <2>2
<1>14. /\ c \in D \cup {NULL} /\ c # s /\ c # q
       /\ c # NULL => tree[c].parent = s /\ c # l /\ c # r /\ c # n
  <2>1. c \in D \cup {NULL} /\ c # s /\ (c # NULL => c # q /\ tree[c].parent = s)
    BY <1>9 DEF Family
  <2>2. c # NULL => c # n
    BY <1>8, <2>1
  <2> QED
    BY <1>5, <1>8, <1>11, <1>13, <2>1, <2>2
<1>15. /\ p \in Node \cup {NULL} /\ l \in Node \cup {NULL} /\ r \in Node \cup {NULL}
       /\ s \in Node \cup {NULL} /\ q \in Node \cup {NULL} /\ c \in Node \cup {NULL}
  BY <1>1, <1>4, <1>7, <1>13, <1>14
<1> HIDE DEF p, l, r, b, s, q, c
<1>16. /\ t1 \in [D -> Place]
       /\ \A m \in D : /\ t1[m].parent = tree[m].parent /\ t1[m].right = tree[m].right
                       /\ t1[m].left = IF m = q THEN c ELSE tree[m].left
  BY <1>1, <1>13, <1>15, SetLeftIs
<1> HIDE DEF t1
<1>17. /\ t2 \in [D -> Place]
       /\ \A m \in D : /\ t2[m].left = t1[m].left /\ t2[m].right = t1[m].right
                       /\ t2[m].parent = IF m = c THEN q ELSE t1[m].parent
  <2>1. CASE c = NULL
    BY <1>5, <1>16, <2>1
  <2>2. CASE c # NULL
    <3>1. c \in D /\ t2 = SetParent(t1, c, q)
      BY <1>14, <2>2
    <3> HIDE DEF t2
    <3>2. /\ SetParent(t1, c, q) \in [D -> Place]
          /\ \A m \in D : /\ SetParent(t1, c, q)[m].left = t1[m].left /\ SetParent(t1, c, q)[m].right = t1[m].right
                          /\ SetParent(t1, c, q)[m].parent = IF m = c THEN q ELSE t1[m].parent
      BY <1>15, <1>16, <3>1, SetParentIs
    <3> QED
      BY <3>1, <3>2
  <2> QED
    BY <2>1, <2>2
<1> HIDE DEF t2
<1>18. /\ t3 \in [D -> Place]
       /\ \A m \in D : /\ t3[m].parent = t2[m].parent /\ t3[m].right = t2[m].right
                       /\ t3[m].left = IF m = s THEN l ELSE t2[m].left
  BY <1>7, <1>15, <1>17, SetLeftIs
<1> HIDE DEF t3
<1>19. /\ t4 \in [D -> Place]
       /\ \A m \in D : /\ t4[m].left = t3[m].left /\ t4[m].right = t3[m].right
                       /\ t4[m].parent = IF m = l THEN s ELSE t3[m].parent
  BY <1>4, <1>15, <1>18, SetParentIs
<1> HIDE DEF t4
<1>20. /\ t5 \in [D -> Place]
       /\ \A m \in D : /\ t5[m].parent = t4[m].parent /\ t5[m].left = t4[m].left
                       /\ t5[m].right = IF m = s THEN r ELSE t4[m].right
  BY <1>7, <1>15, <1>19, SetRightIs
<1> HIDE DEF t5
<1>21. /\ t6 \in [D -> Place]
       /\ \A m \in D : /\ t6[m].left = t5[m].left /\ t6[m].right = t5[m].right
                       /\ t6[m].parent = IF m = r THEN s ELSE t5[m].parent
  BY <1>4, <1>15, <1>20, SetParentIs
<1> HIDE DEF t6
<1>22. /\ t \in [D -> Place]
       /\ \A m \in D : /\ t[m].left = t6[m].left /\ t[m].right = t6[m].right
                       /\ t[m].parent = IF m = s THEN p ELSE t6[m].parent
  BY <1>7, <1>15, <1>21, SetParentIs
<1> HIDE DEF t
<1>23. \A m \in D : /\ t[m].left = IF m = s THEN l ELSE IF m = q THEN c ELSE tree[m].left
                    /\ t[m].right = IF m = s THEN r ELSE tree[m].right
                    /\ t[m].parent = IF m = s THEN p ELSE IF m = r THEN s ELSE IF m = l THEN s
                                     ELSE IF m = c THEN q ELSE tree[m].parent
  BY <1>16, <1>17, <1>18, <1>19, <1>20, <1>21, <1>22
<1>24. Removed(n, N, at)
  <2>1. /\ s \in Linked /\ s # n /\ s # root /\ tree[n].parent # s
        /\ (at[s] = at[n] + 1 \/ at[s] = at[n] - 1)
    BY <1>7, <1>8, <1>10 DEF p
  <2>2. OnlyChild(tree, s, c)
    BY <1>7 DEF OnlyChild, c
  <2>3. ASSUME NEW m \in Linked \ {n, s}
        PROVE  /\ t[m].left = IF tree[m].left = s THEN c ELSE tree[m].left
               /\ t[m].right = IF tree[m].right = s THEN c ELSE tree[m].right
               /\ t[m].parent = IF m = c THEN IF tree[s].parent = n THEN s ELSE tree[s].parent
                                ELSE IF tree[m].parent = n THEN s ELSE tree[m].parent
    <3>1. /\ t[m].left = IF m = q THEN c ELSE tree[m].left
          /\ t[m].right = tree[m].right
          /\ t[m].parent = IF m = r THEN s ELSE IF m = l THEN s ELSE IF m = c THEN q ELSE tree[m].parent
      BY <1>23
    <3>2. tree[m].left = s <=> m = q
      BY <1>11, <1>13 DEF q
    <3>3. tree[m].right # s
      BY <1>11, <1>13 DEF q
    <3>4. m # NULL /\ (m = c => m # l /\ m # r)
      BY <1>5, <1>14
    <3>5. tree[m].parent = n <=> m = l \/ m = r
      BY <1>11
    <3>6. tree[s].parent = q /\ q # n
      BY <1>12 DEF q
    <3> QED
      BY <3>1, <3>2, <3>3, <3>4, <3>5, <3>6
  <2>4. /\ t[s].left = IF tree[n].left = s THEN c ELSE tree[n].left
        /\ t[s].right = IF tree[n].right = s THEN c ELSE tree[n].right
        /\ t[s].parent = tree[n].parent
    <3>1. t[s].left = l /\ t[s].right = r /\ t[s].parent = p
      BY <1>7, <1>23
    <3> QED
      BY <1>8, <3>1 DEF l, r, p
  <2> QED
    BY <1>3, <1>22, <2>1, <2>2, <2>3, <2>4, RemovedByRaising
<1>25. EndsBecome(n, N, at)
  <2>1. /\ lo[l] \in 1..N /\ at[l] \in 1..N /\ at[n] \in 1..N /\ N \in Nat
        /\ lo[r] \in 1..N /\ hi[l] \in 1..N
    BY <1>1, <1>4, <1>5
  <2>2. /\ leftmost \in D /\ at[leftmost] = 1 /\ rightmost \in D /\ at[rightmost] = N
    BY DEF EndsAre
  <2>3. at[n] # 1 /\ at[n] # N /\ N # 1
    BY <1>4, <2>1
  <2>4. leftmost # n /\ rightmost # n
    BY <2>2, <2>3
  <2> QED
    BY <1>3, <2>2, <2>3, <2>4 DEF EndsBecome
<1> QED
  BY <1>24, <1>25

LEMMA RemoveKeeps ==
    ASSUME NEW N, NEW at, NEW lo, NEW hi, TreeIs(N, at, lo, hi), NEW n \in Linked, RemoveNode(n)
    PROVE  \E l, h : TreeBecomes(N - 1, Without(Linked \ {n}, at, at[n]), l, h)
<1> DEFINE D == Linked
           E == D \ {n}
           a == Without(E, at, at[n])
<1>1. /\ tree \in [D -> Place] /\ Shape(tree, root, N, at, lo, hi) /\ KeysInOrder(D, at)
      /\ number_of_nodes = N
      /\ IF N = 0 THEN leftmost = NULL /\ rightmost = NULL
         ELSE leftmost \in D /\ at[leftmost] = 1 /\ rightmost \in D /\ at[rightmost] = N
  BY DEF TreeIs, IsTree, Linked
<1>2. /\ N \in Nat /\ \A m \in D : at[m] \in 1..N
      /\ \A m, x \in D : at[m] = at[x] => m = x
  BY <1>1, ShapeIs DEF Linked
<1>3. Removable(n, N, at, lo, hi)
  BY <1>1 DEF Removable, KeysInOrder
<1>4. N # 0 /\ at[n] \in 1..N
  BY <1>2
<1>5. EndsAre(N, at)
  BY <1>1, <1>4 DEF EndsAre
<1>6. /\ \/ RemoveLeaf(n) \/ RemoveWithoutRight(n) \/ RemoveWithoutLeft(n)
         \/ RaiseLeftChild(n) \/ RaiseRightChild(n) \/ RaiseSuccessor(n)
      /\ number_of_nodes' = number_of_nodes - 1
  BY DEF RemoveNode
<1>7. Removed(n, N, at) /\ EndsBecome(n, N, at)
  BY <1>3, <1>5, <1>6, LeafRemoved, WithoutRightRemoved, WithoutLeftRemoved,
     LeftChildRaised, RightChildRaised, SuccessorRaised
<1>8. PICK l, h : Shape(tree', root', N - 1, a, l, h)
  BY <1>7 DEF Removed
<1>9. DOMAIN tree' = E /\ tree' \in [E -> Place]
  BY <1>7 DEF Removed
<1>10. KeysInOrder(E, a)
  BY <1>1, <1>2, KeysWithout
<1>11. IF N - 1 = 0 THEN leftmost' = NULL /\ rightmost' = NULL
       ELSE leftmost' \in E /\ a[leftmost'] = 1 /\ rightmost' \in E /\ a[rightmost'] = N - 1
  <2>1. CASE N = 1
    BY <1>7, <2>1 DEF EndsBecome
  <2>2. CASE N # 1
    <3>1. /\ leftmost' \in E /\ at[leftmost'] = IF at[n] = 1 THEN 2 ELSE 1
          /\ rightmost' \in E /\ at[rightmost'] = IF at[n] = N THEN N - 1 ELSE N
      BY <1>7, <2>2 DEF EndsBecome
    <3>2. /\ a[leftmost'] = IF at[leftmost'] > at[n] THEN at[leftmost'] - 1 ELSE at[leftmost']
          /\ a[rightmost'] = IF at[rightmost'] > at[n] THEN at[rightmost'] - 1 ELSE at[rightmost']
      BY <3>1 DEF Without
    <3>3. N - 1 # 0
      BY <1>2, <2>2
    <3> HIDE DEF a, E
    <3>4. a[leftmost'] = 1
      BY <1>2, <1>4, <3>1, <3>2
    <3>5. a[rightmost'] = N - 1
      BY <1>2, <1>4, <2>2, <3>1, <3>2
    <3> QED
      BY <3>1, <3>3, <3>4, <3>5
  <2> QED
    BY <2>1, <2>2
<1>12. number_of_nodes' = N - 1
  BY <1>1, <1>6
<1> HIDE DEF a, E
<1>13. TreeBecomes(N - 1, a, l, h)
  BY <1>8, <1>9, <1>10, <1>11, <1>12 DEF TreeBecomes, IsTree
<1> QED
  BY <1>13 DEF a, E

LEMMA TreeStarts ==
    ASSUME TreeInit
    PROVE  TreeInv
<1> DEFINE f == [m \in {} |-> 1]
<1>1. DOMAIN tree = {} /\ root = NULL /\ leftmost = NULL /\ rightmost = NULL /\ number_of_nodes = 0
  BY DEF TreeInit
<1>2. f = [m \in {} |-> 1]
  OBVIOUS
<1>3. tree \in [{} -> Place]
  BY DEF TreeInit
<1> HIDE DEF f
<1>4. Shape(tree, root, 0, f, f, f)
  BY <1>1, <1>2, ShapeOfNone
<1>5. KeysInOrder({}, f)
  BY DEF KeysInOrder
<1>6. IsTree(tree, root, leftmost, rightmost, number_of_nodes, 0, f, f, f)
  BY <1>1, <1>3, <1>4, <1>5 DEF IsTree
<1> QED
  BY <1>6 DEF TreeInv

LEMMA TreeInvKept ==
    ASSUME NodeAssumption, KeyAssumption, TreeInv, [TreeNext]_treeVars
    PROVE  TreeInv'
<1>1. PICK N, at, lo, hi : TreeIs(N, at, lo, hi)
  BY DEF TreeInv, TreeIs
<1>2. SUFFICES \E M, a, l, h : TreeBecomes(M, a, l, h)
  BY DEF TreeInv, TreeBecomes
<1>3. CASE UNCHANGED treeVars
  <2>1. TreeBecomes(N, at, lo, hi)
    BY <1>1, <1>3 DEF TreeIs, TreeBecomes, treeVars
  <2> QED
    BY <2>1
<1>4. ASSUME NEW n \in Node, Insert(n)
      PROVE  \E M, a, l, h : TreeBecomes(M, a, l, h)
  <2>1. n \in Node \ Linked /\ InsertAfterSearch(n, Search(KeyOf[n]))
    BY <1>4 DEF Insert
  <2>2. \E k \in 1..(N + 1) : \E l, h : TreeBecomes(N + 1, With(Linked \cup {n}, at, n, k, k), l, h)
    BY <1>1, <2>1, InsertKeeps
  <2> QED
    BY <2>2
<1>5. ASSUME NEW n \in Node, Remove(n)
      PROVE  \E M, a, l, h : TreeBecomes(M, a, l, h)
  <2>1. n \in Linked /\ RemoveNode(n)
    BY <1>5 DEF Remove
  <2>2. \E l, h : TreeBecomes(N - 1, Without(Linked \ {n}, at, at[n]), l, h)
    BY <1>1, <2>1, RemoveKeeps
  <2> QED
    BY <2>2
<1> QED
  BY <1>3, <1>4, <1>5 DEF TreeNext

\* Whatever is inserted and removed, in whatever order, the links agree, the
\* iteration meets every node in order, and find() finds every key.
THEOREM TreeStaysSound ==
    ASSUME NodeAssumption, KeyAssumption
    PROVE  TreeSpec => []TreeIsSound
<1>1. TreeInit => TreeInv
  BY TreeStarts
<1>2. TreeInv /\ [TreeNext]_treeVars => TreeInv'
  BY TreeInvKept
<1>3. TreeInv => TreeIsSound
  BY TreeInvSound
<1> QED
  BY <1>1, <1>2, <1>3, PTL DEF TreeSpec

-----------------------------------------------------------------------------
(* The order of the nodes, before and after a step                         *)

OrderFact == \A N, at, lo, hi : Shape(tree, root, N, at, lo, hi) => IsOrder(InOrder, Linked, N, at)

LEMMA OrderIs == OrderFact
<1> SUFFICES ASSUME NEW N, NEW at, NEW lo, NEW hi, Shape(tree, root, N, at, lo, hi)
             PROVE  IsOrder(InOrder, Linked, N, at)
  BY DEF OrderFact
<1> QED
  BY InOrderIs

LEMMA OrderWillBe ==
    ASSUME NEW N, NEW at, NEW lo, NEW hi, Shape(tree', root', N, at, lo, hi)
    PROVE  IsOrder(InOrder', DOMAIN tree', N, at)
<1>1. OrderFact'
  BY OrderIs, PTL
<1> QED
  BY <1>1 DEF OrderFact, Linked

LEMMA OrderWith ==
    ASSUME NEW D, NEW N \in Nat, NEW at, NEW s, IsOrder(s, D, N, at), \A m \in D : at[m] \in 1..N,
           NEW n, n \notin D, NEW k \in 1..(N + 1), NEW z,
           IsOrder(z, D \cup {n}, N + 1, With(D \cup {n}, at, n, k, k))
    PROVE  z = SubSeq(s, 1, k - 1) \o <<n>> \o SubSeq(s, k, N)
<1> DEFINE E == D \cup {n}
           a == With(E, at, n, k, k)
           h == SubSeq(s, 1, k - 1)
           u == SubSeq(s, k, N)
           c == h \o <<n>> \o u
<1>1. /\ s \in Seq(D) /\ Len(s) = N /\ DOMAIN s = 1..N
      /\ \A i \in 1..N : s[i] \in D /\ at[s[i]] = i
  BY DEF IsOrder
<1>2. /\ z \in Seq(E) /\ Len(z) = N + 1 /\ \A m \in E : z[a[m]] = m
  BY DEF IsOrder
<1>3. a[n] = k /\ \A m \in D : a[m] = IF at[m] >= k THEN at[m] + 1 ELSE at[m]
  BY DEF With
<1> HIDE DEF a
<1>4. s \in Seq(E)
  BY <1>1
<1>5. /\ h \in Seq(E) /\ Len(h) = k - 1 /\ \A i \in 1..(k - 1) : h[i] = s[i]
  BY <1>1, <1>4, SubSeqProperties
<1>6. /\ u \in Seq(E) /\ Len(u) = N + 1 - k /\ \A i \in 1..(N + 1 - k) : u[i] = s[k + i - 1]
  BY <1>1, <1>4, SubSeqProperties
<1> HIDE DEF h, u
<1>7. <<n>> \in Seq(E) /\ Len(<<n>>) = 1
  OBVIOUS
<1>8. /\ c \in Seq(E) /\ Len(c) = N + 1
      /\ \A i \in 1..(N + 1) : c[i] = IF i < k THEN s[i] ELSE IF i = k THEN n ELSE s[i - 1]
  <2> DEFINE b == h \o <<n>>
  <2>1. /\ b \in Seq(E) /\ Len(b) = k
        /\ \A i \in 1..k : b[i] = IF i < k THEN h[i] ELSE n
    BY <1>5, <1>7
  <2> HIDE DEF b
  <2>2. /\ b \o u \in Seq(E) /\ Len(b \o u) = N + 1
        /\ \A i \in 1..(N + 1) : (b \o u)[i] = IF i <= k THEN b[i] ELSE u[i - k]
    BY <1>6, <2>1
  <2>3. \A i \in 1..(N + 1) : (b \o u)[i] = IF i < k THEN s[i] ELSE IF i = k THEN n ELSE s[i - 1]
    <3> SUFFICES ASSUME NEW i \in 1..(N + 1)
                 PROVE  (b \o u)[i] = IF i < k THEN s[i] ELSE IF i = k THEN n ELSE s[i - 1]
      OBVIOUS
    <3> DEFINE y == (b \o u)[i]
    <3>1. i < k => y = s[i]
      BY <1>5, <2>1, <2>2
    <3>2. i = k => y = n
      BY <2>1, <2>2
    <3>3. ASSUME i > k
          PROVE  y = s[i - 1]
      <4>1. i - k \in 1..(N + 1 - k) /\ k + (i - k) - 1 = i - 1
        BY <3>3
      <4>2. u[i - k] = s[i - 1]
        BY <1>6, <4>1
      <4> QED
        BY <2>2, <3>3, <4>2
    <3>4. i \in Int /\ k \in Int
      OBVIOUS
    <3> HIDE DEF y
    <3>5. y = IF i < k THEN s[i] ELSE IF i = k THEN n ELSE s[i - 1]
      BY <3>1, <3>2, <3>3, <3>4
    <3> QED
      BY <3>5 DEF y
  <2> QED
    BY <2>2, <2>3 DEF b
<1> HIDE DEF c
<1>9. ASSUME NEW i \in 1..(N + 1)
      PROVE  z[i] = c[i]
  <2>1. CASE i < k
    <3>1. i \in 1..N /\ s[i] \in D /\ at[s[i]] = i
      BY <1>1, <2>1
    <3>2. a[s[i]] = i
      BY <1>3, <2>1, <3>1
    <3> QED
      BY <1>2, <1>8, <2>1, <3>1, <3>2
  <2>2. CASE i = k
    BY <1>2, <1>3, <1>8, <2>2
  <2>3. CASE i > k
    <3> DEFINE m == s[i - 1]
    <3>1. i - 1 \in 1..N /\ m \in D /\ at[m] = i - 1
      BY <1>1, <2>3
    <3>2. c[i] = m
      BY <1>8, <2>3
    <3> HIDE DEF m
    <3>3. a[m] = i
      BY <1>3, <2>3, <3>1
    <3> QED
      BY <1>2, <3>1, <3>2, <3>3
  <2> QED
    BY <2>1, <2>2, <2>3
<1>10. z = c
  BY <1>2, <1>8, <1>9, SeqEqual
<1> QED
  BY <1>10 DEF c, h, u

LEMMA OrderWithout ==
    ASSUME NEW D, NEW N \in Nat, NEW at, NEW s, IsOrder(s, D, N, at), \A m \in D : at[m] \in 1..N,
           NEW n \in D, NEW z,
           IsOrder(z, D \ {n}, N - 1, Without(D \ {n}, at, at[n]))
    PROVE  z = SubSeq(s, 1, at[n] - 1) \o SubSeq(s, at[n] + 1, N)
<1> DEFINE E == D \ {n}
           k == at[n]
           a == Without(E, at, k)
           h == SubSeq(s, 1, k - 1)
           u == SubSeq(s, k + 1, N)
           c == h \o u
<1>1. /\ s \in Seq(D) /\ Len(s) = N /\ DOMAIN s = 1..N
      /\ \A i \in 1..N : s[i] \in D /\ at[s[i]] = i
  BY DEF IsOrder
<1>2. /\ z \in Seq(E) /\ Len(z) = N - 1 /\ \A m \in E : z[a[m]] = m
  BY DEF IsOrder
<1>3. \A m \in E : a[m] = IF at[m] > k THEN at[m] - 1 ELSE at[m]
  BY DEF Without
<1>4. k \in 1..N
  OBVIOUS
<1> HIDE DEF a, k
<1>5. /\ h \in Seq(D) /\ Len(h) = k - 1 /\ \A i \in 1..(k - 1) : h[i] = s[i]
  BY <1>1, <1>4, SubSeqProperties
<1>6. /\ u \in Seq(D) /\ Len(u) = N - k /\ \A i \in 1..(N - k) : u[i] = s[k + i]
  <2>1. \A i \in 1..(N - k) : (k + 1) + i - 1 = k + i
    BY <1>4
  <2> QED
    BY <1>1, <1>4, <2>1, SubSeqProperties
<1> HIDE DEF h, u
<1>7. /\ c \in Seq(D) /\ Len(c) = N - 1
      /\ \A i \in 1..(N - 1) : c[i] = IF i < k THEN s[i] ELSE s[i + 1]
  <2>1. /\ c \in Seq(D) /\ Len(c) = N - 1
        /\ \A i \in 1..(N - 1) : c[i] = IF i <= k - 1 THEN h[i] ELSE u[i - (k - 1)]
    <3>1. /\ c \in Seq(D) /\ Len(c) = Len(h) + Len(u)
          /\ \A i \in 1..(Len(h) + Len(u)) : c[i] = IF i <= Len(h) THEN h[i] ELSE u[i - Len(h)]
      BY <1>5, <1>6, ConcatProperties
    <3>2. Len(h) + Len(u) = N - 1
      BY <1>4, <1>5, <1>6
    <3> QED
      BY <1>5, <3>1, <3>2
  <2> HIDE DEF c
  <2>2. ASSUME NEW i \in 1..(N - 1)
        PROVE  c[i] = IF i < k THEN s[i] ELSE s[i + 1]
    <3>1. CASE i < k
      <4>1. i <= k - 1 /\ i \in 1..(k - 1)
        BY <1>4, <3>1
      <4> QED
        BY <1>5, <2>1, <3>1, <4>1
    <3>2. CASE i >= k
      <4>1. i - (k - 1) \in 1..(N - k) /\ k + (i - (k - 1)) = i + 1 /\ ~(i <= k - 1) /\ ~(i < k)
        BY <1>4, <3>2
      <4>2. u[i - (k - 1)] = s[i + 1]
        BY <1>6, <4>1
      <4> QED
        BY <2>1, <4>1, <4>2
    <3> QED
      BY <1>4, <3>1, <3>2
  <2> QED
    BY <2>1, <2>2
<1> HIDE DEF c
<1>8. ASSUME NEW i \in 1..(N - 1)
      PROVE  z[i] = c[i]
  <2>1. CASE i < k
    <3>1. i \in 1..N /\ s[i] \in D /\ at[s[i]] = i /\ s[i] # n
      BY <1>1, <1>4, <2>1 DEF k
    <3>2. a[s[i]] = i
      BY <1>3, <1>4, <2>1, <3>1
    <3> QED
      BY <1>2, <1>7, <2>1, <3>1, <3>2
  <2>2. CASE i >= k
    <3> DEFINE m == s[i + 1]
    <3>1. i + 1 \in 1..N /\ ~(i < k)
      BY <1>4, <2>2
    <3>2. m \in D /\ at[m] = i + 1
      BY <1>1, <3>1
    <3>3. m # n
      BY <1>4, <2>2, <3>2 DEF k
    <3>4. c[i] = m
      BY <1>7, <3>1
    <3> HIDE DEF m
    <3>5. a[m] = i
      BY <1>3, <1>4, <2>2, <3>2, <3>3
    <3> QED
      BY <1>2, <3>2, <3>3, <3>4, <3>5
  <2> QED
    BY <1>4, <2>1, <2>2
<1>9. z = c
  <2>1. z \in Seq(D) /\ Len(z) = Len(c) /\ \A i \in 1..Len(z) : z[i] = c[i]
    BY <1>2, <1>7, <1>8
  <2> QED
    BY <1>7, <2>1, SeqEqual
<1> QED
  BY <1>9 DEF c, h, u, k

LEMMA OrderIsUnique ==
    ASSUME NEW D, NEW N, NEW at, NEW s, NEW z, IsOrder(s, D, N, at), IsOrder(z, D, N, at)
    PROVE  s = z
<1>1. /\ s \in Seq(D) /\ Len(s) = N /\ z \in Seq(D) /\ Len(z) = N
      /\ \A i \in 1..N : s[i] = z[i]
  BY DEF IsOrder
<1> QED
  BY <1>1, SeqEqual

\* The facts of IsTree that the order of the nodes rests on.
LEMMA TreeIsOrdered ==
    ASSUME NEW N, NEW at, NEW lo, NEW hi, TreeIs(N, at, lo, hi)
    PROVE  /\ N \in Nat /\ \A m \in Linked : at[m] \in 1..N
           /\ \A m, x \in Linked : at[m] = at[x] => m = x
           /\ KeysInOrder(Linked, at) /\ IsOrder(InOrder, Linked, N, at)
<1>1. Shape(tree, root, N, at, lo, hi) /\ KeysInOrder(Linked, at)
  BY DEF TreeIs, IsTree, Linked
<1> QED
  BY <1>1, ShapeIs, InOrderIs DEF Linked

LEMMA TreeBecomesOrdered ==
    ASSUME NEW N, NEW at, NEW lo, NEW hi, TreeBecomes(N, at, lo, hi)
    PROVE  /\ N \in Nat
           /\ \A m, x \in DOMAIN tree' : at[m] = at[x] => m = x
           /\ KeysInOrder(DOMAIN tree', at) /\ IsOrder(InOrder', DOMAIN tree', N, at)
<1>1. Shape(tree', root', N, at, lo, hi) /\ KeysInOrder(DOMAIN tree', at)
  BY DEF TreeBecomes, IsTree
<1>2. N \in Nat /\ \A m, x \in DOMAIN tree' : at[m] = at[x] => m = x
  BY <1>1, ShapeIs
<1>3. IsOrder(InOrder', DOMAIN tree', N, at)
  BY <1>1, OrderWillBe
<1> QED
  BY <1>1, <1>2, <1>3

LEMMA InsertIsPromised ==
    ASSUME NodeAssumption, KeyAssumption, NEW N, NEW at, NEW lo, NEW hi, TreeIs(N, at, lo, hi),
           NEW n \in Node \ Linked, InsertAfterSearch(n, Search(KeyOf[n]))
    PROVE  Order!Insert(n)
<1>0. PICK k \in 1..(N + 1) :
         \E l, h : TreeBecomes(N + 1, With(Linked \cup {n}, at, n, k, k), l, h)
  BY InsertKeeps
<1>1. PICK l, h : TreeBecomes(N + 1, With(Linked \cup {n}, at, n, k, k), l, h)
  BY <1>0
<1> DEFINE D == Linked
           E == D \cup {n}
           a == With(E, at, n, k, k)
           s == InOrder
           z == InOrder'
<1>2. /\ N \in Nat /\ \A m \in D : at[m] \in 1..N
      /\ IsOrder(s, D, N, at)
  BY TreeIsOrdered
<1>3. DOMAIN tree' = E
  BY DEF InsertAfterSearch, InsertRoot, InsertLeft, InsertRight, InsertNext, Leaf, Linked
<1>4. KeysInOrder(E, a) /\ IsOrder(z, E, N + 1, a)
  <2>1. TreeBecomes(N + 1, a, l, h)
    BY <1>1
  <2> HIDE DEF a, z
  <2>2. KeysInOrder(DOMAIN tree', a) /\ IsOrder(InOrder', DOMAIN tree', N + 1, a)
    BY <2>1, TreeBecomesOrdered
  <2> QED
    BY <1>3, <2>2 DEF z
<1>5. Len(s) = N /\ DOMAIN s = 1..N /\ \A i \in 1..N : s[i] \in D
  BY <1>2 DEF IsOrder
<1>6. DOMAIN z = 1..(N + 1) /\ \A i \in 1..(N + 1) : z[i] \in E /\ a[z[i]] = i
  BY <1>4 DEF IsOrder
<1> HIDE DEF D, s, z
<1>7. z = SubSeq(s, 1, k - 1) \o <<n>> \o SubSeq(s, k, N)
  <2>1. n \notin D
    BY DEF D
  <2> QED
    BY <1>2, <1>4, <2>1, OrderWith
<1>8. ~\E i \in DOMAIN s : s[i] = n
  BY <1>5 DEF D
<1>9. \E i \in 0..Len(s) : z = SubSeq(s, 1, i) \o <<n>> \o SubSeq(s, i + 1, Len(s))
  <2> DEFINE i == k - 1
  <2>1. i \in 0..Len(s) /\ i + 1 = k
    BY <1>2, <1>5
  <2>2. z = SubSeq(s, 1, i) \o <<n>> \o SubSeq(s, i + 1, Len(s))
    BY <1>5, <1>7, <2>1
  <2> HIDE DEF i
  <2> QED
    BY <2>1, <2>2
<1> HIDE DEF a, E
<1>10. \A i, j \in DOMAIN z : i < j => KeyOf[z[i]] <= KeyOf[z[j]]
  BY <1>4, <1>6 DEF KeysInOrder
<1> QED
  BY <1>8, <1>9, <1>10 DEF Order!Insert, Order!Has, Order!IsSorted, s, z

LEMMA RemoveIsPromised ==
    ASSUME NEW N, NEW at, NEW lo, NEW hi, TreeIs(N, at, lo, hi), NEW n \in Linked, RemoveNode(n)
    PROVE  Order!Remove(n)
<1>1. PICK l, h : TreeBecomes(N - 1, Without(Linked \ {n}, at, at[n]), l, h)
  BY RemoveKeeps
<1> DEFINE D == Linked
           E == D \ {n}
           a == Without(E, at, at[n])
           s == InOrder
           z == InOrder'
<1>2. /\ N \in Nat /\ \A m \in D : at[m] \in 1..N
      /\ IsOrder(s, D, N, at)
  BY TreeIsOrdered
<1>3. DOMAIN tree' = E
  <2>1. Shape(tree', root', N - 1, a, l, h)
    BY <1>1 DEF TreeBecomes, IsTree
  <2>2. DOMAIN a = DOMAIN tree'
    BY <2>1 DEF Shape, Placed
  <2> QED
    BY <2>2 DEF Without
<1>4. IsOrder(z, E, N - 1, a)
  BY <1>1, <1>3, TreeBecomesOrdered
<1>5. Len(s) = N /\ DOMAIN s = 1..N /\ s[at[n]] = n
  BY <1>2 DEF IsOrder
<1>6. n \in D /\ at[n] \in 1..N
  BY <1>2
<1> HIDE DEF D, s, z
<1>7. z = SubSeq(s, 1, at[n] - 1) \o SubSeq(s, at[n] + 1, N)
  BY <1>2, <1>4, <1>6, OrderWithout
<1>8. \E i \in DOMAIN s : s[i] = n /\ z = SubSeq(s, 1, i - 1) \o SubSeq(s, i + 1, Len(s))
  BY <1>5, <1>6, <1>7
<1> QED
  BY <1>8 DEF Order!Remove, s, z

LEMMA TreeStaysOrdered ==
    ASSUME NodeAssumption, KeyAssumption, TreeInv, [TreeNext]_treeVars
    PROVE  [Order!Next]_InOrder
<1>1. PICK N, at, lo, hi : TreeIs(N, at, lo, hi)
  BY DEF TreeInv, TreeIs
<1>2. CASE UNCHANGED treeVars
  <2>1. TreeBecomes(N, at, lo, hi)
    BY <1>1, <1>2 DEF TreeIs, TreeBecomes, treeVars
  <2>2. DOMAIN tree' = Linked
    BY <1>2 DEF treeVars, Linked
  <2>3. IsOrder(InOrder, Linked, N, at) /\ IsOrder(InOrder', Linked, N, at)
    BY <1>1, <2>1, <2>2, TreeIsOrdered, TreeBecomesOrdered
  <2> QED
    BY <2>3, OrderIsUnique
<1>3. ASSUME NEW n \in Node, Insert(n)
      PROVE  Order!Next
  <2>1. Order!Insert(n)
    BY <1>1, <1>3, InsertIsPromised DEF Insert
  <2> QED
    BY <2>1 DEF Order!Next
<1>4. ASSUME NEW n \in Node, Remove(n)
      PROVE  Order!Next
  <2>1. Order!Remove(n)
    BY <1>1, <1>4, RemoveIsPromised DEF Remove
  <2> QED
    BY <2>1 DEF Order!Next
<1> QED
  BY <1>2, <1>3, <1>4 DEF TreeNext

LEMMA TreeStartsOrdered ==
    ASSUME TreeInit
    PROVE  Order!Init
<1>1. PICK N, at, lo, hi : TreeIs(N, at, lo, hi)
  BY TreeStarts DEF TreeInv, TreeIs
<1>2. IsOrder(InOrder, Linked, N, at) /\ Linked = {} /\ N \in Nat
  BY <1>1, TreeIsOrdered DEF TreeInit, Linked
<1>3. InOrder \in Seq({}) /\ Len(InOrder) = N /\ \A i \in 1..N : InOrder[i] \in {}
  BY <1>2 DEF IsOrder
<1>4. N = 0
  BY <1>2, <1>3
<1>5. InOrder = << >>
  BY <1>3, <1>4, EmptySeq
<1> QED
  BY <1>5 DEF Order!Init

\* The tree is the sequence of its nodes in the order of their keys.
THEOREM TreeIsSortedSequence ==
    ASSUME NodeAssumption, KeyAssumption
    PROVE  TreeSpec => SortedByKey
<1>1. TreeInit => TreeInv /\ Order!Init
  BY TreeStarts, TreeStartsOrdered
<1>2. TreeInv /\ [TreeNext]_treeVars => TreeInv' /\ [Order!Next]_InOrder
  BY TreeInvKept, TreeStaysOrdered
<1> QED
  BY <1>1, <1>2, PTL DEF TreeSpec, SortedByKey, Order!Spec

-----------------------------------------------------------------------------
(* The map                                                                 *)

LEMMA InsertLinks ==
    ASSUME NEW n, NEW found, InsertAfterSearch(n, found)
    PROVE  Linked' = Linked \cup {n}
  BY DEF InsertAfterSearch, InsertRoot, InsertLeft, InsertRight, InsertNext, Leaf, Linked

LEMMA RemoveUnlinks ==
    ASSUME NEW N, NEW at, NEW lo, NEW hi, TreeIs(N, at, lo, hi), NEW n \in Linked, RemoveNode(n)
    PROVE  Linked' = Linked \ {n}
<1> DEFINE a == Without(Linked \ {n}, at, at[n])
<1>1. PICK l, h : TreeBecomes(N - 1, a, l, h)
  BY RemoveKeeps
<1>2. Shape(tree', root', N - 1, a, l, h)
  BY <1>1 DEF TreeBecomes, IsTree
<1>3. DOMAIN a = DOMAIN tree'
  BY <1>2 DEF Shape, Placed
<1> QED
  BY <1>3 DEF Without, Linked

LEMMA SearchStays ==
    ASSUME NEW key, UNCHANGED treeVars, UNCHANGED sr
    PROVE  Search(sr.key)' = Search(sr.key)
  BY DEF Search, treeVars, Linked

\* The inductive invariant.  The destructor is always at the first element
\* that is left, since next() is called before this element is removed.
MapInv ==
    /\ TreeInv
    /\ value \in [Linked -> Value]
    /\ UniqueKeys
    /\ sr # NULL => sr.key \in Key /\ sr.found = Search(sr.key)
    /\ iterator \in Pointer /\ element_to_delete \in Pointer
    /\ alive \in BOOLEAN
    /\ alive => element_to_delete = NULL
    /\ ~alive => iterator = NULL /\ sr = NULL /\ element_to_delete = leftmost

MapConstants == NodeAssumption /\ KeyAssumption /\ NullAssumption

LEMMA SearchNode ==
    ASSUME KeyAssumption, NEW N, NEW at, NEW lo, NEW hi, TreeIs(N, at, lo, hi), NEW key \in Key
    PROVE  /\ Search(key).node \in Pointer
           /\ IsMatch(Search(key)) => Search(key).node \in Linked /\ KeyOf[Search(key).node] = key
           /\ ~IsMatch(Search(key)) => \A m \in Linked : KeyOf[m] # key
<1> DEFINE e == Search(key)
           x == e.node
           D == Linked
<1>1. Shape(tree, root, N, at, lo, hi) /\ KeysInOrder(D, at)
  BY DEF TreeIs, IsTree, Linked
<1>2. key \in Int
  BY DEF KeyAssumption, Key
<1>3. IF N = 0 THEN e = [node |-> NULL, cmp |-> 0]
      ELSE /\ x \in D /\ e.cmp \in {-1, 0, 1}
           /\ e.cmp = 0 => KeyOf[x] = key
           /\ e.cmp = -1 => /\ tree[x].left = NULL /\ key < KeyOf[x]
                            /\ \A y \in D : at[y] < at[x] => KeyOf[y] < key
           /\ e.cmp = 1 => /\ tree[x].right = NULL /\ KeyOf[x] < key
                           /\ \A y \in D : at[x] < at[y] => key < KeyOf[y]
  BY <1>1, <1>2, SearchIs
<1> HIDE DEF e
<1>4. /\ N \in Nat /\ NULL \notin D
      /\ \A m \in D : at[m] \in 1..N
      /\ \A m, y \in D : at[m] = at[y] => m = y
      /\ \A m, y \in D : at[m] < at[y] => KeyOf[m] <= KeyOf[y]
      /\ D \subseteq Node
  BY <1>1, ShapeIs DEF KeysInOrder, Linked
<1>5. \A m \in D : KeyOf[m] \in Int /\ at[m] \in Int
  BY <1>4 DEF KeyAssumption
<1>6. CASE N = 0
  <2>1. x = NULL /\ D = {}
    BY <1>3, <1>4, <1>6
  <2> QED
    BY <2>1 DEF e, IsMatch, Pointer
<1>7. CASE N # 0
  <2>1. x \in D /\ x # NULL
    BY <1>3, <1>4, <1>7
  <2>2. ASSUME e.cmp # 0, NEW m \in D
        PROVE  KeyOf[m] # key
    <3>1. m = x \/ at[m] < at[x] \/ at[x] < at[m]
      BY <1>4, <1>5, <2>1
    <3>2. CASE e.cmp = -1
      <4>1. key < KeyOf[x] /\ \A y \in D : at[y] < at[x] => KeyOf[y] < key
        BY <1>3, <1>7, <3>2
      <4>2. KeyOf[x] \in Int /\ KeyOf[m] \in Int /\ (at[x] < at[m] => KeyOf[x] <= KeyOf[m])
        BY <1>4, <1>5, <2>1
      <4> HIDE DEF x, D
      <4> QED
        BY <1>2, <3>1, <4>1, <4>2
    <3>3. CASE e.cmp = 1
      <4>1. KeyOf[x] < key /\ \A y \in D : at[x] < at[y] => key < KeyOf[y]
        BY <1>3, <1>7, <3>3
      <4>2. KeyOf[x] \in Int /\ KeyOf[m] \in Int /\ (at[m] < at[x] => KeyOf[m] <= KeyOf[x])
        BY <1>4, <1>5, <2>1
      <4> HIDE DEF x, D
      <4> QED
        BY <1>2, <3>1, <4>1, <4>2
    <3> QED
      BY <1>3, <1>7, <2>2, <3>2, <3>3
  <2>3. IsMatch(e) <=> e.cmp = 0
    BY <2>1 DEF IsMatch
  <2>4. e.cmp = 0 => KeyOf[x] = key
    BY <1>3, <1>7
  <2> QED
    BY <2>1, <2>2, <2>3, <2>4 DEF e, Pointer
<1> QED
  BY <1>6, <1>7

LEMMA FindNode ==
    ASSUME KeyAssumption, NEW N, NEW at, NEW lo, NEW hi, TreeIs(N, at, lo, hi), NEW key \in Key,
           Find(key) # NULL
    PROVE  Find(key) \in Linked /\ KeyOf[Find(key)] = key
<1>1. Shape(tree, root, N, at, lo, hi) /\ KeysInOrder(Linked, at)
  BY DEF TreeIs, IsTree, Linked
<1>2. key \in Int
  BY DEF KeyAssumption, Key
<1>3. IF \E m \in Linked : KeyOf[m] = key
      THEN Find(key) \in Linked /\ KeyOf[Find(key)] = key ELSE Find(key) = NULL
  BY <1>1, <1>2, FindIs
<1> QED
  BY <1>3

LEMMA MapInvSound ==
    ASSUME MapConstants, MapInv
    PROVE  MapIsSound
<1>1. TreeIsSound
  BY TreeInvSound DEF MapInv, MapConstants
<1>2. PICK N, at, lo, hi : TreeIs(N, at, lo, hi)
  BY DEF MapInv, TreeInv, TreeIs
<1>3. sr # NULL => sr.found.node \in Pointer
  BY <1>2, SearchNode DEF MapInv, MapConstants
<1>4. MapTypeOK
  BY <1>1, <1>3 DEF MapInv, MapTypeOK, TreeIsSound
<1>5. NothingLeaks
  <2> SUFFICES ASSUME ~alive, element_to_delete = NULL
               PROVE  Linked = {} /\ number_of_nodes = 0
    BY DEF NothingLeaks
  <2>1. leftmost = NULL
    BY DEF MapInv
  <2>2. /\ Shape(tree, root, N, at, lo, hi) /\ number_of_nodes = N
        /\ N # 0 => leftmost \in Linked
    BY <1>2 DEF TreeIs, IsTree, Linked
  <2>3. /\ NULL \notin Linked /\ \A m \in Linked : at[m] \in 1..N
    BY <2>2, ShapeIs DEF Linked
  <2>4. N = 0
    BY <2>1, <2>2, <2>3
  <2> QED
    BY <2>2, <2>3, <2>4
<1> QED
  BY <1>4, <1>5 DEF MapInv, MapIsSound

\* The first element, and the one after it when it is removed.
LEMMA LeftmostIs ==
    ASSUME NEW N, NEW at, NEW lo, NEW hi, TreeIs(N, at, lo, hi)
    PROVE  IF N = 0 THEN leftmost = NULL /\ Linked = {} ELSE leftmost \in Linked /\ at[leftmost] = 1
<1>1. /\ Shape(tree, root, N, at, lo, hi)
      /\ IF N = 0 THEN leftmost = NULL ELSE leftmost \in Linked /\ at[leftmost] = 1
  BY DEF TreeIs, IsTree, Linked
<1>2. N \in Nat /\ \A m \in Linked : at[m] \in 1..N
  BY <1>1, ShapeIs DEF Linked
<1> QED
  BY <1>1, <1>2

LEMMA FirstRemoved ==
    ASSUME NEW N, NEW at, NEW lo, NEW hi, TreeIs(N, at, lo, hi), leftmost # NULL, RemoveNode(leftmost)
    PROVE  leftmost \in Linked /\ leftmost' = NextNode(leftmost) /\ leftmost' \in Pointer'
<1> DEFINE n == leftmost
           y == NextNode(leftmost)
           D == Linked
           E == D \ {n}
           a == Without(E, at, at[n])
<1>1. /\ Shape(tree, root, N, at, lo, hi)
      /\ N # 0 /\ n \in D /\ at[n] = 1
  BY LeftmostIs DEF TreeIs, IsTree
<1>2. /\ N \in Nat /\ NULL \notin D /\ \A m \in D : at[m] \in 1..N
      /\ \A m, x \in D : at[m] = at[x] => m = x
  BY <1>1, ShapeIs DEF Linked
<1>3. IF at[n] = N THEN y = NULL ELSE y \in D /\ at[y] = at[n] + 1
  BY <1>1, NextIs
<1>4. PICK l, h : TreeBecomes(N - 1, a, l, h)
  BY <1>1, RemoveKeeps
<1>5. Linked' = E
  BY <1>1, RemoveUnlinks
<1>6. IF N - 1 = 0 THEN leftmost' = NULL ELSE leftmost' \in E /\ a[leftmost'] = 1
  BY <1>4, <1>5 DEF TreeBecomes, IsTree, Linked
<1>7. \A m \in E : a[m] = IF at[m] > 1 THEN at[m] - 1 ELSE at[m]
  BY <1>1 DEF Without
<1> HIDE DEF a, y
<1>8. leftmost' = y
  <2>1. CASE N = 1
    BY <1>1, <1>3, <1>6, <2>1
  <2>2. CASE N # 1
    <3>1. leftmost' \in E /\ a[leftmost'] = 1
      BY <1>2, <1>6, <2>2
    <3>2. y \in D /\ at[y] = 2
      BY <1>1, <1>3, <2>2
    <3> HIDE DEF n
    <3>3. at[leftmost'] \in 1..N /\ at[leftmost'] # 1
      BY <1>1, <1>2, <3>1
    <3>4. at[leftmost'] = 2
      BY <1>7, <3>1, <3>3
    <3> QED
      BY <1>2, <3>1, <3>2, <3>4
  <2> QED
    BY <2>1, <2>2
<1>9. leftmost' \in Pointer'
  BY <1>5, <1>6 DEF Pointer
<1> QED
  BY <1>1, <1>8, <1>9 DEF n, y, D

LEMMA TreeRestarts == TreeInit' => TreeInv'
<1>1. TreeInit => TreeInv
  BY TreeStarts
<1> QED
  BY <1>1, PTL

LEMMA MapStarts ==
    ASSUME Init
    PROVE  MapInv
<1>1. TreeInv
  BY TreeStarts DEF Init
<1>2. Linked = {} /\ leftmost = NULL
  BY DEF Init, TreeInit, Linked
<1>3. value \in [Linked -> Value]
  BY <1>2 DEF Init
<1> QED
  BY <1>1, <1>2, <1>3 DEF Init, MapInv, UniqueKeys, Pointer

\* What adding an element with a new key, or overwriting one, leaves true.
LEMMA ElementInserted ==
    ASSUME MapConstants, MapInv, alive, NEW key \in Key, NEW v \in Value, InsertElement(key, v, Search(key))
    PROVE  MapInv'
<1>1. PICK N, at, lo, hi : TreeIs(N, at, lo, hi)
  BY DEF MapInv, TreeInv, TreeIs
<1>2. PICK n \in Node \ Linked :
         /\ KeyOf[n] = key
         /\ InsertAfterSearch(n, Search(key))
         /\ value' = [m \in Linked \cup {n} |-> IF m = n THEN v ELSE value[m]]
  BY DEF InsertElement
<1>3. ~IsMatch(Search(key)) /\ sr' = NULL /\ UNCHANGED <<iterator, alive, element_to_delete>>
  BY DEF InsertElement
<1>4. TreeInv'
  <2>1. \E k \in 1..(N + 1) : \E l, h : TreeBecomes(N + 1, With(Linked \cup {n}, at, n, k, k), l, h)
    BY <1>1, <1>2, InsertKeeps DEF MapConstants
  <2> QED
    BY <2>1 DEF TreeInv, TreeBecomes
<1>5. Linked' = Linked \cup {n}
  BY <1>2, InsertLinks
<1>6. value' \in [Linked' -> Value]
  <2>1. value \in [Linked -> Value]
    BY DEF MapInv
  <2> QED
    BY <1>2, <1>5, <2>1
<1>7. UniqueKeys'
  <2>1. \A m \in Linked : KeyOf[m] # KeyOf[n]
    BY <1>1, <1>2, <1>3, SearchNode DEF MapConstants
  <2>2. \A m, x \in Linked : KeyOf[m] = KeyOf[x] => m = x
    BY DEF MapInv, UniqueKeys
  <2>3. \A m, x \in Linked \cup {n} : KeyOf[m] = KeyOf[x] => m = x
    BY <2>1, <2>2
  <2> QED
    BY <1>5, <2>3 DEF UniqueKeys
<1>8. iterator' \in Pointer' /\ element_to_delete' \in Pointer'
  BY <1>3, <1>5 DEF MapInv, Pointer
<1> QED
  BY <1>3, <1>4, <1>6, <1>7, <1>8 DEF MapInv

LEMMA NothingElseMoved ==
    ASSUME MapInv, UNCHANGED treeVars
    PROVE  TreeInv' /\ UniqueKeys' /\ Linked' = Linked /\ Pointer' = Pointer
  BY DEF MapInv, TreeInv, UniqueKeys, Pointer, Linked, treeVars

LEMMA ElementRemoved ==
    ASSUME MapConstants, MapInv, NEW n \in Linked, RemoveNode(n),
           value' = [m \in Linked \ {n} |-> value[m]]
    PROVE  /\ TreeInv' /\ UniqueKeys' /\ Linked' = Linked \ {n} /\ value' \in [Linked' -> Value]
<1>1. PICK N, at, lo, hi : TreeIs(N, at, lo, hi)
  BY DEF MapInv, TreeInv, TreeIs
<1>2. TreeInv'
  <2>1. \E l, h : TreeBecomes(N - 1, Without(Linked \ {n}, at, at[n]), l, h)
    BY <1>1, RemoveKeeps
  <2> QED
    BY <2>1 DEF TreeInv, TreeBecomes
<1>3. Linked' = Linked \ {n}
  BY <1>1, RemoveUnlinks
<1>4. UniqueKeys' /\ value' \in [Linked' -> Value]
  BY <1>3 DEF MapInv, UniqueKeys
<1> QED
  BY <1>2, <1>3, <1>4

LEMMA MapInvKept ==
    ASSUME MapConstants, MapInv, [Next]_mapVars
    PROVE  MapInv'
<1>1. PICK N, at, lo, hi : TreeIs(N, at, lo, hi)
  BY DEF MapInv, TreeInv, TreeIs
<1>2. Shape(tree, root, N, at, lo, hi)
  BY <1>1 DEF TreeIs, IsTree
<1>3. CASE UNCHANGED mapVars
  <2>1. UNCHANGED treeVars /\ UNCHANGED <<value, sr, iterator, alive, element_to_delete>>
    BY <1>3 DEF mapVars
  <2>2. sr' # NULL => sr'.key \in Key /\ sr'.found = Search(sr.key)'
    BY <2>1, SearchStays DEF MapInv
  <2>3. leftmost' = leftmost
    BY <2>1 DEF treeVars
  <2> QED
    BY <2>1, <2>2, <2>3, NothingElseMoved DEF MapInv
<1>4. CASE Construct
  <2>1. TreeInit'
    BY <1>4 DEF Construct, TreeInit
  <2>2. TreeInv'
    BY <2>1, TreeRestarts
  <2>3. Linked' = {}
    BY <1>4 DEF Construct, Linked
  <2> QED
    BY <1>4, <2>2, <2>3 DEF Construct, MapInv, UniqueKeys, Pointer
<1>5. ASSUME NEW key \in Key, SearchFor(key)
      PROVE  MapInv'
  <2>1. /\ alive /\ sr' = [key |-> key, found |-> Search(key)] /\ UNCHANGED treeVars
        /\ UNCHANGED <<value, iterator, alive, element_to_delete>>
    BY <1>5 DEF SearchFor
  <2>2. Search(sr.key)' = Search(key)
    BY <2>1 DEF Search, treeVars, Linked
  <2>3. sr'.key \in Key /\ sr'.found = Search(sr.key)'
    BY <2>1, <2>2
  <2> QED
    BY <2>1, <2>3, NothingElseMoved DEF MapInv
<1>6. ASSUME NEW key \in Key, RemoveKey(key)
      PROVE  MapInv'
  <2> DEFINE n == Find(key)
  <2>1. /\ alive /\ n # NULL /\ RemoveNode(n) /\ value' = [m \in Linked \ {n} |-> value[m]]
        /\ iterator' = IF iterator = n THEN NULL ELSE iterator
        /\ sr' = NULL /\ UNCHANGED <<alive, element_to_delete>>
    BY <1>6 DEF RemoveKey
  <2>2. n \in Linked
    BY <1>1, <2>1, FindNode DEF MapConstants
  <2> HIDE DEF n
  <2>3. /\ TreeInv' /\ UniqueKeys' /\ Linked' = Linked \ {n} /\ value' \in [Linked' -> Value]
    BY <2>1, <2>2, ElementRemoved
  <2>4. iterator' \in Pointer' /\ element_to_delete' \in Pointer'
    BY <2>1, <2>3 DEF MapInv, Pointer
  <2> QED
    BY <2>1, <2>3, <2>4 DEF MapInv
<1>7. ASSUME NEW key \in Key, NEW v \in Value, alive, Overwrite(key, v, Search(key))
      PROVE  MapInv'
  <2>1. /\ IsMatch(Search(key)) /\ value' = [value EXCEPT ![Search(key).node] = v]
        /\ UNCHANGED treeVars /\ UNCHANGED <<sr, iterator, alive, element_to_delete>>
    BY <1>7 DEF Overwrite
  <2>2. value' \in [Linked -> Value]
    BY <2>1 DEF MapInv
  <2>3. sr' # NULL => sr'.key \in Key /\ sr'.found = Search(sr.key)'
    BY <2>1, SearchStays DEF MapInv
  <2> QED
    BY <1>7, <2>1, <2>2, <2>3, NothingElseMoved DEF MapInv
<1>8. ASSUME NEW key \in Key, NEW v \in Value, InsertKey(key, v)
      PROVE  MapInv'
  <2>1. alive /\ (Overwrite(key, v, Search(key)) \/ InsertElement(key, v, Search(key)))
    BY <1>8 DEF InsertKey
  <2> QED
    BY <1>7, <2>1, ElementInserted
<1>9. ASSUME NEW v \in Value, InsertNew(v)
      PROVE  MapInv'
  <2>1. alive /\ sr # NULL /\ InsertElement(sr.key, v, sr.found)
    BY <1>9 DEF InsertNew
  <2>2. sr.key \in Key /\ sr.found = Search(sr.key)
    BY <2>1 DEF MapInv
  <2> QED
    BY <2>1, <2>2, ElementInserted
<1>10. ASSUME alive, NEW x \in Pointer, iterator' = x,
              UNCHANGED <<treeVars, value, sr, alive, element_to_delete>>
       PROVE  MapInv'
  <2>1. UNCHANGED treeVars /\ UNCHANGED <<value, sr, alive, element_to_delete>>
    BY <1>10
  <2>2. sr' # NULL => sr'.key \in Key /\ sr'.found = Search(sr.key)'
    BY <2>1, SearchStays DEF MapInv
  <2> QED
    BY <1>10, <2>1, <2>2, NothingElseMoved DEF MapInv
<1>11. CASE Begin
  <2>1. leftmost \in Pointer
    BY <1>1, LeftmostIs DEF Pointer
  <2> QED
    BY <1>10, <1>11, <2>1 DEF Begin
<1>12. CASE Advance
  <2>1. iterator \in Linked
    BY <1>12 DEF Advance, MapInv, Pointer
  <2>2. NextNode(iterator) \in Pointer
    BY <1>2, <2>1, NextIs DEF Pointer
  <2> QED
    BY <1>10, <1>12, <2>2 DEF Advance
<1>13. CASE Retreat
  <2>1. iterator \in Linked
    BY <1>13 DEF Retreat, MapInv, Pointer
  <2>2. PrevNode(iterator) \in Pointer
    BY <1>2, <2>1, PrevIs DEF Pointer
  <2> QED
    BY <1>10, <1>13, <2>2 DEF Retreat
<1>14. CASE Destroy
  <2>1. /\ alive' = FALSE /\ element_to_delete' = leftmost
        /\ iterator' = NULL /\ sr' = NULL /\ UNCHANGED treeVars /\ value' = value
    BY <1>14 DEF Destroy
  <2>2. leftmost \in Pointer /\ leftmost' = leftmost
    BY <1>1, <2>1, LeftmostIs DEF Pointer, treeVars
  <2> QED
    BY <2>1, <2>2, NothingElseMoved DEF MapInv, Pointer
<1>15. CASE DeleteNext
  <2> DEFINE n == element_to_delete
  <2>1. /\ ~alive /\ n # NULL /\ n' = NextNode(n) /\ RemoveNode(n)
        /\ value' = [m \in Linked \ {n} |-> value[m]] /\ UNCHANGED <<sr, iterator, alive>>
    BY <1>15 DEF DeleteNext
  <2>2. n = leftmost /\ iterator = NULL /\ sr = NULL
    BY <2>1 DEF MapInv
  <2>3. leftmost \in Linked /\ leftmost' = NextNode(leftmost) /\ leftmost' \in Pointer'
    BY <1>1, <2>1, <2>2, FirstRemoved
  <2>4. /\ TreeInv' /\ UniqueKeys' /\ Linked' = Linked \ {n} /\ value' \in [Linked' -> Value]
    BY <2>1, <2>2, <2>3, ElementRemoved
  <2> QED
    BY <2>1, <2>2, <2>3, <2>4 DEF MapInv, Pointer
<1> QED
  BY <1>3, <1>4, <1>5, <1>6, <1>8, <1>9, <1>11, <1>12, <1>13, <1>14, <1>15 DEF Next

\* Of a key there is one element, and the iterator, the kept search result and
\* the destructor, which removes the elements it steps over, stay among those.
THEOREM MapStaysSound ==
    ASSUME NodeAssumption, KeyAssumption, NullAssumption
    PROVE  Spec => []MapIsSound
<1>1. MapConstants
  BY DEF MapConstants
<1>2. Init => MapInv
  BY MapStarts
<1>3. MapInv /\ [Next]_mapVars => MapInv'
  BY <1>1, MapInvKept
<1>4. MapInv => MapIsSound
  BY <1>1, MapInvSound
<1> QED
  BY <1>2, <1>3, <1>4, PTL DEF Spec

-----------------------------------------------------------------------------
(* The function from keys to values                                        *)

KeysOf(L) == {KeyOf[n] : n \in L}
KeysDiffer(L) == \A m, n \in L : KeyOf[m] = KeyOf[n] => m = n
EntriesOf(L, val) == [k \in {KeyOf[n] : n \in L} |-> val[CHOOSE n \in L : KeyOf[n] = k]]

LEMMA EntriesAre ==
    ASSUME NEW L, NEW val, KeysDiffer(L)
    PROVE  /\ DOMAIN EntriesOf(L, val) = KeysOf(L)
           /\ \A n \in L : EntriesOf(L, val)[KeyOf[n]] = val[n]
<1>1. ASSUME NEW n \in L
      PROVE  EntriesOf(L, val)[KeyOf[n]] = val[n]
  <2>1. KeyOf[n] \in {KeyOf[m] : m \in L}
    OBVIOUS
  <2>2. (CHOOSE m \in L : KeyOf[m] = KeyOf[n]) = n
    BY DEF KeysDiffer
  <2> QED
    BY <2>1, <2>2 DEF EntriesOf
<1>2. DOMAIN EntriesOf(L, val) = KeysOf(L)
  BY DEF EntriesOf, KeysOf
<1> QED
  BY <1>1, <1>2

Updated(M, f, x, v) == [m \in M |-> IF m = x THEN v ELSE f[m]]

LEMMA EntriesWith ==
    ASSUME NEW L, NEW val, NEW M, NEW new, KeysDiffer(M),
           NEW x \in M, M = L \cup {x}, NEW v, new = Updated(M, val, x, v)
    PROVE  LET e == EntriesOf(L, val)
               k == KeyOf[x]
           IN  EntriesOf(M, new) = Updated(DOMAIN e \cup {k}, e, k, v)
<1> DEFINE e == EntriesOf(L, val)
           f == EntriesOf(M, new)
           k == KeyOf[x]
<1>1. KeysDiffer(L)
  BY DEF KeysDiffer
<1>2. DOMAIN e = KeysOf(L) /\ \A n \in L : e[KeyOf[n]] = val[n]
  BY <1>1, EntriesAre
<1>3. DOMAIN f = KeysOf(M) /\ \A n \in M : f[KeyOf[n]] = new[n]
  BY EntriesAre
<1>4. f = [j \in DOMAIN f |-> f[j]]
  BY DEF EntriesOf
<1> HIDE DEF e, f
<1>5. DOMAIN f = DOMAIN e \cup {k}
  BY <1>2, <1>3 DEF KeysOf
<1>6. ASSUME NEW j \in DOMAIN f
      PROVE  f[j] = IF j = k THEN v ELSE e[j]
  <2>1. PICK n \in M : j = KeyOf[n]
    BY <1>3 DEF KeysOf
  <2>2. f[j] = IF n = x THEN v ELSE val[n]
    BY <1>3, <2>1 DEF Updated
  <2>3. j = k <=> n = x
    BY <2>1 DEF KeysDiffer
  <2>4. n # x => e[j] = val[n]
    BY <1>2, <2>1
  <2> QED
    BY <2>2, <2>3, <2>4
<1> HIDE DEF k
<1>7. f = Updated(DOMAIN e \cup {k}, e, k, v)
  BY <1>4, <1>5, <1>6 DEF Updated
<1> QED
  BY <1>7 DEF e, f, k

LEMMA EntriesWithout ==
    ASSUME NEW L, NEW val, KeysDiffer(L), NEW x \in L, NEW new, new = [m \in L \ {x} |-> val[m]]
    PROVE  LET e == EntriesOf(L, val)
               k == KeyOf[x]
           IN  k \in DOMAIN e /\ EntriesOf(L \ {x}, new) = [j \in DOMAIN e \ {k} |-> e[j]]
<1> DEFINE M == L \ {x}
           e == EntriesOf(L, val)
           f == EntriesOf(M, new)
           k == KeyOf[x]
<1>1. DOMAIN e = KeysOf(L) /\ \A n \in L : e[KeyOf[n]] = val[n]
  BY EntriesAre
<1>2. KeysDiffer(M)
  BY DEF KeysDiffer
<1> HIDE DEF M
<1>3. DOMAIN f = KeysOf(M) /\ \A n \in M : f[KeyOf[n]] = new[n]
  BY <1>2, EntriesAre
<1>4. f = [j \in DOMAIN f |-> f[j]]
  BY DEF EntriesOf
<1> HIDE DEF e, f
<1>5. DOMAIN f = DOMAIN e \ {k}
  BY <1>1, <1>3 DEF KeysOf, KeysDiffer, M
<1>6. ASSUME NEW j \in DOMAIN f
      PROVE  f[j] = e[j]
  <2>1. PICK n \in M : j = KeyOf[n]
    BY <1>3 DEF KeysOf
  <2> QED
    BY <1>1, <1>3, <2>1 DEF M
<1>7. f = [j \in DOMAIN e \ {k} |-> e[j]]
  BY <1>4, <1>5, <1>6
<1>8. k \in DOMAIN e
  BY <1>1 DEF KeysOf
<1> QED
  BY <1>7, <1>8 DEF e, f, M

\* The keys are in strict order.
LEMMA KeysAscend ==
    ASSUME KeyAssumption, UniqueKeys, NEW N, NEW at, NEW lo, NEW hi, TreeIs(N, at, lo, hi)
    PROVE  /\ \A m \in Linked : at[m] \in 1..N /\ KeyOf[m] \in Int
           /\ \A m, n \in Linked : at[m] < at[n] <=> KeyOf[m] < KeyOf[n]
           /\ \A m, n \in Linked : at[m] = at[n] => m = n
<1>1. Shape(tree, root, N, at, lo, hi) /\ KeysInOrder(Linked, at)
  BY DEF TreeIs, IsTree, Linked
<1>2. /\ N \in Nat /\ \A m \in Linked : at[m] \in 1..N
      /\ \A m, n \in Linked : at[m] = at[n] => m = n
  BY <1>1, ShapeIs DEF Linked
<1>3. \A m \in Linked : KeyOf[m] \in Int /\ at[m] \in Int
  BY <1>1, <1>2 DEF KeysInOrder, KeyAssumption
<1>4. ASSUME NEW m \in Linked, NEW n \in Linked
      PROVE  at[m] < at[n] <=> KeyOf[m] < KeyOf[n]
  <2>1. /\ at[m] < at[n] => KeyOf[m] <= KeyOf[n]
        /\ at[n] < at[m] => KeyOf[n] <= KeyOf[m]
        /\ at[m] = at[n] => m = n
        /\ KeyOf[m] = KeyOf[n] => m = n
    BY <1>1, <1>2 DEF KeysInOrder, UniqueKeys
  <2>2. KeyOf[m] \in Int /\ KeyOf[n] \in Int /\ at[m] \in Int /\ at[n] \in Int
    BY <1>3
  <2>3. CASE m = n
    BY <2>2, <2>3
  <2>4. CASE m # n
    BY <2>1, <2>2, <2>4
  <2> QED
    BY <2>3, <2>4
<1> QED
  BY <1>2, <1>3, <1>4

LEMMA EntriesNow ==
    ASSUME MapInv
    PROVE  /\ Entries = EntriesOf(Linked, value)
           /\ DOMAIN Entries = KeysOf(Linked)
<1>1. KeysDiffer(Linked)
  BY DEF MapInv, UniqueKeys, KeysDiffer
<1>2. Entries = EntriesOf(Linked, value)
  BY DEF Entries, EntriesOf
<1> QED
  BY <1>1, <1>2, EntriesAre

LEMMA PositionIs ==
    ASSUME MapConstants, MapInv
    PROVE  /\ Position = NULL <=> iterator = NULL
           /\ iterator # NULL => iterator \in Linked /\ Position = KeyOf[iterator] /\ Position # NULL
<1>1. TypeOK
  BY MapInvSound DEF MapIsSound, MapTypeOK
<1>2. iterator # NULL => iterator \in Linked
  BY DEF MapInv, Pointer
<1>3. iterator # NULL => KeyOf[iterator] \in Key
  BY <1>1, <1>2 DEF TypeOK, Key
<1> QED
  BY <1>2, <1>3 DEF Position, MapConstants, NullAssumption

LEMMA PutPromised ==
    ASSUME MapConstants, MapInv, NEW key \in Key, NEW v \in Value, alive,
           Overwrite(key, v, Search(key)) \/ InsertElement(key, v, Search(key))
    PROVE  Contents!Put(key, v)
<1>1. PICK N, at, lo, hi : TreeIs(N, at, lo, hi)
  BY DEF MapInv, TreeInv, TreeIs
<1>2. Entries = EntriesOf(Linked, value) /\ Entries' = EntriesOf(Linked', value')
  BY DEF Entries, EntriesOf
<1>3. Position' = Position
  BY DEF Overwrite, InsertElement, Position
<1>4. ASSUME NEW x, KeyOf[x] = key, UniqueKeys', x \in Linked', Linked' = Linked \cup {x},
             value' = [m \in Linked' |-> IF m = x THEN v ELSE value[m]]
      PROVE  Contents!Put(key, v)
  <2>1. KeysDiffer(Linked')
    BY <1>4 DEF UniqueKeys, KeysDiffer
  <2> DEFINE L == Linked
             M == Linked'
             val == value
             new == value'
  <2>2. /\ KeysDiffer(M)
        /\ x \in M /\ M = L \cup {x} /\ new = Updated(M, val, x, v)
    BY <1>4, <2>1 DEF Updated
  <2> HIDE DEF L, M, val, new
  <2>3. LET e == EntriesOf(L, val)
            k == KeyOf[x]
        IN  EntriesOf(M, new) = Updated(DOMAIN e \cup {k}, e, k, v)
    BY ONLY <2>2, EntriesWith
  <2> QED
    BY <1>2, <1>3, <1>4, <2>3 DEF Contents!Put, Updated, L, M, val, new
<1>5. MapInv'
  <2>1. InsertElement(key, v, Search(key)) => MapInv'
    BY ElementInserted
  <2>2. Overwrite(key, v, Search(key)) => InsertKey(key, v)
    BY DEF InsertKey
  <2>3. InsertKey(key, v) => MapInv'
    BY MapInvKept DEF Next
  <2> QED
    BY <2>1, <2>2, <2>3
<1>6. CASE Overwrite(key, v, Search(key))
  <2> DEFINE x == Search(key).node
  <2>1. /\ IsMatch(Search(key)) /\ value' = [value EXCEPT ![x] = v] /\ UNCHANGED treeVars
    BY <1>6 DEF Overwrite
  <2>2. x \in Linked /\ KeyOf[x] = key
    BY <1>1, <2>1, SearchNode DEF MapConstants
  <2> HIDE DEF x
  <2>3. Linked' = Linked
    BY <2>1 DEF treeVars, Linked
  <2>4. value' = [m \in Linked' |-> IF m = x THEN v ELSE value[m]]
    BY <2>1, <2>3 DEF MapInv
  <2>5. Linked' = Linked \cup {x}
    BY <2>2, <2>3
  <2> QED
    BY <1>4, <1>5, <2>2, <2>4, <2>5 DEF MapInv
<1>7. CASE InsertElement(key, v, Search(key))
  <2>1. PICK n \in Node \ Linked :
           /\ KeyOf[n] = key
           /\ InsertAfterSearch(n, Search(key))
           /\ value' = [m \in Linked \cup {n} |-> IF m = n THEN v ELSE value[m]]
    BY <1>7 DEF InsertElement
  <2>2. Linked' = Linked \cup {n}
    BY <2>1, InsertLinks
  <2> QED
    BY <1>4, <1>5, <2>1, <2>2 DEF MapInv
<1> QED
  BY <1>6, <1>7

LEMMA DeletePromised ==
    ASSUME MapConstants, MapInv, NEW n \in Linked, RemoveNode(n),
           value' = [m \in Linked \ {n} |-> value[m]],
           iterator' = IF iterator = n THEN NULL ELSE iterator
    PROVE  Contents!Delete(KeyOf[n]) /\ KeyOf[n] \in Key
<1>1. Linked' = Linked \ {n}
  BY ElementRemoved
<1>2. Entries = EntriesOf(Linked, value) /\ Entries' = EntriesOf(Linked', value')
  BY DEF Entries, EntriesOf
<1>3. \A m, x \in Linked : KeyOf[m] = KeyOf[x] => m = x
  BY DEF MapInv, UniqueKeys
<1>4. KeyOf[n] \in DOMAIN Entries /\ Entries' = [j \in DOMAIN Entries \ {KeyOf[n]} |-> Entries[j]]
  <2> DEFINE L == Linked
             val == value
             new == value'
  <2>1. /\ KeysDiffer(L)
        /\ n \in L /\ new = [m \in L \ {n} |-> val[m]]
    BY <1>3 DEF KeysDiffer
  <2> HIDE DEF L, val, new
  <2>2. LET e == EntriesOf(L, val)
            k == KeyOf[n]
        IN  k \in DOMAIN e /\ EntriesOf(L \ {n}, new) = [j \in DOMAIN e \ {k} |-> e[j]]
    BY ONLY <2>1, EntriesWithout
  <2> QED
    BY <1>1, <1>2, <2>2 DEF L, val, new
<1>5. TypeOK
  BY MapInvSound DEF MapIsSound, MapTypeOK
<1>6. KeyOf[n] \in Key /\ KeyOf[n] # NULL
  BY <1>5 DEF TypeOK, Key, MapConstants, NullAssumption
<1>7. Position' = IF Position = KeyOf[n] THEN NULL ELSE Position
  <2>1. Position' = IF iterator' = NULL THEN NULL ELSE KeyOf[iterator']
    BY DEF Position
  <2>2. CASE iterator = NULL
    BY <1>6, <2>1, <2>2, PositionIs
  <2>3. CASE iterator # NULL
    <3>1. iterator \in Linked /\ Position = KeyOf[iterator]
      BY <2>3, PositionIs
    <3>2. Position = KeyOf[n] <=> iterator = n
      BY <1>3, <3>1
    <3> QED
      BY <2>1, <2>3, <3>1, <3>2
  <2> QED
    BY <2>2, <2>3
<1> QED
  BY <1>4, <1>6, <1>7 DEF Contents!Delete

LEMMA EntriesStay ==
    ASSUME UNCHANGED treeVars, UNCHANGED value
    PROVE  Entries' = Entries
<1>1. Entries = EntriesOf(Linked, value) /\ Entries' = EntriesOf(Linked', value')
  BY DEF Entries, EntriesOf
<1>2. Linked' = Linked
  BY DEF treeVars, Linked
<1> QED
  BY <1>1, <1>2

LEMMA BeginPromised ==
    ASSUME MapConstants, MapInv, Begin
    PROVE  Contents!Begin
<1>1. PICK N, at, lo, hi : TreeIs(N, at, lo, hi)
  BY DEF MapInv, TreeInv, TreeIs
<1>2. iterator' = leftmost /\ UNCHANGED treeVars /\ UNCHANGED value
  BY DEF Begin
<1>3. Entries' = Entries
  BY <1>2, EntriesStay
<1>4. DOMAIN Entries = KeysOf(Linked)
  BY EntriesNow
<1>5. Position' = IF leftmost = NULL THEN NULL ELSE KeyOf[leftmost]
  BY <1>2 DEF Position
<1>6. IF N = 0 THEN leftmost = NULL /\ Linked = {} ELSE leftmost \in Linked /\ at[leftmost] = 1
  BY <1>1, LeftmostIs
<1>7. Contents!IsLeast(Position', DOMAIN Entries)
  <2>1. CASE N = 0
    BY <1>4, <1>5, <1>6, <2>1 DEF Contents!IsLeast, KeysOf
  <2>2. CASE N # 0
    <3>1. leftmost # NULL
      BY <1>6, <2>2, TreeInvSound DEF MapInv, MapConstants, TreeIsSound, TypeOK, NodeAssumption
    <3>2. \A m \in Linked : KeyOf[leftmost] <= KeyOf[m]
      <4>1. /\ \A m \in Linked : at[m] \in 1..N /\ KeyOf[m] \in Int
            /\ \A m, n \in Linked : at[m] < at[n] <=> KeyOf[m] < KeyOf[n]
            /\ \A m, n \in Linked : at[m] = at[n] => m = n
        BY <1>1, KeysAscend DEF MapInv, MapConstants
      <4> QED
        BY <1>6, <2>2, <4>1
    <3> QED
      BY <1>4, <1>5, <1>6, <2>2, <3>1, <3>2 DEF Contents!IsLeast, KeysOf
  <2> QED
    BY <2>1, <2>2
<1> QED
  BY <1>3, <1>7 DEF Contents!Begin

LEMMA AdvancePromised ==
    ASSUME MapConstants, MapInv, Advance
    PROVE  Contents!Go
<1> DEFINE i == iterator
           y == NextNode(i)
<1>1. PICK N, at, lo, hi : TreeIs(N, at, lo, hi)
  BY DEF MapInv, TreeInv, TreeIs
<1>2. i # NULL /\ iterator' = y /\ UNCHANGED treeVars /\ UNCHANGED value
  BY DEF Advance
<1>3. Entries' = Entries
  BY <1>2, EntriesStay
<1>4. DOMAIN Entries = KeysOf(Linked)
  BY EntriesNow
<1>5. i \in Linked /\ Position = KeyOf[i] /\ Position # NULL
  BY <1>2, PositionIs
<1>6. Position' = IF y = NULL THEN NULL ELSE KeyOf[y]
  BY <1>2 DEF Position
<1>7. IF at[i] = N THEN y = NULL ELSE y \in Linked /\ at[y] = at[i] + 1
  <2>1. Shape(tree, root, N, at, lo, hi)
    BY <1>1 DEF TreeIs, IsTree
  <2> QED
    BY <1>5, <2>1, NextIs
<1>8. /\ \A m \in Linked : at[m] \in 1..N /\ KeyOf[m] \in Int
      /\ \A m, n \in Linked : at[m] < at[n] <=> KeyOf[m] < KeyOf[n]
      /\ \A m, n \in Linked : at[m] = at[n] => m = n
  BY <1>1, KeysAscend DEF MapInv, MapConstants
<1>9. NULL \notin Linked
  BY TreeInvSound DEF MapInv, MapConstants, TreeIsSound, TypeOK, NodeAssumption
<1> HIDE DEF i, y
<1>10. Contents!Above(Position) = {j \in KeysOf(Linked) : j > KeyOf[i]}
  BY <1>4, <1>5 DEF Contents!Above
<1>11. Contents!IsLeast(Position', Contents!Above(Position))
  <2>1. CASE at[i] = N
    <3>1. \A m \in Linked : ~(KeyOf[m] > KeyOf[i])
      <4> SUFFICES ASSUME NEW m \in Linked, KeyOf[m] > KeyOf[i]
                   PROVE  FALSE
        OBVIOUS
      <4>1. KeyOf[i] < KeyOf[m]
        BY <1>5, <1>8
      <4>2. at[i] < at[m]
        BY <1>5, <1>8, <4>1
      <4>3. at[i] \in 1..N /\ at[m] \in 1..N
        BY <1>5, <1>8
      <4>4. at[i] \in Int /\ at[m] \in Int /\ at[m] <= at[i]
        BY ONLY <4>3, <2>1
      <4> QED
        BY ONLY <4>2, <4>4
    <3>2. Contents!Above(Position) = {}
      BY <1>10, <3>1 DEF KeysOf
    <3> QED
      BY <1>6, <1>7, <2>1, <3>2 DEF Contents!IsLeast
  <2>2. CASE at[i] # N
    <3>1. y \in Linked /\ at[y] = at[i] + 1 /\ y # NULL
      BY <1>7, <1>9, <2>2
    <3>2. KeyOf[i] < KeyOf[y] /\ KeyOf[i] \in Int /\ KeyOf[y] \in Int
      <4>1. at[i] < at[y]
        BY <1>5, <1>8, <3>1
      <4> QED
        BY <1>5, <1>8, <3>1, <4>1
    <3>3. KeyOf[y] \in Contents!Above(Position)
      BY <1>10, <3>1, <3>2 DEF KeysOf
    <3>4. ASSUME NEW m \in Linked, KeyOf[m] > KeyOf[i]
          PROVE  KeyOf[y] <= KeyOf[m]
      <4>1. KeyOf[m] \in Int /\ at[m] \in 1..N /\ at[i] \in 1..N /\ at[y] \in 1..N
        BY <1>5, <1>8, <3>1
      <4>2. KeyOf[i] < KeyOf[m]
        BY <3>2, <3>4, <4>1
      <4>3. at[i] < at[m]
        BY <1>5, <1>8, <4>2
      <4>4. at[y] < at[m] \/ at[y] = at[m]
        BY <3>1, <4>1, <4>3
      <4>5. KeyOf[y] < KeyOf[m] \/ y = m
        BY <1>8, <3>1, <4>4
      <4> QED
        BY <3>2, <4>1, <4>5
    <3>5. \A j \in Contents!Above(Position) : KeyOf[y] <= j
      BY <1>10, <3>4 DEF KeysOf
    <3> QED
      BY <1>6, <3>1, <3>3, <3>5 DEF Contents!IsLeast
  <2> QED
    BY <2>1, <2>2
<1> QED
  BY <1>3, <1>5, <1>11 DEF Contents!Go

LEMMA RetreatPromised ==
    ASSUME MapConstants, MapInv, Retreat
    PROVE  Contents!GoBack
<1> DEFINE i == iterator
           y == PrevNode(i)
<1>1. PICK N, at, lo, hi : TreeIs(N, at, lo, hi)
  BY DEF MapInv, TreeInv, TreeIs
<1>2. i # NULL /\ iterator' = y /\ UNCHANGED treeVars /\ UNCHANGED value
  BY DEF Retreat
<1>3. Entries' = Entries
  BY <1>2, EntriesStay
<1>4. DOMAIN Entries = KeysOf(Linked)
  BY EntriesNow
<1>5. i \in Linked /\ Position = KeyOf[i] /\ Position # NULL
  BY <1>2, PositionIs
<1>6. Position' = IF y = NULL THEN NULL ELSE KeyOf[y]
  BY <1>2 DEF Position
<1>7. IF at[i] = 1 THEN y = NULL ELSE y \in Linked /\ at[y] = at[i] - 1
  <2>1. Shape(tree, root, N, at, lo, hi)
    BY <1>1 DEF TreeIs, IsTree
  <2> QED
    BY <1>5, <2>1, PrevIs
<1>8. /\ \A m \in Linked : at[m] \in 1..N /\ KeyOf[m] \in Int
      /\ \A m, n \in Linked : at[m] < at[n] <=> KeyOf[m] < KeyOf[n]
      /\ \A m, n \in Linked : at[m] = at[n] => m = n
  BY <1>1, KeysAscend DEF MapInv, MapConstants
<1>9. NULL \notin Linked
  BY TreeInvSound DEF MapInv, MapConstants, TreeIsSound, TypeOK, NodeAssumption
<1> HIDE DEF i, y
<1>10. Contents!Below(Position) = {j \in KeysOf(Linked) : j < KeyOf[i]}
  BY <1>4, <1>5 DEF Contents!Below
<1>11. Contents!IsGreatest(Position', Contents!Below(Position))
  <2>1. CASE at[i] = 1
    <3>1. \A m \in Linked : ~(KeyOf[m] < KeyOf[i])
      <4> SUFFICES ASSUME NEW m \in Linked, KeyOf[m] < KeyOf[i]
                   PROVE  FALSE
        OBVIOUS
      <4>1. at[m] < at[i]
        BY <1>5, <1>8
      <4> QED
        BY <1>8, <2>1, <4>1
    <3>2. Contents!Below(Position) = {}
      BY <1>10, <3>1 DEF KeysOf
    <3> QED
      BY <1>6, <1>7, <2>1, <3>2 DEF Contents!IsGreatest
  <2>2. CASE at[i] # 1
    <3>1. y \in Linked /\ at[y] = at[i] - 1 /\ y # NULL
      BY <1>7, <1>9, <2>2
    <3>2. KeyOf[y] < KeyOf[i] /\ KeyOf[i] \in Int /\ KeyOf[y] \in Int
      <4>1. at[y] < at[i]
        BY <1>5, <1>8, <3>1
      <4> QED
        BY <1>5, <1>8, <3>1, <4>1
    <3>3. KeyOf[y] \in Contents!Below(Position)
      BY <1>10, <3>1, <3>2 DEF KeysOf
    <3>4. ASSUME NEW m \in Linked, KeyOf[m] < KeyOf[i]
          PROVE  KeyOf[y] >= KeyOf[m]
      <4>1. KeyOf[m] \in Int /\ at[m] \in 1..N /\ at[i] \in 1..N /\ at[y] \in 1..N
        BY <1>5, <1>8, <3>1
      <4>2. at[m] < at[i]
        BY <1>5, <1>8, <3>4
      <4>3. at[m] < at[y] \/ at[m] = at[y]
        BY <3>1, <4>1, <4>2
      <4>4. KeyOf[m] < KeyOf[y] \/ y = m
        BY <1>8, <3>1, <4>3
      <4> QED
        BY <3>2, <4>1, <4>4
    <3>5. \A j \in Contents!Below(Position) : KeyOf[y] >= j
      BY <1>10, <3>4 DEF KeysOf
    <3> QED
      BY <1>6, <3>1, <3>3, <3>5 DEF Contents!IsGreatest
  <2> QED
    BY <2>1, <2>2
<1> QED
  BY <1>3, <1>5, <1>11 DEF Contents!GoBack

LEMMA MapIsPromised ==
    ASSUME MapConstants, MapInv, [Next]_mapVars
    PROVE  [Contents!Next]_<<Entries, Position>>
<1>1. PICK N, at, lo, hi : TreeIs(N, at, lo, hi)
  BY DEF MapInv, TreeInv, TreeIs
<1>2. CASE UNCHANGED mapVars
  <2>1. UNCHANGED treeVars /\ UNCHANGED value /\ UNCHANGED iterator
    BY <1>2 DEF mapVars
  <2> QED
    BY <2>1, EntriesStay DEF Position
<1>3. CASE Construct
  <2>1. /\ ~alive /\ element_to_delete = NULL /\ iterator' = iterator
        /\ DOMAIN tree' = {} /\ value' = [n \in {} |-> NULL]
    BY <1>3 DEF Construct
  <2>2. Linked = {}
    BY <2>1, MapInvSound DEF MapIsSound, NothingLeaks
  <2>3. Entries = [k \in {} |-> NULL]
    BY <2>2 DEF Entries
  <2>4. Entries' = [k \in {} |-> NULL]
    BY <2>1 DEF Entries, Linked
  <2>5. Position' = Position
    BY <2>1 DEF Position
  <2> QED
    BY <2>3, <2>4, <2>5
<1>4. ASSUME NEW key \in Key, SearchFor(key)
      PROVE  UNCHANGED <<Entries, Position>>
  <2>1. UNCHANGED treeVars /\ UNCHANGED value /\ UNCHANGED iterator
    BY <1>4 DEF SearchFor
  <2> QED
    BY <2>1, EntriesStay DEF Position
<1>5. ASSUME NEW key \in Key, RemoveKey(key)
      PROVE  Contents!Next
  <2> DEFINE n == Find(key)
  <2>1. /\ n # NULL /\ RemoveNode(n) /\ value' = [m \in Linked \ {n} |-> value[m]]
        /\ iterator' = IF iterator = n THEN NULL ELSE iterator
    BY <1>5 DEF RemoveKey
  <2>2. n \in Linked
    BY <1>1, <2>1, FindNode DEF MapConstants
  <2> HIDE DEF n
  <2>3. Contents!Delete(KeyOf[n]) /\ KeyOf[n] \in Key
    BY <2>1, <2>2, DeletePromised
  <2> QED
    BY <2>3 DEF Contents!Next
<1>6. ASSUME NEW key \in Key, NEW v \in Value, InsertKey(key, v)
      PROVE  Contents!Next
  <2>1. Contents!Put(key, v)
    BY <1>6, PutPromised DEF InsertKey
  <2> QED
    BY <2>1 DEF Contents!Next
<1>7. ASSUME NEW v \in Value, InsertNew(v)
      PROVE  Contents!Next
  <2>1. alive /\ sr # NULL /\ InsertElement(sr.key, v, sr.found)
    BY <1>7 DEF InsertNew
  <2>2. sr.key \in Key /\ sr.found = Search(sr.key)
    BY <2>1 DEF MapInv
  <2>3. Contents!Put(sr.key, v)
    BY <2>1, <2>2, PutPromised
  <2> QED
    BY <2>2, <2>3 DEF Contents!Next
<1>8. CASE Begin \/ Advance \/ Retreat
  BY <1>8, BeginPromised, AdvancePromised, RetreatPromised DEF Contents!Next
<1>9. CASE Destroy
  <2>1. UNCHANGED treeVars /\ UNCHANGED value /\ iterator' = NULL
    BY <1>9 DEF Destroy
  <2>2. Entries' = Entries /\ Position' = NULL
    BY <2>1, EntriesStay DEF Position
  <2> QED
    BY <2>2 DEF Contents!Next, Contents!Leave
<1>10. CASE DeleteNext
  <2> DEFINE n == element_to_delete
  <2>1. /\ ~alive /\ n # NULL /\ RemoveNode(n)
        /\ value' = [m \in Linked \ {n} |-> value[m]] /\ iterator' = iterator
    BY <1>10 DEF DeleteNext
  <2>2. n \in Linked /\ iterator = NULL
    BY <2>1 DEF MapInv, Pointer
  <2> HIDE DEF n
  <2>3. iterator' = IF iterator = n THEN NULL ELSE iterator
    BY <2>1, <2>2
  <2>4. Contents!Delete(KeyOf[n]) /\ KeyOf[n] \in Key
    BY <2>1, <2>2, <2>3, DeletePromised
  <2> QED
    BY <2>4 DEF Contents!Next
<1> QED
  BY <1>2, <1>3, <1>4, <1>5, <1>6, <1>7, <1>8, <1>9, <1>10 DEF Next

LEMMA MapStartsPromised ==
    ASSUME Init
    PROVE  Contents!Init
<1>1. Linked = {} /\ iterator = NULL
  BY DEF Init, TreeInit, Linked
<1> QED
  BY <1>1 DEF Contents!Init, Entries, Position

\* The container is a function from keys to values, with an iterator that goes
\* through the keys in ascending order.
THEOREM MapIsFunction ==
    ASSUME NodeAssumption, KeyAssumption, NullAssumption
    PROVE  Spec => IsOrderedMap
<1>1. MapConstants
  BY DEF MapConstants
<1>2. Init => MapInv /\ Contents!Init
  BY MapStarts, MapStartsPromised
<1>3. MapInv /\ [Next]_mapVars => MapInv' /\ [Contents!Next]_<<Entries, Position>>
  BY <1>1, MapInvKept, MapIsPromised
<1> QED
  BY <1>2, <1>3, PTL DEF Spec, IsOrderedMap, Contents!Spec
==============================================================================
