----------------------------- MODULE ArrayValues -----------------------------
(* What the class b::array<T> (include/b/array.h) promises to its users:    *)
(* every array object is a sequence of its own.  Nothing here mentions       *)
(* buffers, reference counts, capacities or locks; an operation changes the  *)
(* object it is called on and no other, and copying an object copies its     *)
(* elements.  The results are given element by element, as the reference     *)
(* that the segment-by-segment copying of CowArray is compared with.         *)
(* Indices are those of the code: the first element has index 0.             *)
EXTENDS Integers, Sequences

CONSTANTS Handle,      \* names of array<T> variables
          Value,       \* the elements
          MaxLength,   \* bound: no array grows beyond this length
          NoObject     \* the "value" of a variable that holds no object

VARIABLE value         \* the sequence every array object stands for

Source == UNION {[1..n -> Value] : n \in 0..MaxLength}

IsObject(h) == value[h] # NoObject

Becomes(h, s) == /\ Len(s) <= MaxLength
                 /\ value' = [value EXCEPT ![h] = s]

Construct(h) == ~IsObject(h) /\ \E s \in Source : Becomes(h, s)

Copy(h, g) == IsObject(g) /\ Becomes(h, value[g])

Destroy(h) == IsObject(h) /\ value' = [value EXCEPT ![h] = NoObject]

Assign(h, s) == IsObject(h) /\ Becomes(h, s)

\* v with s over its elements from index i on, grown if needed
Over(v, i, s) ==
    LET n == IF i + Len(s) > Len(v) THEN i + Len(s) ELSE Len(v)
    IN  [k \in 1..n |-> IF k \in i + 1 .. i + Len(s) THEN s[k - i] ELSE v[k]]

\* v with s put in at index i
With(v, i, s) ==
    LET n == Len(s)
    IN  [k \in 1 .. Len(v) + n |->
            IF k <= i THEN v[k] ELSE IF k <= i + n THEN s[k - i] ELSE v[k - n]]

\* v without its elements with indices i to j - 1
Without(v, i, j) ==
    [k \in 1 .. Len(v) - (j - i) |-> IF k <= i THEN v[k] ELSE v[k + (j - i)]]

Overwrite(h, i, s) ==
    IsObject(h) /\ i <= Len(value[h]) /\ Becomes(h, Over(value[h], i, s))

Insert(h, i, s) ==
    IsObject(h) /\ i <= Len(value[h]) /\ Becomes(h, With(value[h], i, s))

Remove(h, i, j) ==
    IsObject(h) /\ i <= j /\ j <= Len(value[h]) /\ Becomes(h, Without(value[h], i, j))

Permute(h) ==
    /\ IsObject(h)
    /\ LET v == value[h]
       IN  \E p \in [DOMAIN v -> DOMAIN v] :
               /\ \A j, k \in DOMAIN v : p[j] = p[k] => j = k
               /\ Becomes(h, [k \in DOMAIN v |-> v[p[k]]])

Concatenate(r, a, b) ==
    /\ ~IsObject(r) /\ IsObject(a) /\ IsObject(b)
    /\ Becomes(r, With(value[a], Len(value[a]), value[b]))

Init == value = [h \in Handle |-> NoObject]

Operation(h) ==
    \/ Construct(h)
    \/ Destroy(h)
    \/ Permute(h)
    \/ \E g \in Handle : Copy(h, g)
    \/ \E s \in Source : Assign(h, s)
    \/ \E i \in 0..MaxLength, s \in Source : Overwrite(h, i, s) \/ Insert(h, i, s)
    \/ \E i, j \in 0..MaxLength : Remove(h, i, j)
    \/ \E a, b \in Handle : Concatenate(h, a, b)

OthersKeepTheirs(h) == \A g \in Handle \ {h} : value'[g] = value[g]

Next == value' # value /\ \E h \in Handle : OthersKeepTheirs(h) /\ Operation(h)

Spec == Init /\ [][Next]_value
=============================================================================
