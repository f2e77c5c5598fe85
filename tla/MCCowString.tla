----------------------------- MODULE MCCowString -----------------------------
(* CowString with three strings.  While one of the variables holds no object *)
(* there are two characters; the third string exists, to share a buffer,     *)
(* only while two buffers at most are allocated, of the first character.     *)
EXTENDS CowString, TLC

CONSTANT c1

Text == <<c1>>

Plainly == INSTANCE CowString WITH Char <- {c1}

Plain == \A a \in DOMAIN heap : \A i \in DOMAIN heap[a].data : heap[a].data[i] = c1
Paired == Cardinality(DOMAIN heap \ Static) <= 2
Spare == \E h \in Handle : ~IsObject(h)

MCNext ==
    \/ Plain /\ Plainly!Next /\ (Spare \/ Paired)'
    \/ Spare /\ Next /\ Spare'

MCSpec == Init /\ [][MCNext]_vars

Symmetry == Permutations(Handle) \cup Permutations(Address)
=============================================================================
