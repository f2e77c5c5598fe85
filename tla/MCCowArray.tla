------------------------------ MODULE MCCowArray ------------------------------
(* CowArray with three arrays.  While one of the variables holds no object   *)
(* there are two values; while all three do, there is one.                   *)
EXTENDS CowArray, TLC

CONSTANT v1

Plainly == INSTANCE CowArray WITH Value <- {v1}

Plain == \A a \in DOMAIN heap : \A i \in DOMAIN heap[a].data : heap[a].data[i] = v1
Spare == \E h \in Handle : ~IsObject(h)

MCNext ==
    \/ Plain /\ Plainly!Next
    \/ Spare /\ Next /\ Spare'

MCSpec == Init /\ [][MCNext]_vars

Symmetry == Permutations(Handle) \cup Permutations(Address)
=============================================================================
