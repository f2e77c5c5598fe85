------------------------------ MODULE OrderedMap ------------------------------
(* What b::set and b::map promise: a function from keys to values, and an    *)
(* iterator that moves through the keys in ascending order while elements    *)
(* other than the one it stands on come and go.                              *)
EXTENDS Integers, FiniteSets

CONSTANTS Key,          \* numbers
          Value,
          NULL          \* the position of an iterator beyond the last element

VARIABLES entries,      \* the function
          position      \* the key the iterator stands on

Above(k) == {j \in DOMAIN entries : j > k}
Below(k) == {j \in DOMAIN entries : j < k}

IsLeast(k, S)    == IF S = {} THEN k = NULL ELSE k \in S /\ \A j \in S : k <= j
IsGreatest(k, S) == IF S = {} THEN k = NULL ELSE k \in S /\ \A j \in S : k >= j

Put(k, v) ==
    /\ entries' = [j \in DOMAIN entries \cup {k} |-> IF j = k THEN v ELSE entries[j]]
    /\ UNCHANGED position

Delete(k) ==
    /\ k \in DOMAIN entries
    /\ entries' = [j \in DOMAIN entries \ {k} |-> entries[j]]
    /\ position' = IF position = k THEN NULL ELSE position

Begin  == IsLeast(position', DOMAIN entries) /\ UNCHANGED entries
Go     == position # NULL /\ IsLeast(position', Above(position)) /\ UNCHANGED entries
GoBack == position # NULL /\ IsGreatest(position', Below(position)) /\ UNCHANGED entries
Leave  == position' = NULL /\ UNCHANGED entries

Init == entries = [k \in {} |-> NULL] /\ position = NULL

Next ==
    \/ \E k \in Key : Delete(k) \/ \E v \in Value : Put(k, v)
    \/ Begin \/ Go \/ GoBack \/ Leave

Spec == Init /\ [][Next]_<<entries, position>>
=============================================================================
