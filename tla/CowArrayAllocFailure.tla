-------------------------- MODULE CowArrayAllocFailure --------------------------
(* CowArray when memory::alloc() throws system_exception.                    *)
(*                                                                           *)
(* Every operation but one allocates before it changes anything, and a       *)
(* failure leaves all arrays as they were.  The exception is                 *)
(* discard_and_alloc(), directly or as a part of assign(): it has released   *)
(* the old buffer when it asks for the new one, and the exception leaves the *)
(* object pointing at what it no longer owns.                                *)
EXTENDS CowArray

DiscardAndAllocThrows(h, capacity) ==
    /\ IsObject(h) /\ ~IsLocked(h)
    /\ capacity > 0
    /\ Capacity(h) # capacity \/ IsShared(h)
    /\ heap' = Release(heap, Elements(h))
    /\ UNCHANGED <<elements, locks>>

AssignFromThrows(h, s) ==
    /\ IsShared(h) \/ Len(s) > Capacity(h)
    /\ DiscardAndAllocThrows(h, ExtraCapacity(Len(s)))

NextOrThrow ==
    \/ Next
    \/ \E h \in Handle : \/ \E n \in Index : DiscardAndAllocThrows(h, n)
                         \/ \E s \in Source : AssignFromThrows(h, s)

SpecOrThrow == Init /\ [][NextOrThrow]_vars

\* The assertion with which release() starts: an array that its user has not
\* locked can be released, by the destructor or by the next assignment.
ReleaseAssertion ==
    \A h \in Handle : IsObject(h) /\ locks[h] = 0 =>
        elements[h] \in DOMAIN heap /\ heap[elements[h]].refs > 0
=============================================================================
