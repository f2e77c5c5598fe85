------------------------------ MODULE RefObject ------------------------------
(***************************************************************************)
(* object.h, object.cc and ref.h: reference counted objects and the smart  *)
(* pointers to them. Each object of the program has a pointer as a member, *)
(* named by the object itself. delete_this() runs the object's destructor, *)
(* which may run any code of the program before it destroys the member, so *)
(* that calls of release() nest: the calls under way are a stack.          *)
(*                                                                         *)
(* Destructors are taken not to touch a ref that a caller of theirs has    *)
(* called attach() on: it leads to the object that is destroyed.           *)
(***************************************************************************)
EXTENDS Integers, Sequences, FiniteSets, SequencesExt

CONSTANTS
    Objects,
    Singletons,   \* objects whose delete_this() does nothing (io_streams.cc)
    Refs,         \* the program's variables of type ref
    NULL,
    MaxDepth      \* bound on the calls under way

\* What the constants have to be; the module that gives them values assumes it.
RefObjectAssumption ==
    /\ Singletons \subseteq Objects
    /\ Objects \cap Refs = {} /\ NULL \notin Objects \cup Refs
    /\ IsFiniteSet(Objects \cup Refs)
    /\ MaxDepth \in Nat

VARIABLES
    refs,      \* object::refs
    state,     \* of each object: "none", "alive" or "dying"
    obj,       \* ref::obj of each variable and each member
    loose,     \* pointers of the program that hold a reference, after detach()
    stack      \* the calls under way, the innermost last
vars == <<refs, state, obj, loose, stack>>

Slots == Refs \cup Objects

Init ==
    /\ refs = [o \in Objects |-> 0]
    /\ state = [o \in Objects |-> IF o \in Singletons THEN "alive" ELSE "none"]
    /\ obj = [s \in Slots |-> NULL]
    /\ loose = {}
    /\ stack = <<>>

Frame(call, o) == [call |-> call, object |-> o]
Top(call) == stack # <<>> /\ Last(stack).call = call

\* The program runs, or the destructor of a class of its own.
Running == stack = <<>> \/ Top("destroy")

BeingAttached(s) ==
    \E i \in DOMAIN stack : stack[i].call = "store" /\ stack[i].slot = s

\* The refs that running code can get at.
Usable ==
    {s \in Refs : ~BeingAttached(s)}
    \cup {o \in Objects \ Singletons :
             /\ ~BeingAttached(o)
             /\ state[o] = "alive" \/ (Top("destroy") /\ Last(stack).object = o)}

Added(o) == IF o = NULL THEN refs ELSE [refs EXCEPT ![o] = @ + 1]

\* The call of release() for what was in a ref, if anything.
ReleaseOf(o) == IF o = NULL THEN <<>> ELSE <<Frame("release", o)>>

Push(frames) ==
    /\ Len(stack) + Len(frames) <= MaxDepth
    /\ stack' = stack \o frames

-----------------------------------------------------------------------------
(* The operations of ref                                                   *)

\* Mutant of Assign: the old object is released, and the new one not counted
\* when it is the same.
AssignUnlessSame(s, o) ==
    /\ Running
    /\ refs' = IF obj[s] = o THEN refs ELSE Added(o)
    /\ obj' = [obj EXCEPT ![s] = o]
    /\ Push(ReleaseOf(obj[s]))
    /\ UNCHANGED <<state, loose>>

\* assign(), the constructors and the assignment operators.
Assign(s, o) ==
    /\ Running
    /\ refs' = Added(o)
    /\ obj' = [obj EXCEPT ![s] = o]
    /\ Push(ReleaseOf(obj[s]))
    /\ UNCHANGED <<state, loose>>

\* s = new T
AssignNew(s, o) ==
    /\ Running
    /\ state[o] = "none"
    /\ state' = [state EXCEPT ![o] = "alive"]
    /\ refs' = [refs EXCEPT ![o] = 1]
    /\ obj' = [obj EXCEPT ![s] = o]
    /\ Push(ReleaseOf(obj[s]))
    /\ UNCHANGED loose

\* attach() of NULL or of a pointer that holds a reference: release() comes first,
\* so the ref must not be a member of an object that this release() destroys.
Attach(s, o) ==
    /\ Running
    /\ s \in Refs
    /\ o \in loose \cup {NULL}
    /\ loose' = loose \ {o}
    /\ Push(<<[call |-> "store", object |-> o, slot |-> s]>> \o ReleaseOf(obj[s]))
    /\ UNCHANGED <<refs, state, obj>>

Detach(s) ==
    /\ Running
    /\ obj[s] \notin loose \cup {NULL}
    /\ loose' = loose \cup {obj[s]}
    /\ obj' = [obj EXCEPT ![s] = NULL]
    /\ UNCHANGED <<refs, state, stack>>

Swap(s, t) ==
    /\ Running
    /\ obj' = [obj EXCEPT ![s] = obj[t], ![t] = obj[s]]
    /\ UNCHANGED <<refs, state, loose, stack>>

\* The program releases a detached object.
ReleaseLoose(o) ==
    /\ Running
    /\ o \in loose
    /\ loose' = loose \ {o}
    /\ Push(<<Frame("release", o)>>)
    /\ UNCHANGED <<refs, state, obj>>

-----------------------------------------------------------------------------
(* The calls under way                                                     *)

Return(frames) == stack' = Front(stack) \o frames

\* Mutant of Release: the object is destroyed when one reference is left.
ReleaseAtOne ==
    LET o == Last(stack).object
    IN  /\ Top("release")
        /\ refs' = [refs EXCEPT ![o] = @ - 1]
        /\ IF refs'[o] <= 1 /\ o \notin Singletons
           THEN /\ state' = [state EXCEPT ![o] = "dying"]
                /\ Return(<<Frame("destroy", o)>>)
           ELSE /\ Return(<<>>)
                /\ UNCHANGED state
        /\ UNCHANGED <<obj, loose>>

Release ==
    LET o == Last(stack).object
    IN  /\ Top("release")
        /\ refs' = [refs EXCEPT ![o] = @ - 1]
        /\ IF refs'[o] = 0 /\ o \notin Singletons
           THEN /\ state' = [state EXCEPT ![o] = "dying"]
                /\ Return(<<Frame("destroy", o)>>)
           ELSE /\ Return(<<>>)
                /\ UNCHANGED state
        /\ UNCHANGED <<obj, loose>>

\* The body of the destructor is done; ~ref() of the member releases.
DestroyMember ==
    LET o == Last(stack).object
    IN  /\ Top("destroy")
        /\ Return(<<Frame("free", o)>> \o ReleaseOf(obj[o]))
        /\ obj' = [obj EXCEPT ![o] = NULL]
        /\ UNCHANGED <<refs, state, loose>>

\* ~object() and operator delete.
Free ==
    /\ Top("free")
    /\ state' = [state EXCEPT ![Last(stack).object] = "none"]
    /\ Return(<<>>)
    /\ UNCHANGED <<refs, obj, loose>>

\* The assignment at the end of attach().
Store ==
    /\ Top("store")
    /\ obj' = [obj EXCEPT ![Last(stack).slot] = Last(stack).object]
    /\ Return(<<>>)
    /\ UNCHANGED <<refs, state, loose>>

Next ==
    \/ \E s \in Usable :
          \/ \E t \in Usable : Assign(s, obj[t]) \/ Swap(s, t)
          \/ \E o \in Singletons \cup {NULL} : Assign(s, o)
          \/ \E o \in Objects \ Singletons : AssignNew(s, o)
          \/ \E o \in loose \cup {NULL} : Attach(s, o)
          \/ Detach(s)
    \/ \E o \in loose : ReleaseLoose(o)
    \/ Release \/ DestroyMember \/ Free \/ Store

Spec == Init /\ [][Next]_vars

-----------------------------------------------------------------------------
(* Properties                                                              *)

TypeOK ==
    /\ refs \in [Objects -> Int]
    /\ state \in [Objects -> {"none", "alive", "dying"}]
    /\ obj \in [Slots -> Objects \cup {NULL}]
    /\ loose \subseteq Objects

\* What holds a reference to o: refs, a loose pointer, and the calls that are to
\* release it or to store it. The ref of a call of attach() holds none any more.
Count(o) ==
    Cardinality({s \in Slots : obj[s] = o /\ ~BeingAttached(s)})
    + Cardinality({i \in DOMAIN stack :
                      stack[i].object = o /\ stack[i].call \in {"release", "store"}})
    + (IF o \in loose THEN 1 ELSE 0)

(* The count of every object that is not being destroyed is the number of   *)
(* refs and pointers that hold a reference to it, with the releases and     *)
(* stores that calls under way have still to do, however destructors nest.  *)
RefsCountHolders ==
    TypeOK /\ \A o \in Objects :
        IF state[o] = "alive" THEN refs[o] = Count(o)
        ELSE refs[o] = 0 /\ Count(o) = 0

(* An object is deleted as soon as nothing refers to it, once, and not      *)
(* before: no ref that code can use leads to a deleted or dying object,     *)
(* also within destructors, and when all calls have returned every object   *)
(* that is left is referred to.                                             *)
NoDanglingRef ==
    /\ \A s \in Usable : obj[s] # NULL => state[obj[s]] = "alive"
    /\ \A o \in loose : state[o] = "alive"
    /\ \A i, j \in DOMAIN stack :
          i # j /\ {stack[i].call, stack[j].call} \subseteq {"destroy", "free"}
              => stack[i].object # stack[j].object
    /\ stack = <<>> =>
          \A o \in Objects \ Singletons : state[o] = "alive" <=> refs[o] > 0
=============================================================================
