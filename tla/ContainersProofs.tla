--------------------------- MODULE ContainersProofs ---------------------------
(* The properties of the run "containers", for every value of its constants.  *)
(* A behaviour of MCContainers is one of a single component. The references    *)
(* are proved about here; what is proved about the other components in modules *)
(* of their own holds there.                                                   *)
EXTENDS MCContainers, FiniteSetTheorems, SequenceTheorems, TLAPS

\* The component of a behaviour never changes.
IsList      == component = "list"
IsContainer == component = "container"
IsRef       == component = "ref"
IsQueue     == component = "queue"
IsSort      == component = "sort"

LEMMA OneComponent ==
    MCSpec => /\ []IsList \/ []~IsList
              /\ []IsContainer \/ []~IsContainer
              /\ []IsRef \/ []~IsRef
              /\ []IsQueue \/ []~IsQueue
              /\ []IsSort \/ []~IsSort
<1>1. [MCNext]_vars => /\ IsList' <=> IsList
                       /\ IsContainer' <=> IsContainer
                       /\ IsRef' <=> IsRef
                       /\ IsQueue' <=> IsQueue
                       /\ IsSort' <=> IsSort
  BY DEF MCNext, vars, IsList, IsContainer, IsRef, IsQueue, IsSort
<1> QED
  BY <1>1, PTL DEF MCSpec

-------------------------------------------------------------------------------
(* References *)

(* What matters of a stack, and how one more call changes it *)

Frames == [call : {"release", "destroy", "free"}, object : Objects]
          \cup [call : {"store"}, object : Objects \cup {NULL}, slot : Refs]

\* The call f is to release or to store a reference to o.
Holds(f, o) == f.object = o /\ f.call \in {"release", "store"}
ByCall(f, o) == IF Holds(f, o) THEN 1 ELSE 0

\* The call f destroys an object or frees its memory.
Destroys(f) == f.call \in {"destroy", "free"}

\* The ref or call that v stands for holds a reference to o.
ByRef(v, o) == IF v = o THEN 1 ELSE 0

HoldingCalls(st, o) == {i \in DOMAIN st : Holds(st[i], o)}
Storing(st, s)      == \E i \in DOMAIN st : st[i].call = "store" /\ st[i].slot = s
Destroying(st, o)   == \E i \in DOMAIN st : Destroys(st[i]) /\ st[i].object = o

\* No object is destroyed by two calls, no ref is stored to by two.
NoneTwice(st) ==
    \A i, j \in DOMAIN st : i # j =>
        /\ Destroys(st[i]) /\ Destroys(st[j]) => st[i].object # st[j].object
        /\ st[i].call = "store" /\ st[j].call = "store" => st[i].slot # st[j].slot

LEMMA CallsAreFinite ==
    ASSUME NEW st \in Seq(Frames), NEW o
    PROVE  IsFiniteSet(HoldingCalls(st, o)) /\ Cardinality(HoldingCalls(st, o)) \in Nat
<1>1. IsFiniteSet(1..Len(st)) /\ DOMAIN st = 1..Len(st)
  BY LenProperties, FS_Interval
<1>2. HoldingCalls(st, o) \in SUBSET (1..Len(st))
  BY <1>1 DEF HoldingCalls
<1> QED
  BY <1>1, <1>2, FS_Subset, FS_CardinalityType

LEMMA EmptyStack ==
    /\ << >> \in Seq(Frames)
    /\ \A o : Cardinality(HoldingCalls(<< >>, o)) = 0
    /\ \A s : ~Storing(<< >>, s)
    /\ \A o : ~Destroying(<< >>, o)
    /\ NoneTwice(<< >>)
<1>1. \A o : HoldingCalls(<< >>, o) = {}
  BY DEF HoldingCalls
<1> QED
  BY <1>1, FS_EmptySet DEF Storing, Destroying, NoneTwice

LEMMA OneMoreCall ==
    ASSUME NEW st \in Seq(Frames), NEW f \in Frames
    PROVE  /\ Append(st, f) \in Seq(Frames)
           /\ \A o : Cardinality(HoldingCalls(Append(st, f), o)) =
                        Cardinality(HoldingCalls(st, o)) + ByCall(f, o)
           /\ \A s : Storing(Append(st, f), s) <=>
                        Storing(st, s) \/ (f.call = "store" /\ f.slot = s)
           /\ \A o : Destroying(Append(st, f), o) <=>
                        Destroying(st, o) \/ (Destroys(f) /\ f.object = o)
           /\ NoneTwice(Append(st, f)) <=>
                 /\ NoneTwice(st)
                 /\ Destroys(f) => ~Destroying(st, f.object)
                 /\ f.call = "store" => ~Storing(st, f.slot)
<1> DEFINE n == Len(st)
           t == Append(st, f)
<1>1. /\ n \in Nat /\ DOMAIN st = 1..n
      /\ t \in Seq(Frames) /\ Len(t) = n + 1
      /\ \A i \in 1..n : t[i] = st[i]
      /\ t[n + 1] = f
  BY LenProperties, AppendProperties
<1>2. DOMAIN t = 1 .. n + 1
  BY <1>1, LenProperties
<1> HIDE DEF n, t
<1>3. ASSUME NEW o
      PROVE  Cardinality(HoldingCalls(t, o)) = Cardinality(HoldingCalls(st, o)) + ByCall(f, o)
  <2>1. /\ IsFiniteSet(HoldingCalls(st, o)) /\ Cardinality(HoldingCalls(st, o)) \in Nat
        /\ n + 1 \notin HoldingCalls(st, o)
    <3>1. n + 1 \notin HoldingCalls(st, o)
      BY <1>1 DEF HoldingCalls
    <3> QED
      BY <3>1, CallsAreFinite
  <2>2. CASE Holds(f, o)
    <3>1. HoldingCalls(t, o) = HoldingCalls(st, o) \cup {n + 1}
      <4> SUFFICES ASSUME NEW i PROVE i \in HoldingCalls(t, o) <=> i \in HoldingCalls(st, o) \/ i = n + 1
        OBVIOUS
      <4>1. i \in 1 .. n + 1 <=> i \in 1..n \/ i = n + 1
        BY <1>1
      <4>2. ~(n + 1 \in 1..n)
        BY <1>1
      <4> QED
        BY <1>1, <1>2, <2>2, <4>1, <4>2 DEF HoldingCalls
    <3> QED
      BY <2>1, <2>2, <3>1, FS_AddElement DEF ByCall
  <2>3. CASE ~Holds(f, o)
    <3>1. HoldingCalls(t, o) = HoldingCalls(st, o)
      <4> SUFFICES ASSUME NEW i PROVE i \in HoldingCalls(t, o) <=> i \in HoldingCalls(st, o)
        OBVIOUS
      <4>1. i \in 1 .. n + 1 <=> i \in 1..n \/ i = n + 1
        BY <1>1
      <4>2. ~(n + 1 \in 1..n)
        BY <1>1
      <4> QED
        BY <1>1, <1>2, <2>3, <4>1, <4>2 DEF HoldingCalls
    <3> QED
      BY <2>1, <2>3, <3>1 DEF ByCall
  <2> QED
    BY <2>2, <2>3
<1>4. \A i : i \in 1 .. n + 1 <=> i \in 1..n \/ i = n + 1
  BY <1>1
<1>5. \A s : Storing(t, s) <=> Storing(st, s) \/ (f.call = "store" /\ f.slot = s)
  BY <1>1, <1>2, <1>4 DEF Storing
<1>6. \A o : Destroying(t, o) <=> Destroying(st, o) \/ (Destroys(f) /\ f.object = o)
  BY <1>1, <1>2, <1>4 DEF Destroying
<1>7. NoneTwice(t) <=> /\ NoneTwice(st)
                       /\ Destroys(f) => ~Destroying(st, f.object)
                       /\ f.call = "store" => ~Storing(st, f.slot)
  <2>1. ~(n + 1 \in 1..n)
    BY <1>1
  <2>2. ASSUME NoneTwice(t)
        PROVE  /\ NoneTwice(st)
               /\ Destroys(f) => ~Destroying(st, f.object)
               /\ f.call = "store" => ~Storing(st, f.slot)
    BY <1>1, <1>2, <1>4, <2>1, <2>2 DEF NoneTwice, Destroying, Storing
  <2>3. ASSUME /\ NoneTwice(st)
               /\ Destroys(f) => ~Destroying(st, f.object)
               /\ f.call = "store" => ~Storing(st, f.slot)
        PROVE  NoneTwice(t)
    BY <1>1, <1>2, <1>4, <2>1, <2>3 DEF NoneTwice, Destroying, Storing
  <2> QED
    BY <2>2, <2>3
<1> QED
  BY <1>1, <1>3, <1>5, <1>6, <1>7 DEF t

\* A stack that is not empty consists of the innermost call and the others.
LEMMA InnermostCall ==
    ASSUME NEW st \in Seq(Frames), st # << >>
    PROVE  Ref!Front(st) \in Seq(Frames) /\ Ref!Last(st) \in Frames /\ st = Append(Ref!Front(st), Ref!Last(st))
<1>1. PICK t \in Seq(Frames), f \in Frames : st = Append(t, f)
  BY SequenceEmptyOrAppend
<1>2. Len(t) \in Nat /\ Len(st) = Len(t) + 1 /\ st[Len(t) + 1] = f
  BY <1>1, LenProperties, AppendProperties
<1>3. Ref!Last(st) = f
  BY <1>2 DEF Ref!Last
<1>4. Ref!Front(st) = t
  <2>1. Ref!Front(st) = SubSeq(st, 1, Len(t))
    BY <1>2 DEF Ref!Front
  <2>2. /\ SubSeq(st, 1, Len(t)) \in Seq(Frames)
        /\ Len(SubSeq(st, 1, Len(t))) = Len(t)
        /\ \A i \in 1..Len(t) : SubSeq(st, 1, Len(t))[i] = t[i]
    <3>1. \A i \in 1..Len(t) : st[i] = t[i] /\ t[i] \in Frames
      BY <1>1, AppendProperties, ElementOfSeq
    <3>2. 1 \in Int /\ Len(t) \in Int /\ \A i \in 1..Len(t) : st[i] \in Frames
      BY <1>2, <3>1
    <3>3. /\ SubSeq(st, 1, Len(t)) \in Seq(Frames)
          /\ Len(SubSeq(st, 1, Len(t))) = IF 1 <= Len(t) THEN Len(t) - 1 + 1 ELSE 0
          /\ \A i \in 1 .. Len(t) - 1 + 1 : SubSeq(st, 1, Len(t))[i] = st[1 + i - 1]
      BY <3>2, SubSeqProperties
    <3> QED
      BY <1>2, <3>1, <3>3
  <2> QED
    BY <2>1, <2>2, SeqEqual
<1> QED
  BY <1>1, <1>3, <1>4

\* The frames that the operations push.
LEMMA FramesOf ==
    ASSUME NEW o \in Objects \cup {NULL}
    PROVE  /\ o \in Objects => \A c \in {"release", "destroy", "free"} : Ref!Frame(c, o) \in Frames
           /\ \A s \in Refs : [call |-> "store", object |-> o, slot |-> s] \in Frames
  BY DEF Ref!Frame, Frames

\* What a call has, and which of the other kinds it is not.
LEMMA FrameFacts ==
    ASSUME NEW f \in Frames
    PROVE  /\ f.object \in Objects \cup {NULL}
           /\ f.call # "store" => f.object \in Objects
           /\ f.call \in {"release", "destroy", "free", "store"}
           /\ f.call = "store" => f.slot \in Refs
  BY DEF Frames

\* The call of release() for what was in a ref, which may be nothing.
LEMMA OneMoreRelease ==
    ASSUME NULL \notin Objects, NEW st \in Seq(Frames), NEW v \in Objects \cup {NULL}
    PROVE  /\ st \o Ref!ReleaseOf(v) \in Seq(Frames)
           /\ \A o \in Objects : Cardinality(HoldingCalls(st \o Ref!ReleaseOf(v), o)) =
                  Cardinality(HoldingCalls(st, o)) + ByRef(v, o)
           /\ \A s : Storing(st \o Ref!ReleaseOf(v), s) <=> Storing(st, s)
           /\ \A o : Destroying(st \o Ref!ReleaseOf(v), o) <=> Destroying(st, o)
           /\ NoneTwice(st \o Ref!ReleaseOf(v)) <=> NoneTwice(st)
<1>1. CASE v = NULL
  <2>1. st \o Ref!ReleaseOf(v) = st
    BY <1>1, ConcatEmptySeq DEF Ref!ReleaseOf
  <2>2. \A o \in Objects : /\ Cardinality(HoldingCalls(st, o)) \in Nat
                           /\ ByRef(v, o) = 0
    BY <1>1, CallsAreFinite DEF ByRef
  <2> QED
    BY <2>1, <2>2
<1>2. CASE v # NULL
  <2> DEFINE f == Ref!Frame("release", v)
  <2>1. f \in Frames /\ f.call = "release" /\ f.object = v
    BY <1>2, FramesOf DEF Ref!Frame
  <2>2. st \o Ref!ReleaseOf(v) = Append(st, f)
    BY <1>2, <2>1, AppendIsConcat DEF Ref!ReleaseOf
  <2> HIDE DEF f
  <2>3. ~Destroys(f) /\ f.call # "store" /\ \A o : ByCall(f, o) = ByRef(v, o)
    BY <2>1 DEF Destroys, ByCall, ByRef, Holds
  <2> QED
    BY <2>1, <2>2, <2>3, OneMoreCall
<1> QED
  BY <1>1, <1>2

\* ... and a call that waits for it.
LEMMA CallAndRelease ==
    ASSUME NEW st \in Seq(Frames), NEW f \in Frames, NEW v \in Objects \cup {NULL}
    PROVE  st \o (<<f>> \o Ref!ReleaseOf(v)) = Append(st, f) \o Ref!ReleaseOf(v)
<1>1. <<f>> \in Seq(Frames)
  OBVIOUS
<1>2. Ref!ReleaseOf(v) \in Seq(Frames)
  <2>1. CASE v = NULL
    BY <2>1, EmptyStack DEF Ref!ReleaseOf
  <2>2. CASE v # NULL
    <3>1. Ref!Frame("release", v) \in Frames
      BY <2>2, FramesOf
    <3> QED
      BY <2>2, <3>1 DEF Ref!ReleaseOf
  <2> QED
    BY <2>1, <2>2
<1>3. (st \o <<f>>) \o Ref!ReleaseOf(v) = st \o (<<f>> \o Ref!ReleaseOf(v))
  BY <1>1, <1>2, ConcatAssociative
<1>4. Append(st, f) = st \o <<f>>
  BY AppendIsConcat
<1> QED
  BY <1>3, <1>4

-------------------------------------------------------------------------------
(* The refs that hold a reference to an object *)

\* ... when ob is what the refs lead to and st are the calls under way
HoldingSlots(ob, st, o) == {s \in Ref!Slots : ob[s] = o /\ ~Storing(st, s)}

LEMMA SlotsAreFinite ==
    ASSUME Ref!RefObjectAssumption, NEW ob, NEW st, NEW o
    PROVE  /\ IsFiniteSet(HoldingSlots(ob, st, o))
           /\ Cardinality(HoldingSlots(ob, st, o)) \in Nat
<1>1. IsFiniteSet(Ref!Slots) /\ HoldingSlots(ob, st, o) \in SUBSET Ref!Slots
  <2>1. Ref!Slots = Objects \cup Refs
    BY DEF Ref!Slots
  <2> QED
    BY <2>1 DEF Ref!RefObjectAssumption, HoldingSlots, Ref!IsFiniteSet, IsFiniteSet
<1> QED
  BY <1>1, FS_Subset, FS_CardinalityType

\* The ref s is made to lead to v, and the others lead to what they led to.
MadeToLead(new, ob, s, v) == \A x \in Ref!Slots : new[x] = IF x = s THEN v ELSE ob[x]

LEMMA OneRefChanges ==
    ASSUME Ref!RefObjectAssumption, NEW ob, NEW st, NEW s \in Ref!Slots, ~Storing(st, s), NEW v,
           NEW new, MadeToLead(new, ob, s, v), NEW o
    PROVE  Cardinality(HoldingSlots(new, st, o)) =
               Cardinality(HoldingSlots(ob, st, o)) - ByRef(ob[s], o) + ByRef(v, o)
<1> DEFINE S == HoldingSlots(ob, st, o)
<1>1. IsFiniteSet(S) /\ Cardinality(S) \in Nat
  BY SlotsAreFinite
<1>3. s \in S <=> ob[s] = o
  BY DEF HoldingSlots
<1>4. HoldingSlots(new, st, o) = IF v = o THEN S \cup {s} ELSE S \ {s}
  BY DEF HoldingSlots, MadeToLead
<1> HIDE DEF S
<1>5. CASE v = o
  <2>1. Cardinality(S \cup {s}) = IF s \in S THEN Cardinality(S) ELSE Cardinality(S) + 1
    BY <1>1, FS_AddElement
  <2>2. Cardinality(HoldingSlots(new, st, o)) = Cardinality(S) - ByRef(ob[s], o) + ByRef(v, o)
    BY <1>1, <1>3, <1>4, <1>5, <2>1 DEF ByRef
  <2> QED
    BY <2>2 DEF S
<1>6. CASE v # o
  <2>1. Cardinality(S \ {s}) = IF s \in S THEN Cardinality(S) - 1 ELSE Cardinality(S)
    BY <1>1, FS_RemoveElement
  <2>2. Cardinality(HoldingSlots(new, st, o)) = Cardinality(S) - ByRef(ob[s], o) + ByRef(v, o)
    BY <1>1, <1>3, <1>4, <1>6, <2>1 DEF ByRef
  <2> QED
    BY <2>2 DEF S
<1> QED
  BY <1>5, <1>6

\* A ref is to be stored to, and holds nothing any more.
LEMMA OneRefIsClaimed ==
    ASSUME Ref!RefObjectAssumption, NEW ob, NEW st, NEW t, NEW s \in Ref!Slots, ~Storing(st, s),
           \A x : Storing(t, x) <=> Storing(st, x) \/ x = s, NEW o
    PROVE  Cardinality(HoldingSlots(ob, t, o)) =
               Cardinality(HoldingSlots(ob, st, o)) - ByRef(ob[s], o)
<1> DEFINE S == HoldingSlots(ob, st, o)
<1>1. IsFiniteSet(S) /\ Cardinality(S) \in Nat
  BY SlotsAreFinite
<1>2. HoldingSlots(ob, t, o) = S \ {s} /\ (s \in S <=> ob[s] = o)
  BY DEF HoldingSlots
<1> HIDE DEF S
<1>3. Cardinality(S \ {s}) = IF s \in S THEN Cardinality(S) - 1 ELSE Cardinality(S)
  BY <1>1, FS_RemoveElement
<1> QED
  BY <1>1, <1>2, <1>3 DEF ByRef, S

\* Calls that store to nothing are of no importance to the refs.
LEMMA SameStoring ==
    ASSUME NEW ob, NEW st, NEW t, \A x : Storing(t, x) <=> Storing(st, x), NEW o
    PROVE  HoldingSlots(ob, t, o) = HoldingSlots(ob, st, o)
  BY DEF HoldingSlots

\* swap(): the refs s and t lead to each other's objects.
Exchange(new, ob, s, t) ==
    \A x \in Ref!Slots : new[x] = IF x = t THEN ob[s] ELSE IF x = s THEN ob[t] ELSE ob[x]

LEMMA TwoRefsSwap ==
    ASSUME Ref!RefObjectAssumption, NEW ob, NEW st,
           NEW s \in Ref!Slots, NEW t \in Ref!Slots, ~Storing(st, s), ~Storing(st, t),
           NEW new, Exchange(new, ob, s, t), NEW o
    PROVE  Cardinality(HoldingSlots(new, st, o)) = Cardinality(HoldingSlots(ob, st, o))
<1> DEFINE one == [x \in Ref!Slots |-> IF x = s THEN ob[t] ELSE ob[x]]
           v == ob[s]
<1>1. MadeToLead(one, ob, s, ob[t]) /\ one[t] = ob[t]
  BY DEF MadeToLead
<1>2. MadeToLead(new, one, t, v)
  BY DEF MadeToLead, Exchange
<1> HIDE DEF one, v
<1>3. Cardinality(HoldingSlots(one, st, o)) =
          Cardinality(HoldingSlots(ob, st, o)) - ByRef(ob[s], o) + ByRef(ob[t], o)
  BY <1>1, OneRefChanges
<1>4. Cardinality(HoldingSlots(new, st, o)) =
          Cardinality(HoldingSlots(one, st, o)) - ByRef(one[t], o) + ByRef(v, o)
  BY <1>2, OneRefChanges
<1>5. Cardinality(HoldingSlots(ob, st, o)) \in Nat
  BY SlotsAreFinite
<1>6. ByRef(ob[s], o) \in Int /\ ByRef(ob[t], o) \in Int
  BY DEF ByRef
<1> QED
  BY <1>1, <1>3, <1>4, <1>5, <1>6 DEF v

-------------------------------------------------------------------------------
(* The inductive invariant *)

\* What holds a reference to o.
ByPointer(lo, o) == IF o \in lo THEN 1 ELSE 0
Holders(ob, st, lo, o) ==
    Cardinality(HoldingSlots(ob, st, o)) + Cardinality(HoldingCalls(st, o)) + ByPointer(lo, o)

\* The counts are exact; an object lives as long as something holds a reference
\* to it; what is being destroyed is dying, and is destroyed by one call only.
IInv ==
    /\ Ref!TypeOK
    /\ v5 \in Seq(Frames)
    /\ NoneTwice(v5)
    /\ \A o \in Objects :
          /\ v1[o] = Holders(v3, v5, v4, o)
          /\ v1[o] > 0 \/ o \in Singletons <=> v2[o] = "alive"
          /\ Destroying(v5, o) => v2[o] = "dying"

LEMMA HoldersIsCount ==
    ASSUME NEW o
    PROVE  Ref!Count(o) = Holders(v3, v5, v4, o)
<1>1. \A s : Storing(v5, s) <=> Ref!BeingAttached(s)
  BY DEF Storing, Ref!BeingAttached
<1>2. HoldingSlots(v3, v5, o) = {s \in Ref!Slots : v3[s] = o /\ ~Ref!BeingAttached(s)}
  BY <1>1 DEF HoldingSlots
<1>3. HoldingCalls(v5, o) = {i \in DOMAIN v5 :
                 v5[i].object = o /\ v5[i].call \in {"release", "store"}}
  BY DEF HoldingCalls, Holds
<1>4. \A S : Ref!Cardinality(S) = Cardinality(S)
  BY DEF Ref!Cardinality, Cardinality
<1> QED
  BY <1>2, <1>3, <1>4 DEF Ref!Count, Holders, ByPointer

LEMMA InitKeeps == ASSUME Ref!RefObjectAssumption, Ref!Init PROVE IInv
<1>1. ASSUME NEW o \in Objects
      PROVE  /\ v1[o] = Holders(v3, v5, v4, o)
             /\ v1[o] > 0 \/ o \in Singletons <=> v2[o] = "alive"
             /\ Destroying(v5, o) => v2[o] = "dying"
  <2>1. HoldingSlots(v3, v5, o) = {}
    BY DEF Ref!Init, HoldingSlots, Ref!RefObjectAssumption
  <2>2. ByPointer(v4, o) = 0
    BY DEF Ref!Init, ByPointer
  <2>3. Cardinality(HoldingSlots(v3, v5, o)) = 0
    BY <2>1, FS_EmptySet
  <2>4. Cardinality(HoldingCalls(v5, o)) = 0 /\ ~Destroying(v5, o)
    BY EmptyStack DEF Ref!Init
  <2> QED
    BY <2>2, <2>3, <2>4 DEF Ref!Init, Holders
<1>2. v5 \in Seq(Frames) /\ NoneTwice(v5)
  BY EmptyStack DEF Ref!Init
<1>3. Ref!TypeOK
  BY DEF Ref!Init, Ref!TypeOK
<1> QED
  BY <1>1, <1>2, <1>3 DEF IInv

\* The parts of a count.
LEMMA CountFacts ==
    ASSUME Ref!RefObjectAssumption, NEW ob, NEW st \in Seq(Frames), NEW lo, NEW o
    PROVE  /\ Cardinality(HoldingSlots(ob, st, o)) \in Nat
           /\ Cardinality(HoldingCalls(st, o)) \in Nat
           /\ ByPointer(lo, o) \in 0..1
           /\ \A v : ByRef(v, o) \in 0..1
           /\ HoldingSlots(ob, st, o) # {} => Cardinality(HoldingSlots(ob, st, o)) > 0
           /\ HoldingCalls(st, o) # {} => Cardinality(HoldingCalls(st, o)) > 0
<1>1. /\ IsFiniteSet(HoldingSlots(ob, st, o)) /\ Cardinality(HoldingSlots(ob, st, o)) \in Nat
      /\ IsFiniteSet(HoldingCalls(st, o)) /\ Cardinality(HoldingCalls(st, o)) \in Nat
  BY SlotsAreFinite, CallsAreFinite
<1>2. \A S : IsFiniteSet(S) => (Cardinality(S) = 0 <=> S = {})
  BY FS_EmptySet
<1> QED
  BY <1>1, <1>2 DEF ByPointer, ByRef

\* What refers to an object, or has a reference to release or to store, refers to
\* one that is alive.
LEMMA HeldIsAlive ==
    ASSUME Ref!RefObjectAssumption, IInv
    PROVE  /\ \A o \in Objects : v1[o] \in Nat
           /\ \A s \in Ref!Slots : ~Storing(v5, s) /\ v3[s] # NULL => v2[v3[s]] = "alive"
           /\ \A o \in v4 : v2[o] = "alive"
           /\ \A o \in Objects : HoldingCalls(v5, o) # {} =>
                  v2[o] = "alive" /\ v1[o] > 0
<1>1. ASSUME NEW o \in Objects
      PROVE  /\ v1[o] \in Nat
             /\ HoldingSlots(v3, v5, o) # {} => v1[o] > 0
             /\ HoldingCalls(v5, o) # {} => v1[o] > 0
             /\ o \in v4 => v1[o] > 0
  <2>1. /\ Cardinality(HoldingSlots(v3, v5, o)) \in Nat
        /\ Cardinality(HoldingCalls(v5, o)) \in Nat
        /\ ByPointer(v4, o) \in 0..1
        /\ HoldingSlots(v3, v5, o) # {} => Cardinality(HoldingSlots(v3, v5, o)) > 0
        /\ HoldingCalls(v5, o) # {} => Cardinality(HoldingCalls(v5, o)) > 0
    BY CountFacts DEF IInv
  <2>2. v1[o] = Cardinality(HoldingSlots(v3, v5, o)) + Cardinality(HoldingCalls(v5, o))
                  + ByPointer(v4, o)
    BY DEF IInv, Holders
  <2>3. o \in v4 => ByPointer(v4, o) = 1
    BY DEF ByPointer
  <2> QED
    BY <2>1, <2>2, <2>3
<1>2. \A o \in Objects : v1[o] > 0 => v2[o] = "alive"
  BY DEF IInv
<1>3. \A s \in Ref!Slots : v3[s] \in Objects \cup {NULL}
  BY DEF IInv, Ref!TypeOK
<1>4. \A s \in Ref!Slots : ~Storing(v5, s) => s \in HoldingSlots(v3, v5, v3[s])
  BY DEF HoldingSlots
<1>5. v4 \subseteq Objects
  BY DEF IInv, Ref!TypeOK
<1> QED
  BY <1>1, <1>2, <1>3, <1>4, <1>5

LEMMA UsableFacts ==
    ASSUME Ref!RefObjectAssumption
    PROVE  \A s \in Ref!Usable : s \in Ref!Slots /\ ~Storing(v5, s)
<1>1. \A s : Storing(v5, s) <=> Ref!BeingAttached(s)
  BY DEF Storing, Ref!BeingAttached
<1> QED
  BY <1>1 DEF Ref!Usable, Ref!Slots

-------------------------------------------------------------------------------
(* Every step keeps it *)

LEMMA AssignKeeps ==
    ASSUME Ref!RefObjectAssumption, IInv, NEW s \in Ref!Usable, NEW v \in Objects \cup {NULL},
           v # NULL => v2[v] = "alive", Ref!Assign(s, v)
    PROVE  IInv'
<1>1. s \in Ref!Slots /\ ~Storing(v5, s) /\ v3[s] \in Objects \cup {NULL} /\ NULL \notin Objects
  BY UsableFacts DEF IInv, Ref!TypeOK, Ref!RefObjectAssumption
<1>2. /\ v5' = v5 \o Ref!ReleaseOf(v3[s]) /\ v4' = v4 /\ v2' = v2
      /\ v3' \in [Ref!Slots -> Objects \cup {NULL}]
      /\ v1' \in [Objects -> Int]
  BY <1>1 DEF Ref!Assign, Ref!Push, Ref!Added, IInv, Ref!TypeOK
<1>3. MadeToLead(v3', v3, s, v)
  BY <1>1 DEF Ref!Assign, IInv, Ref!TypeOK, MadeToLead
<1>4. \A o \in Objects : v1'[o] = v1[o] + ByRef(v, o)
  <2>1. v1 \in [Objects -> Int]
    BY DEF IInv, Ref!TypeOK
  <2>2. CASE v = NULL
    BY <1>1, <2>1, <2>2 DEF Ref!Assign, Ref!Added, ByRef
  <2>3. CASE v # NULL
    <3>1. v1' = [v1 EXCEPT ![v] = @ + 1]
      BY <2>3 DEF Ref!Assign, Ref!Added
    <3> QED
      BY <2>1, <3>1 DEF ByRef
  <2> QED
    BY <2>2, <2>3
<1>5. v5 \in Seq(Frames) /\ NoneTwice(v5)
  BY DEF IInv
<1>6. /\ v5' \in Seq(Frames)
      /\ \A o \in Objects : Cardinality(HoldingCalls(v5', o)) =
             Cardinality(HoldingCalls(v5, o)) + ByRef(v3[s], o)
      /\ \A x : Storing(v5', x) <=> Storing(v5, x)
      /\ \A o : Destroying(v5', o) <=> Destroying(v5, o)
      /\ NoneTwice(v5')
  BY <1>1, <1>2, <1>5, OneMoreRelease
<1>7. ASSUME NEW o \in Objects
      PROVE  v1'[o] = Holders(v3', v5', v4', o)
  <2>1. Cardinality(HoldingSlots(v3', v5, o)) =
            Cardinality(HoldingSlots(v3, v5, o)) - ByRef(v3[s], o) + ByRef(v, o)
    BY <1>1, <1>3, OneRefChanges
  <2>2. HoldingSlots(v3', v5', o) = HoldingSlots(v3', v5, o)
    BY <1>6, SameStoring
  <2>3. v1[o] = Holders(v3, v5, v4, o)
    BY DEF IInv
  <2>4. /\ Cardinality(HoldingSlots(v3, v5, o)) \in Nat
        /\ Cardinality(HoldingCalls(v5, o)) \in Nat
        /\ ByPointer(v4, o) \in 0..1
        /\ ByRef(v, o) \in 0..1 /\ ByRef(v3[s], o) \in 0..1
    BY <1>5, CountFacts
  <2>5. v1'[o] = v1[o] + ByRef(v, o)
    BY <1>4
  <2>6. Cardinality(HoldingCalls(v5', o)) = Cardinality(HoldingCalls(v5, o)) + ByRef(v3[s], o)
    BY <1>6
  <2>7. v4' = v4
    BY <1>2
  <2> QED
    BY <2>1, <2>2, <2>3, <2>4, <2>5, <2>6, <2>7 DEF Holders
<1>8. ASSUME NEW o \in Objects
      PROVE  v1'[o] > 0 \/ o \in Singletons <=> v2'[o] = "alive"
  <2>1. v1[o] \in Nat /\ (v1[o] > 0 \/ o \in Singletons <=> v2[o] = "alive")
    BY HeldIsAlive DEF IInv
  <2>2. v1'[o] = v1[o] + ByRef(v, o)
    BY <1>4
  <2>3. CASE v = o
    <3>1. v2[o] = "alive" /\ v1'[o] = v1[o] + 1
      BY <1>1, <2>2, <2>3 DEF ByRef
    <3> QED
      BY <1>2, <2>1, <3>1
  <2>4. CASE v # o
    <3>1. v1'[o] = v1[o]
      BY <2>1, <2>2, <2>4 DEF ByRef
    <3> QED
      BY <1>2, <2>1, <3>1
  <2> QED
    BY <2>3, <2>4
<1>9. \A o \in Objects : Destroying(v5', o) => v2'[o] = "dying"
  BY <1>2, <1>6 DEF IInv
<1>10. Ref!TypeOK'
  BY <1>2 DEF IInv, Ref!TypeOK
<1> QED
  BY <1>6, <1>7, <1>8, <1>9, <1>10 DEF IInv

LEMMA AssignNewKeeps ==
    ASSUME Ref!RefObjectAssumption, IInv, NEW s \in Ref!Usable, NEW n \in Objects \ Singletons,
           Ref!AssignNew(s, n)
    PROVE  IInv'
<1>1. s \in Ref!Slots /\ ~Storing(v5, s) /\ v3[s] \in Objects \cup {NULL} /\ NULL \notin Objects
  BY UsableFacts DEF IInv, Ref!TypeOK, Ref!RefObjectAssumption
<1>2. /\ v5' = v5 \o Ref!ReleaseOf(v3[s]) /\ v4' = v4
      /\ v2[n] = "none"
      /\ v2' \in [Objects -> {"none", "alive", "dying"}]
      /\ v3' \in [Ref!Slots -> Objects \cup {NULL}]
      /\ v1' \in [Objects -> Int]
  BY <1>1 DEF Ref!AssignNew, Ref!Push, IInv, Ref!TypeOK
<1>3. MadeToLead(v3', v3, s, n)
  BY <1>1 DEF Ref!AssignNew, IInv, Ref!TypeOK, MadeToLead
<1>4. v1[n] = 0
  BY <1>2, HeldIsAlive DEF IInv
<1>5. \A o \in Objects : /\ v1'[o] = v1[o] + ByRef(n, o)
                         /\ v2'[o] = IF o = n THEN "alive" ELSE v2[o]
  <2>1. v1 \in [Objects -> Int] /\ v2 \in [Objects -> {"none", "alive", "dying"}]
    BY DEF IInv, Ref!TypeOK
  <2> QED
    BY <1>4, <2>1 DEF Ref!AssignNew, ByRef
<1>6. v5 \in Seq(Frames) /\ NoneTwice(v5)
  BY DEF IInv
<1>7. /\ v5' \in Seq(Frames)
      /\ \A o \in Objects : Cardinality(HoldingCalls(v5', o)) =
             Cardinality(HoldingCalls(v5, o)) + ByRef(v3[s], o)
      /\ \A x : Storing(v5', x) <=> Storing(v5, x)
      /\ \A o : Destroying(v5', o) <=> Destroying(v5, o)
      /\ NoneTwice(v5')
  BY <1>1, <1>2, <1>6, OneMoreRelease
<1>8. ASSUME NEW o \in Objects
      PROVE  v1'[o] = Holders(v3', v5', v4', o)
  <2>1. Cardinality(HoldingSlots(v3', v5, o)) =
            Cardinality(HoldingSlots(v3, v5, o)) - ByRef(v3[s], o) + ByRef(n, o)
    BY <1>1, <1>3, OneRefChanges
  <2>2. HoldingSlots(v3', v5', o) = HoldingSlots(v3', v5, o)
    BY <1>7, SameStoring
  <2>3. v1[o] = Holders(v3, v5, v4, o)
    BY DEF IInv
  <2>4. /\ Cardinality(HoldingSlots(v3, v5, o)) \in Nat
        /\ Cardinality(HoldingCalls(v5, o)) \in Nat
        /\ ByPointer(v4, o) \in 0..1
        /\ ByRef(n, o) \in 0..1 /\ ByRef(v3[s], o) \in 0..1
    BY <1>6, CountFacts
  <2>5. v1'[o] = v1[o] + ByRef(n, o)
    BY <1>5
  <2>6. Cardinality(HoldingCalls(v5', o)) = Cardinality(HoldingCalls(v5, o)) + ByRef(v3[s], o)
    BY <1>7
  <2>7. v4' = v4
    BY <1>2
  <2> QED
    BY <2>1, <2>2, <2>3, <2>4, <2>5, <2>6, <2>7 DEF Holders
<1>9. ASSUME NEW o \in Objects
      PROVE  /\ v1'[o] > 0 \/ o \in Singletons <=> v2'[o] = "alive"
             /\ Destroying(v5', o) => v2'[o] = "dying"
  <2>1. /\ v1[o] \in Nat /\ (v1[o] > 0 \/ o \in Singletons <=> v2[o] = "alive")
        /\ Destroying(v5', o) => v2[o] = "dying"
    BY <1>7, HeldIsAlive DEF IInv
  <2>2. CASE n = o
    <3>1. v2'[o] = "alive" /\ v1'[o] = 1
      BY <1>4, <1>5, <2>2 DEF ByRef
    <3> QED
      BY <1>2, <2>1, <2>2, <3>1
  <2>3. CASE n # o
    <3>1. v1'[o] = v1[o] /\ v2'[o] = v2[o]
      BY <1>5, <2>1, <2>3 DEF ByRef
    <3> QED
      BY <2>1, <3>1
  <2> QED
    BY <2>2, <2>3
<1>10. Ref!TypeOK'
  BY <1>2 DEF IInv, Ref!TypeOK
<1> QED
  BY <1>7, <1>8, <1>9, <1>10 DEF IInv

LEMMA SwapKeeps ==
    ASSUME Ref!RefObjectAssumption, IInv, NEW s \in Ref!Usable, NEW t \in Ref!Usable, Ref!Swap(s, t)
    PROVE  IInv'
<1>1. s \in Ref!Slots /\ ~Storing(v5, s) /\ t \in Ref!Slots /\ ~Storing(v5, t)
  BY UsableFacts
<1>2. /\ v1' = v1 /\ v2' = v2 /\ v4' = v4 /\ v5' = v5
      /\ v3' \in [Ref!Slots -> Objects \cup {NULL}]
  BY <1>1 DEF Ref!Swap, IInv, Ref!TypeOK
<1>3. Exchange(v3', v3, s, t)
  BY <1>1 DEF Ref!Swap, IInv, Ref!TypeOK, Exchange
<1>4. \A o : Cardinality(HoldingSlots(v3', v5, o)) = Cardinality(HoldingSlots(v3, v5, o))
  BY <1>1, <1>3, TwoRefsSwap
<1>5. \A o \in Objects : v1'[o] = Holders(v3', v5', v4', o)
  BY <1>2, <1>4 DEF IInv, Holders
<1> QED
  BY <1>2, <1>5 DEF IInv, Ref!TypeOK

LEMMA DetachKeeps ==
    ASSUME Ref!RefObjectAssumption, IInv, NEW s \in Ref!Usable, Ref!Detach(s)
    PROVE  IInv'
<1> DEFINE v == v3[s]
<1>1. s \in Ref!Slots /\ ~Storing(v5, s) /\ v \in Objects /\ NULL \notin Objects /\ v \notin v4
  BY UsableFacts DEF Ref!Detach, IInv, Ref!TypeOK, Ref!RefObjectAssumption
<1>2. /\ v1' = v1 /\ v2' = v2 /\ v4' = v4 \cup {v} /\ v5' = v5
      /\ v3' \in [Ref!Slots -> Objects \cup {NULL}]
  BY <1>1 DEF Ref!Detach, IInv, Ref!TypeOK
<1>3. MadeToLead(v3', v3, s, NULL)
  BY <1>1 DEF Ref!Detach, IInv, Ref!TypeOK, MadeToLead
<1> HIDE DEF v
<1>4. ASSUME NEW o \in Objects
      PROVE  v1'[o] = Holders(v3', v5', v4', o)
  <2>1. Cardinality(HoldingSlots(v3', v5, o)) =
            Cardinality(HoldingSlots(v3, v5, o)) - ByRef(v, o) + ByRef(NULL, o)
    BY <1>1, <1>3, OneRefChanges DEF v
  <2>2. v1[o] = Holders(v3, v5, v4, o) /\ v5 \in Seq(Frames)
    BY DEF IInv
  <2>3. /\ Cardinality(HoldingSlots(v3, v5, o)) \in Nat
        /\ Cardinality(HoldingCalls(v5, o)) \in Nat
        /\ ByPointer(v4, o) \in 0..1 /\ ByRef(v, o) \in 0..1
    BY <2>2, CountFacts
  <2>4. ByRef(NULL, o) = 0 /\ ByPointer(v4', o) = ByPointer(v4, o) + ByRef(v, o)
    BY <1>1, <1>2 DEF ByRef, ByPointer
  <2>5. v1' = v1 /\ v5' = v5
    BY <1>2
  <2> QED
    BY <2>1, <2>2, <2>3, <2>4, <2>5 DEF Holders
<1> QED
  BY <1>1, <1>2, <1>4 DEF IInv, Ref!TypeOK

LEMMA ReleaseLooseKeeps ==
    ASSUME Ref!RefObjectAssumption, IInv, NEW v \in v4, Ref!ReleaseLoose(v)
    PROVE  IInv'
<1> DEFINE f == Ref!Frame("release", v)
<1>1. v \in Objects /\ v5 \in Seq(Frames) /\ NoneTwice(v5)
  BY DEF IInv, Ref!TypeOK
<1>2. f \in Frames /\ f.call = "release" /\ f.object = v
  BY <1>1, FramesOf DEF Ref!Frame
<1>3. /\ v1' = v1 /\ v2' = v2 /\ v3' = v3 /\ v4' = v4 \ {v}
      /\ v5' = Append(v5, f)
  BY <1>1, <1>2, AppendIsConcat DEF Ref!ReleaseLoose, Ref!Push
<1> HIDE DEF f
<1>4. ~Destroys(f) /\ f.call # "store" /\ \A o : ByCall(f, o) = ByRef(v, o)
  BY <1>2 DEF Destroys, ByCall, ByRef, Holds
<1>5. /\ v5' \in Seq(Frames)
      /\ \A o : Cardinality(HoldingCalls(v5', o)) =
                   Cardinality(HoldingCalls(v5, o)) + ByRef(v, o)
      /\ \A x : Storing(v5', x) <=> Storing(v5, x)
      /\ \A o : Destroying(v5', o) <=> Destroying(v5, o)
      /\ NoneTwice(v5')
  BY <1>1, <1>2, <1>3, <1>4, OneMoreCall
<1>6. ASSUME NEW o \in Objects
      PROVE  v1'[o] = Holders(v3', v5', v4', o)
  <2>1. HoldingSlots(v3', v5', o) = HoldingSlots(v3, v5, o)
    BY <1>3, <1>5, SameStoring
  <2>2. v1[o] = Holders(v3, v5, v4, o)
    BY DEF IInv
  <2>3. /\ Cardinality(HoldingSlots(v3, v5, o)) \in Nat
        /\ Cardinality(HoldingCalls(v5, o)) \in Nat
        /\ ByPointer(v4, o) \in 0..1 /\ ByRef(v, o) \in 0..1
    BY <1>1, CountFacts
  <2>4. ByPointer(v4', o) = ByPointer(v4, o) - ByRef(v, o)
    BY <1>3 DEF ByRef, ByPointer
  <2>5. Cardinality(HoldingCalls(v5', o)) = Cardinality(HoldingCalls(v5, o)) + ByRef(v, o)
    BY <1>5
  <2>6. v1' = v1
    BY <1>3
  <2> QED
    BY <2>1, <2>2, <2>3, <2>4, <2>5, <2>6 DEF Holders
<1> QED
  BY <1>3, <1>5, <1>6 DEF IInv, Ref!TypeOK

LEMMA AttachKeeps ==
    ASSUME Ref!RefObjectAssumption, IInv, NEW s \in Ref!Usable, NEW v \in v4 \cup {NULL}, Ref!Attach(s, v)
    PROVE  IInv'
<1> DEFINE f == [call |-> "store", object |-> v, slot |-> s]
           w == v3[s]
           st == Append(v5, f)
<1>1. /\ s \in Ref!Slots /\ ~Storing(v5, s) /\ s \in Refs
      /\ v \in Objects \cup {NULL} /\ w \in Objects \cup {NULL} /\ NULL \notin Objects
      /\ v5 \in Seq(Frames) /\ NoneTwice(v5)
  BY UsableFacts DEF IInv, Ref!TypeOK, Ref!RefObjectAssumption, Ref!Attach
<1>2. f \in Frames /\ f.call = "store" /\ f.object = v /\ f.slot = s
  BY <1>1, FramesOf
<1>3. /\ v1' = v1 /\ v2' = v2 /\ v3' = v3 /\ v4' = v4 \ {v}
      /\ v5' = v5 \o (<<f>> \o Ref!ReleaseOf(w))
  BY DEF Ref!Attach, Ref!Push
<1> HIDE DEF f, w
<1>4. v5' = st \o Ref!ReleaseOf(w)
  BY <1>1, <1>2, <1>3, CallAndRelease
<1>5. ~Destroys(f) /\ \A o : ByCall(f, o) = ByRef(v, o)
  BY <1>2 DEF Destroys, ByCall, ByRef, Holds
<1>6. /\ st \in Seq(Frames)
      /\ \A o : Cardinality(HoldingCalls(st, o)) =
                   Cardinality(HoldingCalls(v5, o)) + ByRef(v, o)
      /\ \A x : Storing(st, x) <=> Storing(v5, x) \/ x = s
      /\ \A o : Destroying(st, o) <=> Destroying(v5, o)
      /\ NoneTwice(st)
  BY <1>1, <1>2, <1>5, OneMoreCall
<1> HIDE DEF st
<1>7. /\ v5' \in Seq(Frames)
      /\ \A o \in Objects : Cardinality(HoldingCalls(v5', o)) =
             Cardinality(HoldingCalls(st, o)) + ByRef(w, o)
      /\ \A x : Storing(v5', x) <=> Storing(st, x)
      /\ \A o : Destroying(v5', o) <=> Destroying(st, o)
      /\ NoneTwice(v5')
  BY <1>1, <1>4, <1>6, OneMoreRelease
<1>8. ASSUME NEW o \in Objects
      PROVE  v1'[o] = Holders(v3', v5', v4', o)
  <2>1. HoldingSlots(v3', v5', o) = HoldingSlots(v3, st, o)
    BY <1>3, <1>7, SameStoring
  <2>2. Cardinality(HoldingSlots(v3, st, o)) =
            Cardinality(HoldingSlots(v3, v5, o)) - ByRef(w, o)
    BY <1>1, <1>6, OneRefIsClaimed DEF w
  <2>3. v1[o] = Holders(v3, v5, v4, o)
    BY DEF IInv
  <2>4. /\ Cardinality(HoldingSlots(v3, v5, o)) \in Nat
        /\ Cardinality(HoldingCalls(v5, o)) \in Nat
        /\ ByPointer(v4, o) \in 0..1 /\ ByRef(v, o) \in 0..1 /\ ByRef(w, o) \in 0..1
    BY <1>1, CountFacts
  <2>5. ByPointer(v4', o) = ByPointer(v4, o) - ByRef(v, o)
    BY <1>1, <1>3 DEF ByRef, ByPointer
  <2>6. /\ Cardinality(HoldingCalls(v5', o)) = Cardinality(HoldingCalls(st, o)) + ByRef(w, o)
        /\ Cardinality(HoldingCalls(st, o)) = Cardinality(HoldingCalls(v5, o)) + ByRef(v, o)
    BY <1>6, <1>7
  <2>7. v1' = v1
    BY <1>3
  <2> QED
    BY <2>1, <2>2, <2>3, <2>4, <2>5, <2>6, <2>7 DEF Holders
<1> QED
  BY <1>3, <1>6, <1>7, <1>8 DEF IInv, Ref!TypeOK

\* The innermost call and the calls below it.
LEMMA TopFacts ==
    ASSUME IInv, NEW c, Ref!Top(c)
    PROVE  LET st == Ref!Front(v5)
               f  == Ref!Last(v5)
           IN  /\ st \in Seq(Frames) /\ NoneTwice(st)
               /\ f \in Frames /\ f.call = c /\ f.object \in Objects \cup {NULL}
               /\ c # "store" => f.object \in Objects
               /\ \A o : Cardinality(HoldingCalls(v5, o)) =
                            Cardinality(HoldingCalls(st, o)) + ByCall(f, o)
               /\ \A s : Storing(v5, s) <=> Storing(st, s) \/ (c = "store" /\ f.slot = s)
               /\ \A o : Destroying(v5, o) <=>
                            Destroying(st, o) \/ (Destroys(f) /\ f.object = o)
               /\ Destroys(f) => ~Destroying(st, f.object)
               /\ c = "store" => ~Storing(st, f.slot) /\ f.slot \in Refs
<1> DEFINE st == Ref!Front(v5)
           f  == Ref!Last(v5)
<1>1. v5 \in Seq(Frames) /\ v5 # << >> /\ NoneTwice(v5) /\ f.call = c
  BY DEF IInv, Ref!Top
<1>2. st \in Seq(Frames) /\ f \in Frames /\ v5 = Append(st, f)
  BY <1>1, InnermostCall
<1> HIDE DEF st, f
<1>3. /\ f.object \in Objects \cup {NULL}
      /\ f.call # "store" => f.object \in Objects
      /\ f.call = "store" => f.slot \in Refs
  BY <1>2, FrameFacts
<1>4. /\ \A o : Cardinality(HoldingCalls(v5, o)) =
                  Cardinality(HoldingCalls(st, o)) + ByCall(f, o)
      /\ \A s : Storing(v5, s) <=> Storing(st, s) \/ (f.call = "store" /\ f.slot = s)
      /\ \A o : Destroying(v5, o) <=>
                  Destroying(st, o) \/ (Destroys(f) /\ f.object = o)
      /\ NoneTwice(v5) <=>
            /\ NoneTwice(st)
            /\ Destroys(f) => ~Destroying(st, f.object)
            /\ f.call = "store" => ~Storing(st, f.slot)
  BY <1>2, OneMoreCall
<1> QED
  BY <1>1, <1>2, <1>3, <1>4 DEF st, f

LEMMA ReleaseKeeps == ASSUME Ref!RefObjectAssumption, IInv, Ref!Release PROVE IInv'
<1> DEFINE st == Ref!Front(v5)
           f  == Ref!Last(v5)
           n  == f.object
           d  == Ref!Frame("destroy", n)
           destroyed == v1'[n] = 0 /\ n \notin Singletons
<1>1. Ref!Top("release")
  BY DEF Ref!Release
<1>2. /\ st \in Seq(Frames) /\ NoneTwice(st)
      /\ f \in Frames /\ f.call = "release" /\ n \in Objects
      /\ \A o : Cardinality(HoldingCalls(v5, o)) =
                   Cardinality(HoldingCalls(st, o)) + ByCall(f, o)
      /\ \A s : Storing(v5, s) <=> Storing(st, s)
      /\ \A o : Destroying(v5, o) <=> Destroying(st, o) \/ (Destroys(f) /\ f.object = o)
  BY <1>1, TopFacts
<1>3. ~Destroys(f) /\ \A o : ByCall(f, o) = ByRef(n, o)
  BY <1>2 DEF Destroys, ByCall, ByRef, Holds
<1>4. d \in Frames /\ d.object = n /\ Destroys(d) /\ d.call # "store" /\ \A o : ByCall(d, o) = 0
  <2>1. d \in Frames /\ d.object = n /\ d.call = "destroy"
    BY <1>2, FramesOf DEF Ref!Frame
  <2> QED
    BY <2>1 DEF Destroys, ByCall, Holds
<1>5. /\ v3' = v3 /\ v4' = v4
      /\ v1' \in [Objects -> Int]
      /\ \A o \in Objects : v1'[o] = v1[o] - ByRef(n, o)
  BY <1>2 DEF Ref!Release, ByRef, IInv, Ref!TypeOK
<1>6. /\ destroyed  => /\ v2' = [v2 EXCEPT ![n] = "dying"]
                       /\ v5' = Append(st, d)
      /\ ~destroyed => v2' = v2 /\ v5' = st
  <2>1. st \o << >> = st /\ st \o <<d>> = Append(st, d)
    BY <1>2, <1>4, ConcatEmptySeq, AppendIsConcat
  <2> QED
    BY <2>1 DEF Ref!Release, Ref!Return
<1>7. v2[n] = "alive" /\ v1[n] \in Nat /\ v1[n] > 0
  <2>1. Cardinality(HoldingCalls(st, n)) \in Nat /\ ByCall(f, n) = 1
    BY <1>2, <1>3, CallsAreFinite DEF ByRef
  <2>2. Cardinality(HoldingCalls(v5, n)) # 0
    BY <1>2, <2>1
  <2>3. HoldingCalls(v5, n) # {}
    BY <2>2, FS_EmptySet
  <2> QED
    BY <1>2, <2>3, HeldIsAlive
<1> HIDE DEF st, f, n, d
<1>8. ~Destroying(st, n)
  BY <1>2, <1>7 DEF IInv
<1>9. /\ v5' \in Seq(Frames) /\ NoneTwice(v5')
      /\ \A o : Cardinality(HoldingCalls(v5', o)) = Cardinality(HoldingCalls(st, o))
      /\ \A s : Storing(v5', s) <=> Storing(st, s)
      /\ \A o : Destroying(v5', o) <=> Destroying(st, o) \/ (destroyed /\ o = n)
  <2>1. CASE destroyed
    <3>1. /\ Append(st, d) \in Seq(Frames) /\ NoneTwice(Append(st, d))
          /\ \A o : Cardinality(HoldingCalls(Append(st, d), o)) =
                       Cardinality(HoldingCalls(st, o)) + 0
          /\ \A s : Storing(Append(st, d), s) <=> Storing(st, s)
          /\ \A o : Destroying(Append(st, d), o) <=> Destroying(st, o) \/ o = n
      BY <1>2, <1>4, <1>8, OneMoreCall
    <3>2. \A o : Cardinality(HoldingCalls(st, o)) \in Nat
      BY <1>2, CallsAreFinite
    <3>3. \A o : Cardinality(HoldingCalls(Append(st, d), o)) = Cardinality(HoldingCalls(st, o))
      BY <3>1, <3>2
    <3> QED
      BY <1>6, <2>1, <3>1, <3>3
  <2>2. CASE ~destroyed
    BY <1>2, <1>6, <2>2
  <2> QED
    BY <2>1, <2>2
<1>10. ASSUME NEW o \in Objects
       PROVE  v1'[o] = Holders(v3', v5', v4', o)
  <2>1. HoldingSlots(v3', v5', o) = HoldingSlots(v3, v5, o)
    BY <1>2, <1>5, <1>9, SameStoring
  <2>2. v1[o] = Holders(v3, v5, v4, o)
    BY DEF IInv
  <2>3. /\ Cardinality(HoldingSlots(v3, st, o)) \in Nat
        /\ Cardinality(HoldingCalls(st, o)) \in Nat
        /\ ByPointer(v4, o) \in 0..1 /\ ByRef(n, o) \in 0..1
    BY <1>2, CountFacts
  <2>4. HoldingSlots(v3, v5, o) = HoldingSlots(v3, st, o)
    BY <1>2, SameStoring
  <2>5. /\ Cardinality(HoldingCalls(v5, o)) = Cardinality(HoldingCalls(st, o)) + ByRef(n, o)
        /\ Cardinality(HoldingCalls(v5', o)) = Cardinality(HoldingCalls(st, o))
    BY <1>2, <1>3, <1>9
  <2>6. v4' = v4 /\ v1'[o] = v1[o] - ByRef(n, o)
    BY <1>5
  <2> QED
    BY <2>1, <2>2, <2>3, <2>4, <2>5, <2>6 DEF Holders
<1>11. ASSUME NEW o \in Objects
       PROVE  /\ v1'[o] > 0 \/ o \in Singletons <=> v2'[o] = "alive"
              /\ Destroying(v5', o) => v2'[o] = "dying"
  <2>1. /\ v1[o] > 0 \/ o \in Singletons <=> v2[o] = "alive"
        /\ Destroying(v5, o) => v2[o] = "dying"
        /\ v2 \in [Objects -> {"none", "alive", "dying"}]
        /\ v1[o] \in Int
    BY DEF IInv, Ref!TypeOK
  <2>2. Destroying(v5', o) => Destroying(v5, o) \/ (destroyed /\ o = n)
    BY <1>2, <1>9
  <2>3. CASE o = n
    <3>1. v1'[o] = v1[o] - 1
      BY <1>5, <2>3 DEF ByRef
    <3>2. v2'[o] = IF destroyed THEN "dying" ELSE "alive"
      BY <1>6, <1>7, <2>1, <2>3
    <3>3. v1'[o] \in Nat /\ v2[o] = "alive"
      BY <1>7, <2>3, <3>1
    <3> QED
      BY <2>1, <2>2, <2>3, <3>2, <3>3
  <2>4. CASE o # n
    <3>1. v1'[o] = v1[o] /\ v2'[o] = v2[o]
      BY <1>5, <1>6, <2>1, <2>4 DEF ByRef
    <3> QED
      BY <2>1, <2>2, <2>4, <3>1
  <2> QED
    BY <2>3, <2>4
<1>12. Ref!TypeOK'
  BY <1>2, <1>5, <1>6 DEF IInv, Ref!TypeOK
<1> QED
  BY <1>9, <1>10, <1>11, <1>12 DEF IInv

LEMMA DestroyMemberKeeps == ASSUME Ref!RefObjectAssumption, IInv, Ref!DestroyMember PROVE IInv'
<1> DEFINE below == Ref!Front(v5)
           f == Ref!Last(v5)
           n == f.object
           g == Ref!Frame("free", n)
           v == v3[n]
           st == Append(below, g)
<1>1. Ref!Top("destroy")
  BY DEF Ref!DestroyMember
<1>2. /\ below \in Seq(Frames) /\ NoneTwice(below)
      /\ f \in Frames /\ f.call = "destroy" /\ n \in Objects
      /\ \A o : Cardinality(HoldingCalls(v5, o)) =
                   Cardinality(HoldingCalls(below, o)) + ByCall(f, o)
      /\ \A s : Storing(v5, s) <=> Storing(below, s)
      /\ \A o : Destroying(v5, o) <=>
                   Destroying(below, o) \/ (Destroys(f) /\ f.object = o)
      /\ Destroys(f) => ~Destroying(below, n)
  BY <1>1, TopFacts
<1>3. Destroys(f) /\ \A o : ByCall(f, o) = 0
  BY <1>2 DEF Destroys, ByCall, Holds
<1>4. /\ g \in Frames /\ g.object = n /\ Destroys(g) /\ g.call # "store"
      /\ \A o : ByCall(g, o) = 0
  <2>1. g \in Frames /\ g.object = n /\ g.call = "free"
    BY <1>2, FramesOf DEF Ref!Frame
  <2> QED
    BY <2>1 DEF Destroys, ByCall, Holds
<1>5. /\ n \in Ref!Slots /\ ~Storing(v5, n)
      /\ v \in Objects \cup {NULL} /\ NULL \notin Objects
  <2>1. n \in Ref!Slots /\ n \notin Refs /\ NULL \notin Objects
    BY <1>2 DEF Ref!Slots, Ref!RefObjectAssumption
  <2>2. \A s : Storing(v5, s) => s \in Refs
    <3>1. v5 \in Seq(Frames)
      BY DEF IInv
    <3>2. \A i \in DOMAIN v5 : v5[i] \in Frames
      BY <3>1, LenProperties, ElementOfSeq
    <3> QED
      BY <3>2, FrameFacts DEF Storing
  <2> QED
    BY <2>1, <2>2 DEF IInv, Ref!TypeOK
<1>6. /\ v1' = v1 /\ v2' = v2 /\ v4' = v4
      /\ v5' = below \o (<<g>> \o Ref!ReleaseOf(v))
      /\ v3' \in [Ref!Slots -> Objects \cup {NULL}]
  BY <1>5 DEF Ref!DestroyMember, Ref!Return, IInv, Ref!TypeOK
<1>7. MadeToLead(v3', v3, n, NULL)
  BY <1>5 DEF Ref!DestroyMember, MadeToLead, IInv, Ref!TypeOK
<1> HIDE DEF below, f, n, g, v
<1>8. v5' = st \o Ref!ReleaseOf(v)
  BY <1>2, <1>4, <1>5, <1>6, CallAndRelease
<1>9. /\ st \in Seq(Frames) /\ NoneTwice(st)
      /\ \A o : Cardinality(HoldingCalls(st, o)) = Cardinality(HoldingCalls(below, o)) + 0
      /\ \A s : Storing(st, s) <=> Storing(below, s)
      /\ \A o : Destroying(st, o) <=> Destroying(below, o) \/ o = n
  BY <1>2, <1>3, <1>4, OneMoreCall
<1> HIDE DEF st
<1>10. /\ v5' \in Seq(Frames) /\ NoneTwice(v5')
       /\ \A o \in Objects : Cardinality(HoldingCalls(v5', o)) =
              Cardinality(HoldingCalls(st, o)) + ByRef(v, o)
       /\ \A s : Storing(v5', s) <=> Storing(st, s)
       /\ \A o : Destroying(v5', o) <=> Destroying(st, o)
  BY <1>5, <1>8, <1>9, OneMoreRelease
<1>11. ASSUME NEW o \in Objects
       PROVE  v1'[o] = Holders(v3', v5', v4', o)
  <2>1. HoldingSlots(v3', v5', o) = HoldingSlots(v3', v5, o)
    BY <1>2, <1>9, <1>10, SameStoring
  <2>2. Cardinality(HoldingSlots(v3', v5, o)) =
            Cardinality(HoldingSlots(v3, v5, o)) - ByRef(v, o) + ByRef(NULL, o)
    BY <1>5, <1>7, OneRefChanges DEF v
  <2>3. v1[o] = Holders(v3, v5, v4, o)
    BY DEF IInv
  <2>4. /\ Cardinality(HoldingSlots(v3, v5, o)) \in Nat
        /\ ByPointer(v4, o) \in 0..1 /\ ByRef(v, o) \in 0..1
    BY CountFacts DEF IInv
  <2>5. Cardinality(HoldingCalls(below, o)) \in Nat
    BY <1>2, CallsAreFinite
  <2>6. /\ Cardinality(HoldingCalls(v5, o)) = Cardinality(HoldingCalls(below, o)) + 0
        /\ Cardinality(HoldingCalls(st, o)) = Cardinality(HoldingCalls(below, o)) + 0
        /\ Cardinality(HoldingCalls(v5', o)) = Cardinality(HoldingCalls(st, o)) + ByRef(v, o)
    BY <1>2, <1>3, <1>9, <1>10
  <2>7. v4' = v4 /\ v1' = v1 /\ ByRef(NULL, o) = 0
    BY <1>5, <1>6 DEF ByRef
  <2> QED
    BY <2>1, <2>2, <2>3, <2>4, <2>5, <2>6, <2>7 DEF Holders
<1>12. \A o : Destroying(v5', o) <=> Destroying(v5, o)
  <2>1. \A o : Destroying(v5, o) <=> Destroying(below, o) \/ n = o
    BY <1>2, <1>3 DEF n
  <2> QED
    BY <1>9, <1>10, <2>1
<1>13. Ref!TypeOK'
  BY <1>6 DEF IInv, Ref!TypeOK
<1> QED
  BY <1>6, <1>10, <1>11, <1>12, <1>13 DEF IInv

LEMMA FreeKeeps == ASSUME Ref!RefObjectAssumption, IInv, Ref!Free PROVE IInv'
<1> DEFINE st == Ref!Front(v5)
           f == Ref!Last(v5)
           n == f.object
<1>1. Ref!Top("free")
  BY DEF Ref!Free
<1>2. /\ st \in Seq(Frames) /\ NoneTwice(st)
      /\ f \in Frames /\ f.call = "free" /\ n \in Objects
      /\ \A o : Cardinality(HoldingCalls(v5, o)) =
                   Cardinality(HoldingCalls(st, o)) + ByCall(f, o)
      /\ \A s : Storing(v5, s) <=> Storing(st, s)
      /\ \A o : Destroying(v5, o) <=>
                   Destroying(st, o) \/ (Destroys(f) /\ f.object = o)
      /\ Destroys(f) => ~Destroying(st, n)
  BY <1>1, TopFacts
<1>3. Destroys(f) /\ \A o : ByCall(f, o) = 0
  BY <1>2 DEF Destroys, ByCall, Holds
<1>4. /\ v1' = v1 /\ v3' = v3 /\ v4' = v4
      /\ v2' = [v2 EXCEPT ![n] = "none"]
  BY DEF Ref!Free
<1>5. v5' = st
  BY <1>2, ConcatEmptySeq DEF Ref!Free, Ref!Return
<1> HIDE DEF st, f
<1>6. ASSUME NEW o \in Objects
      PROVE  v1'[o] = Holders(v3', v5', v4', o)
  <2>1. HoldingSlots(v3, st, o) = HoldingSlots(v3, v5, o)
    BY <1>2, SameStoring
  <2>2. Cardinality(HoldingCalls(v5, o)) = Cardinality(HoldingCalls(st, o)) + 0
    BY <1>2, <1>3
  <2>3. Cardinality(HoldingCalls(st, o)) \in Nat
    BY <1>2, CallsAreFinite
  <2>4. Cardinality(HoldingCalls(v5, o)) = Cardinality(HoldingCalls(st, o))
    BY <2>2, <2>3
  <2> QED
    BY <1>4, <1>5, <2>1, <2>4 DEF Holders, IInv
<1>7. ASSUME NEW o \in Objects
      PROVE  /\ v1'[o] > 0 \/ o \in Singletons <=> v2'[o] = "alive"
             /\ Destroying(v5', o) => v2'[o] = "dying"
  <2>1. /\ v1[o] > 0 \/ o \in Singletons <=> v2[o] = "alive"
        /\ Destroying(v5, o) => v2[o] = "dying"
        /\ v2 \in [Objects -> {"none", "alive", "dying"}]
    BY DEF IInv, Ref!TypeOK
  <2>2. Destroying(v5', o) => Destroying(v5, o) /\ o # n
    BY <1>2, <1>3, <1>5
  <2>3. Destroying(v5, n)
    BY <1>2, <1>3
  <2>4. CASE o = n
    <3>1. v2[o] = "dying" /\ v2'[o] = "none"
      BY <1>4, <2>1, <2>3, <2>4
    <3> QED
      BY <1>4, <2>1, <2>2, <2>4, <3>1
  <2>5. CASE o # n
    <3>1. v2'[o] = v2[o]
      BY <1>4, <2>1, <2>5
    <3> QED
      BY <1>4, <2>1, <2>2, <3>1
  <2> QED
    BY <2>4, <2>5
<1>8. Ref!TypeOK'
  BY <1>2, <1>4 DEF IInv, Ref!TypeOK
<1> QED
  BY <1>2, <1>5, <1>6, <1>7, <1>8 DEF IInv

LEMMA StoreKeeps == ASSUME Ref!RefObjectAssumption, IInv, Ref!Store PROVE IInv'
<1> DEFINE st == Ref!Front(v5)
           f == Ref!Last(v5)
           n == f.object
           s == f.slot
<1>1. Ref!Top("store")
  BY DEF Ref!Store
<1>2. /\ st \in Seq(Frames) /\ NoneTwice(st)
      /\ f \in Frames /\ f.call = "store" /\ n \in Objects \cup {NULL}
      /\ \A o : Cardinality(HoldingCalls(v5, o)) =
                   Cardinality(HoldingCalls(st, o)) + ByCall(f, o)
      /\ \A x : Storing(v5, x) <=> Storing(st, x) \/ f.slot = x
      /\ \A o : Destroying(v5, o) <=>
                   Destroying(st, o) \/ (Destroys(f) /\ f.object = o)
      /\ ~Storing(st, s) /\ s \in Refs
  BY <1>1, TopFacts
<1>3. ~Destroys(f) /\ \A o : ByCall(f, o) = ByRef(n, o)
  BY <1>2 DEF Destroys, ByCall, ByRef, Holds
<1>4. s \in Ref!Slots
  BY <1>2 DEF Ref!Slots
<1>5. /\ v1' = v1 /\ v2' = v2 /\ v4' = v4
      /\ v3' \in [Ref!Slots -> Objects \cup {NULL}]
  BY <1>2, <1>4 DEF Ref!Store, IInv, Ref!TypeOK
<1>6. MadeToLead(v3', v3, s, n)
  BY <1>4 DEF Ref!Store, MadeToLead, IInv, Ref!TypeOK
<1>7. v5' = st
  BY <1>2, ConcatEmptySeq DEF Ref!Store, Ref!Return
<1>8. \A x : Storing(v5, x) <=> Storing(st, x) \/ x = s
  BY <1>2
<1> HIDE DEF st, f, n, s
<1>9. ASSUME NEW o \in Objects
      PROVE  v1'[o] = Holders(v3', v5', v4', o)
  <2>1. Cardinality(HoldingSlots(v3, v5, o)) =
            Cardinality(HoldingSlots(v3, st, o)) - ByRef(v3[s], o)
    BY <1>2, <1>4, <1>8, OneRefIsClaimed
  <2>2. Cardinality(HoldingSlots(v3', st, o)) =
            Cardinality(HoldingSlots(v3, st, o)) - ByRef(v3[s], o) + ByRef(n, o)
    BY <1>2, <1>4, <1>6, OneRefChanges
  <2>3. v1[o] = Holders(v3, v5, v4, o)
    BY DEF IInv
  <2>4. /\ Cardinality(HoldingSlots(v3, st, o)) \in Nat
        /\ Cardinality(HoldingCalls(st, o)) \in Nat
        /\ ByPointer(v4, o) \in 0..1
        /\ ByRef(n, o) \in 0..1 /\ ByRef(v3[s], o) \in 0..1
    BY <1>2, CountFacts
  <2>5. Cardinality(HoldingCalls(v5, o)) = Cardinality(HoldingCalls(st, o)) + ByRef(n, o)
    BY <1>2, <1>3
  <2>6. v4' = v4 /\ v1' = v1 /\ v5' = st
    BY <1>5, <1>7
  <2> QED
    BY <2>1, <2>2, <2>3, <2>4, <2>5, <2>6 DEF Holders
<1>10. \A o : Destroying(v5', o) <=> Destroying(v5, o)
  BY <1>2, <1>3, <1>7
<1>11. Ref!TypeOK'
  BY <1>5 DEF IInv, Ref!TypeOK
<1> QED
  BY <1>2, <1>5, <1>7, <1>9, <1>10, <1>11 DEF IInv

LEMMA StepKeeps ==
    ASSUME Ref!RefObjectAssumption, IInv, Ref!Next
    PROVE  IInv'
<1>1. ASSUME NEW s \in Ref!Usable, NEW t \in Ref!Usable, Ref!Assign(s, v3[t])
      PROVE  IInv'
  <2>1. v3[t] \in Objects \cup {NULL} /\ (v3[t] # NULL => v2[v3[t]] = "alive")
    BY UsableFacts, HeldIsAlive DEF IInv, Ref!TypeOK
  <2> QED
    BY <1>1, <2>1, AssignKeeps
<1>2. ASSUME NEW s \in Ref!Usable, NEW o \in Singletons \cup {NULL}, Ref!Assign(s, o)
      PROVE  IInv'
  <2>1. o \in Objects \cup {NULL} /\ (o # NULL => v2[o] = "alive")
    BY DEF IInv, Ref!RefObjectAssumption
  <2> QED
    BY <1>2, <2>1, AssignKeeps
<1>3. ASSUME NEW s \in Ref!Usable, NEW o \in Objects \ Singletons, Ref!AssignNew(s, o)
      PROVE  IInv'
  BY <1>3, AssignNewKeeps
<1>4. ASSUME NEW s \in Ref!Usable, NEW o \in v4 \cup {NULL}, Ref!Attach(s, o)
      PROVE  IInv'
  BY <1>4, AttachKeeps
<1> QED
  BY <1>1, <1>2, <1>3, <1>4, SwapKeeps, DetachKeeps, ReleaseLooseKeeps, ReleaseKeeps,
     DestroyMemberKeeps, FreeKeeps, StoreKeeps DEF Ref!Next

LEMMA RefStays == ASSUME IInv, UNCHANGED <<v1, v2, v3, v4, v5>> PROVE IInv'
BY DEF IInv, Ref!TypeOK

LEMMA RefInvariance == MCSpec => [](IsRef => IInv)
<1> DEFINE Inv == IsRef => IInv
<1>1. MCInit => Inv
  BY RefAssumption, InitKeeps DEF MCInit, IsRef
<1>2. Inv /\ [MCNext]_vars => Inv'
  <2> SUFFICES ASSUME Inv, [MCNext]_vars, IsRef'
               PROVE  IInv'
    OBVIOUS
  <2>1. CASE UNCHANGED vars
    BY <2>1, RefStays DEF vars, IsRef
  <2>2. CASE MCNext
    <3>1. IsRef /\ IInv /\ Ref!Next
      BY <2>2 DEF MCNext, IsRef, vars
    <3> QED
      BY <3>1, RefAssumption, StepKeeps
  <2> QED
    BY <2>1, <2>2
<1> QED
  BY <1>1, <1>2, PTL DEF MCSpec

\* RefsCountHolders: the count of a living object is the number of refs, pointers
\* and calls of release() and attach() under way that hold a reference to it, and
\* nothing holds a reference to any other object, however deep the calls nest.
THEOREM CountsAreExact == MCSpec => []RefsCountHolders
<1>1. ASSUME IInv, NEW o \in Objects
      PROVE  IF v2[o] = "alive" THEN v1[o] = Ref!Count(o)
             ELSE v1[o] = 0 /\ Ref!Count(o) = 0
  <2>1. v1[o] = Ref!Count(o)
    BY <1>1, HoldersIsCount DEF IInv
  <2>2. v2[o] # "alive" => ~(v1[o] > 0) /\ v1[o] \in Nat
    BY <1>1, RefAssumption, HeldIsAlive DEF IInv
  <2> QED
    BY <2>1, <2>2
<1>2. (IsRef => IInv) => RefsCountHolders
  BY <1>1 DEF IsRef, IInv, RefsCountHolders, Ref!RefsCountHolders
<1> QED
  BY <1>2, RefInvariance, PTL

\* NoDanglingRef: no ref that code can use, and no pointer with a reference of its
\* own, leads to an object that is being or has been deleted; no object is destroyed
\* twice; and what nothing refers to is gone when all calls have returned.
THEOREM NothingDangles == MCSpec => []NoDanglingRef
<1>1. ASSUME IInv
      PROVE  Ref!NoDanglingRef
  <2>1. \A s \in Ref!Usable : v3[s] # NULL => v2[v3[s]] = "alive"
    BY <1>1, RefAssumption, UsableFacts, HeldIsAlive
  <2>2. \A o \in v4 : v2[o] = "alive"
    BY <1>1, RefAssumption, HeldIsAlive
  <2>3. \A i, j \in DOMAIN v5 :
            i # j /\ {v5[i].call, v5[j].call} \subseteq {"destroy", "free"}
                => v5[i].object # v5[j].object
    BY <1>1 DEF IInv, NoneTwice, Destroys
  <2>4. \A o \in Objects \ Singletons : v2[o] = "alive" <=> v1[o] > 0
    BY <1>1 DEF IInv
  <2> QED
    BY <2>1, <2>2, <2>3, <2>4 DEF Ref!NoDanglingRef
<1>2. (IsRef => IInv) => NoDanglingRef
  BY <1>1 DEF IsRef, NoDanglingRef
<1> QED
  BY <1>2, RefInvariance, PTL

-------------------------------------------------------------------------------
(* The other components *)

\* One module is about both lists; of each instance a part is used, and what
\* the variables of the other part stand for does not matter.
ListTheory == INSTANCE LinkedListProofs WITH
    first_element <- v1, last_element <- v2, next <- v3, list <- v4,
    prev <- v5, live <- v6

ContainerTheory == INSTANCE LinkedListProofs WITH
    first_element <- v1, last_element <- v2, next <- v3, prev <- v4, list <- v5,
    live <- v6

HeapTheory == INSTANCE HeapProofs WITH
    Value <- Number, MaxLength <- QueueLength, None <- NULL, Inputs <- Arrays,
    data <- v1, running <- v2, size <- v3, parent <- v4, child <- v5,
    returned <- v6, input <- v6, heap_size <- v7, stage <- v8

-------------------------------------------------------------------------------
(* The lists *)

\* A behaviour of the singly linked list is one of LinkedList.
LEMMA ListBehaviour == MCSpec /\ []IsList => ListTheory!Single!Spec
<1>1. MCInit /\ IsList => ListTheory!Single!Init
  BY DEF IsList, MCInit, List!Init, ListTheory!Single!Init, List!Pointer, ListTheory!Single!Pointer
<1>2. IsList /\ [MCNext]_vars => [ListTheory!Single!Next]_(ListTheory!Single!listVars)
  BY DEF IsList, MCNext, vars, ListTheory!Single!listVars, List!Pointer, ListTheory!Single!Pointer,
         List!Members, ListTheory!Single!Members, List!Position, ListTheory!Single!Position,
         List!Without, ListTheory!Single!Without, List!InsertFirst, ListTheory!Single!InsertFirst,
         List!AppendElement, ListTheory!Single!AppendElement, List!InsertAfter,
         ListTheory!Single!InsertAfter, List!RemoveFirst, ListTheory!Single!RemoveFirst,
         List!IsPrevious, ListTheory!Single!IsPrevious, List!Bypass, ListTheory!Single!Bypass,
         List!Remove, ListTheory!Single!Remove, List!Empty, ListTheory!Single!Empty,
         List!MoveToFront, ListTheory!Single!MoveToFront, List!MoveToBack,
         ListTheory!Single!MoveToBack, List!Seqs!RemoveAt, ListTheory!Single!Seqs!RemoveAt,
         List!Seqs!InsertAt, ListTheory!Single!Seqs!InsertAt, List!Next, ListTheory!Single!Next
<1> QED
  BY <1>1, <1>2, PTL DEF MCSpec, ListTheory!Single!Spec

\* A behaviour of the container is one of DoublyLinkedListContainer.
LEMMA ContainerBehaviour == MCSpec /\ []IsContainer => ContainerTheory!ContainerSpec
<1>1. MCInit /\ IsContainer => ContainerTheory!ContainerInit
  BY DEF IsContainer, MCInit, Container!ContainerInit, ContainerTheory!ContainerInit,
         Container!Init, ContainerTheory!Init, Container!Base!Init,
         ContainerTheory!Base!Init, Container!Base!Pointer,
         ContainerTheory!Base!Pointer, Container!Pointer, ContainerTheory!Pointer
<1>2. IsContainer /\ [MCNext]_vars
        => [ContainerTheory!ContainerNext]_(ContainerTheory!containerVars)
  BY DEF IsContainer, MCNext, vars, ContainerTheory!containerVars,
         ContainerTheory!dllVars, Container!Pointer, ContainerTheory!Pointer,
         Container!Members, ContainerTheory!Members, Container!Position,
         ContainerTheory!Position, Container!Without, ContainerTheory!Without,
         Container!Relinked, ContainerTheory!Relinked, Container!InsertFirst,
         ContainerTheory!InsertFirst, Container!AppendElement,
         ContainerTheory!AppendElement, Container!InsertAfter,
         ContainerTheory!InsertAfter, Container!InsertBefore,
         ContainerTheory!InsertBefore, Container!RemoveFirst,
         ContainerTheory!RemoveFirst, Container!RemoveLast, ContainerTheory!RemoveLast,
         Container!Empty, ContainerTheory!Empty, Container!UnlinkedNext,
         ContainerTheory!UnlinkedNext, Container!UnlinkedPrev,
         ContainerTheory!UnlinkedPrev, Container!Remove, ContainerTheory!Remove,
         Container!MoveToFront, ContainerTheory!MoveToFront, Container!MoveToBack,
         ContainerTheory!MoveToBack, Container!FirstIsClosed,
         ContainerTheory!FirstIsClosed, Container!LastIsClosed,
         ContainerTheory!LastIsClosed, Container!Settled, ContainerTheory!Settled,
         Container!Base!Members, ContainerTheory!Base!Members, Container!Base!Position,
         ContainerTheory!Base!Position, Container!Base!Without,
         ContainerTheory!Base!Without, Container!Base!RemoveFirst,
         ContainerTheory!Base!RemoveFirst, Container!Base!Empty,
         ContainerTheory!Base!Empty, Container!Base!Seqs!RemoveAt,
         ContainerTheory!Base!Seqs!RemoveAt, Container!Seqs!InsertAt,
         ContainerTheory!Seqs!InsertAt, Container!Allocate, ContainerTheory!Allocate,
         Container!Delete, ContainerTheory!Delete, Container!Chain,
         ContainerTheory!Chain, Container!ContainerInsertFirst,
         ContainerTheory!ContainerInsertFirst, Container!ContainerAppend,
         ContainerTheory!ContainerAppend, Container!ContainerInsertAfter,
         ContainerTheory!ContainerInsertAfter, Container!ContainerInsertBefore,
         ContainerTheory!ContainerInsertBefore, Container!ContainerRemoveFirst,
         ContainerTheory!ContainerRemoveFirst, Container!ContainerRemoveLast,
         ContainerTheory!ContainerRemoveLast, Container!ContainerRemove,
         ContainerTheory!ContainerRemove, Container!ContainerEmpty,
         ContainerTheory!ContainerEmpty, Container!ContainerMoveToFront,
         ContainerTheory!ContainerMoveToFront, Container!ContainerMoveToBack,
         ContainerTheory!ContainerMoveToBack, Container!ContainerNext,
         ContainerTheory!ContainerNext
<1> QED
  BY <1>1, <1>2, PTL DEF MCSpec, ContainerTheory!ContainerSpec

\* The links of both lists are right, and wrappers neither dangle nor leak.
THEOREM ListsAreRight == MCSpec => []LinksFollowList
<1>1. ListTheory!Single!ElementAssumption /\ ContainerTheory!ElementAssumption
  BY ListAssumption DEF List!ElementAssumption, Container!ElementAssumption,
     ListTheory!Single!ElementAssumption, ContainerTheory!ElementAssumption
<1>2. ListTheory!Single!Spec => []ListTheory!Single!TypeOK /\ []ListTheory!Single!LinksFollowList
  BY <1>1, ListTheory!SingleTypeCorrect, ListTheory!SingleLinksAreRight
<1>3. ContainerTheory!ContainerSpec => /\ []ContainerTheory!TypeOK
                                      /\ []ContainerTheory!LinksFollowList
                                      /\ []ContainerTheory!WrappersAreMembers
  BY <1>1, ContainerTheory!TypeCorrect, ContainerTheory!LinksAreRight,
     ContainerTheory!NoneIsLost
<1>4. IsList /\ ListTheory!Single!TypeOK /\ ListTheory!Single!LinksFollowList => LinksFollowList
  BY DEF IsList, LinksFollowList, List!TypeOK, ListTheory!Single!TypeOK, List!LinksFollowList,
         ListTheory!Single!LinksFollowList, List!Pointer, ListTheory!Single!Pointer
<1>5. IsContainer /\ ContainerTheory!TypeOK /\ ContainerTheory!LinksFollowList
                  /\ ContainerTheory!WrappersAreMembers => LinksFollowList
  BY DEF IsContainer, LinksFollowList, Container!TypeOK, ContainerTheory!TypeOK,
         Container!Base!TypeOK, ContainerTheory!Base!TypeOK, Container!Base!Pointer,
         ContainerTheory!Base!Pointer, Container!Pointer, ContainerTheory!Pointer,
         Container!LinksFollowList, ContainerTheory!LinksFollowList,
         Container!WrappersAreMembers, ContainerTheory!WrappersAreMembers,
         Container!Members, ContainerTheory!Members, Container!Base!Members,
         ContainerTheory!Base!Members
<1>6. ~IsList /\ ~IsContainer => LinksFollowList
  BY DEF LinksFollowList, IsList, IsContainer
<1> QED
  BY <1>2, <1>3, <1>4, <1>5, <1>6, OneComponent, ListBehaviour, ContainerBehaviour, PTL

\* Neither list writes to an object that is not in it, and only the removal of an
\* end leaves one open.
THEOREM OutsidersAreSafe == MCSpec => WritesMembersOnly
<1>1. ListTheory!Single!ElementAssumption /\ ContainerTheory!ElementAssumption
  BY ListAssumption DEF List!ElementAssumption, Container!ElementAssumption,
     ListTheory!Single!ElementAssumption, ContainerTheory!ElementAssumption
<1>2. ListTheory!Single!Spec => ListTheory!Single!WritesMembersOnly
  BY <1>1, ListTheory!SingleOutsidersAreSafe
<1>3. ContainerTheory!ContainerSpec => /\ ContainerTheory!WritesMembersOnly
                                      /\ ContainerTheory!OnlyEndRemovalsOpenEnds
  BY <1>1, ContainerTheory!OutsidersAreSafe, ContainerTheory!EndsStay
<1> DEFINE Safe == /\ component = "list" => List!OutsidersUntouched
                   /\ component = "container" =>
                         Container!OutsidersUntouched /\ Container!EndsStayClosed
<1>4. IsList /\ [ListTheory!Single!OutsidersUntouched]_(ListTheory!Single!listVars) => Safe
  BY DEF IsList, List!OutsidersUntouched, ListTheory!Single!OutsidersUntouched, List!Members,
         ListTheory!Single!Members, List!listVars, ListTheory!Single!listVars
<1>5. IsContainer /\ [ContainerTheory!OutsidersUntouched]_(ContainerTheory!dllVars)
                  /\ [ContainerTheory!EndsStayClosed]_(ContainerTheory!dllVars) => Safe
  BY DEF IsContainer, Container!OutsidersUntouched, ContainerTheory!OutsidersUntouched,
         Container!EndsStayClosed, ContainerTheory!EndsStayClosed,
         Container!FirstIsClosed, ContainerTheory!FirstIsClosed,
         Container!LastIsClosed, ContainerTheory!LastIsClosed, Container!RemoveFirst,
         ContainerTheory!RemoveFirst, Container!RemoveLast, ContainerTheory!RemoveLast,
         Container!Base!RemoveFirst, ContainerTheory!Base!RemoveFirst,
         Container!Members, ContainerTheory!Members, Container!Base!Members,
         ContainerTheory!Base!Members, Container!dllVars, ContainerTheory!dllVars
<1>6. ~IsList /\ ~IsContainer => Safe
  BY DEF IsList, IsContainer
<1> HIDE DEF Safe
<1>7. MCSpec => [][Safe]_vars
  BY <1>2, <1>3, <1>4, <1>5, <1>6, OneComponent, ListBehaviour, ContainerBehaviour, PTL
     DEF ListTheory!Single!WritesMembersOnly, ContainerTheory!WritesMembersOnly,
         ContainerTheory!OnlyEndRemovalsOpenEnds
<1> QED
  BY <1>7 DEF WritesMembersOnly, Safe

-------------------------------------------------------------------------------
(* The priority queue *)

\* The queue takes numbers, and NULL is none of them.
LEMMA QueueNumbers == HeapTheory!QueueConstants
  BY QueueAssumption DEF HeapTheory!QueueConstants, Queue!ValueAssumption,
                         HeapTheory!ValueAssumption, Queue!BoundAssumption,
                         HeapTheory!BoundAssumption, Queue!NoneAssumption,
                         HeapTheory!NoneAssumption

\* A behaviour of the queue is one of PriorityQueue.
LEMMA QueueBehaviour ==
    MCSpec /\ []IsQueue => HeapTheory!Init /\ [][HeapTheory!Next]_(HeapTheory!queueVars)
<1>1. MCInit /\ IsQueue => HeapTheory!Init
  BY DEF IsQueue, MCInit, Queue!Init, HeapTheory!Init
<1>2. IsQueue /\ [MCNext]_vars => [HeapTheory!Next]_(HeapTheory!queueVars)
  BY DEF IsQueue, MCNext, vars, After6, HeapTheory!queueVars, Queue!heapVars,
         HeapTheory!heapVars, Queue!At, HeapTheory!At, Queue!Swapped,
         HeapTheory!Swapped, Queue!Half, HeapTheory!Half, Queue!PushIntoHeap,
         HeapTheory!PushIntoHeap, Queue!BelongsAbove, HeapTheory!BelongsAbove,
         Queue!MoveUp, HeapTheory!MoveUp, Queue!PushReturns, HeapTheory!PushReturns,
         Queue!PopFromHeap, HeapTheory!PopFromHeap, Queue!MaxChild,
         HeapTheory!MaxChild, Queue!MoveDown, HeapTheory!MoveDown, Queue!Push,
         HeapTheory!Push, Queue!Pop, HeapTheory!Pop, Queue!PopReturns,
         HeapTheory!PopReturns, Queue!InHeap, HeapTheory!InHeap, Queue!Next,
         HeapTheory!Next
<1> QED
  BY <1>1, <1>2, PTL DEF MCSpec

\* The array is a heap between the calls, and the loops keep their invariants.
THEOREM HeapIsKept == MCSpec => []QueueIsHeap
<1>1. HeapTheory!Init /\ [][HeapTheory!Next]_(HeapTheory!queueVars)
        => []HeapTheory!TypeOK /\ []HeapTheory!QueueIsHeap
  BY QueueNumbers, HeapTheory!TypeCorrect, HeapTheory!HeapIsKept
<1>2. HeapTheory!TypeOK /\ HeapTheory!QueueIsHeap => QueueIsHeap
  BY DEF QueueIsHeap, Queue!TypeOK, HeapTheory!TypeOK, Queue!QueueIsHeap,
         HeapTheory!QueueIsHeap, Queue!IsHeap, HeapTheory!IsHeap, Queue!PushLoop,
         HeapTheory!PushLoop, Queue!PopLoop, HeapTheory!PopLoop, Queue!PopDone,
         HeapTheory!PopDone, Queue!At, HeapTheory!At, Queue!Half, HeapTheory!Half
<1>3. ~IsQueue => QueueIsHeap
  BY DEF QueueIsHeap, IsQueue
<1> QED
  BY <1>1, <1>2, <1>3, OneComponent, QueueBehaviour, PTL

\* No exchange loses a copy of a value, and pop() returns the greatest.
THEOREM QueueIsPriorityBag == MCSpec => IsPriorityBag
<1>1. HeapTheory!Init /\ [][HeapTheory!Next]_(HeapTheory!queueVars)
        => HeapTheory!Promise!Init
             /\ [][HeapTheory!Promise!Next]_<<HeapTheory!Copies, v6>>
  BY QueueNumbers, HeapTheory!QueueIsPriorityBag
     DEF HeapTheory!IsPriorityBag, HeapTheory!Promise!Spec
<1> DEFINE Fits == component = "queue" => Queue!Promise!Init
           Goes == component = "queue" => [Queue!Promise!Next]_<<Queue!Copies, v6>>
<1>2. HeapTheory!Promise!Init => Fits
  BY DEF Queue!Copies, HeapTheory!Copies, Queue!Cardinality, HeapTheory!Cardinality,
         Queue!Promise!Init, HeapTheory!Promise!Init
<1>3. [HeapTheory!Promise!Next]_<<HeapTheory!Copies, v6>> => Goes
  BY DEF Queue!Copies, HeapTheory!Copies, Queue!Cardinality, HeapTheory!Cardinality,
         Queue!Promise!Next, HeapTheory!Promise!Next, Queue!Promise!Push,
         HeapTheory!Promise!Push, Queue!Promise!Pop, HeapTheory!Promise!Pop,
         Queue!Promise!IsIn, HeapTheory!Promise!IsIn
<1>4. ~IsQueue => Fits /\ Goes
  BY DEF IsQueue
<1> HIDE DEF Fits, Goes
<1>5. MCSpec => Fits /\ [][Goes]_vars
  BY <1>1, <1>2, <1>3, <1>4, OneComponent, QueueBehaviour, PTL
<1> QED
  BY <1>5 DEF IsPriorityBag, Fits, Goes

-------------------------------------------------------------------------------
(* heapsort() *)

\* The arrays to sort are sequences of numbers.
LEMMA SortNumbers == HeapTheory!SortConstants
<1>1. Arrays \subseteq Seq(Number)
  BY DEF Arrays
<1> QED
  BY <1>1, SortAssumption DEF Sort!ValueAssumption, HeapTheory!SortConstants,
     HeapTheory!ValueAssumption, HeapTheory!Sort!InputsAssumption

\* A behaviour of the sort is one of HeapSort.
LEMMA SortBehaviour == MCSpec /\ []IsSort => HeapTheory!Sort!Spec
<1>1. MCInit /\ IsSort => HeapTheory!Sort!Init
  BY DEF IsSort, MCInit, Sort!Init, HeapTheory!Sort!Init
<1>2. IsSort /\ [MCNext]_vars => [HeapTheory!Sort!Next]_(HeapTheory!Sort!sortVars)
  BY DEF IsSort, MCNext, vars, HeapTheory!Sort!sortVars, Sort!heapVars, HeapTheory!Sort!heapVars,
         Sort!At, HeapTheory!Sort!At, Sort!Swapped, HeapTheory!Sort!Swapped, Sort!Half,
         HeapTheory!Sort!Half, Sort!PushIntoHeap, HeapTheory!Sort!PushIntoHeap,
         Sort!BelongsAbove, HeapTheory!Sort!BelongsAbove, Sort!MoveUp, HeapTheory!Sort!MoveUp,
         Sort!PushReturns, HeapTheory!Sort!PushReturns, Sort!PopFromHeap,
         HeapTheory!Sort!PopFromHeap, Sort!MaxChild, HeapTheory!Sort!MaxChild, Sort!MoveDown,
         HeapTheory!Sort!MoveDown, Sort!Build, HeapTheory!Sort!Build, Sort!Built,
         HeapTheory!Sort!Built, Sort!TakeApart, HeapTheory!Sort!TakeApart, Sort!Popped,
         HeapTheory!Sort!Popped, Sort!Sorted, HeapTheory!Sort!Sorted, Sort!InHeap,
         HeapTheory!Sort!InHeap, Sort!Next, HeapTheory!Sort!Next
<1> QED
  BY <1>1, <1>2, PTL DEF MCSpec, HeapTheory!Sort!Spec

\* heapsort() makes a heap, takes it apart from the end, and leaves the elements
\* of its input in order.
THEOREM SortsAnyInput == MCSpec => []SortsItsInput
<1>1. HeapTheory!Sort!Spec => []HeapTheory!Sort!SortsItsInput
  BY SortNumbers, HeapTheory!SortsAnyInput
<1>2. HeapTheory!Sort!SortsItsInput => SortsItsInput
  BY DEF SortsItsInput, Sort!SortsItsInput, HeapTheory!Sort!SortsItsInput, Sort!IsHeap,
         HeapTheory!Sort!IsHeap, Sort!At, HeapTheory!Sort!At, Sort!Half, HeapTheory!Sort!Half,
         Sort!Copies, HeapTheory!Sort!Copies, Sort!Cardinality, HeapTheory!Sort!Cardinality
<1>3. ~IsSort => SortsItsInput
  BY DEF SortsItsInput, IsSort
<1> QED
  BY <1>1, <1>2, <1>3, OneComponent, SortBehaviour, PTL
===============================================================================
