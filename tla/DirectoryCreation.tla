-------------------------- MODULE DirectoryCreation --------------------------
(***************************************************************************)
(* create_directory() and remove_directory() of fn.cc, called by several   *)
(* programs at a time. Every system call is a step of its own: between     *)
(* mkdir() and stat(), and between the creation of a parent and that of    *)
(* its child, the others may create and remove directories.                *)
(*                                                                         *)
(* A path is the sequence of its components, relative to the working       *)
(* directory, which is the path <<>>.                                      *)
(***************************************************************************)
EXTENDS Integers, Sequences, FiniteSets, SequencesExt

CONSTANTS
    Programs,
    Paths,        \* what they create
    Removable,    \* directories that are removed while they do
    Files         \* paths that are files, not directories

Name == UNION {Range(name) : name \in Paths \cup Files}

\* What the constants have to be; the module that gives them values assumes it.
DirectoryCreationAssumption == Paths \cup Files \subseteq Seq(Name) \ {<<>>}

VARIABLES
    dirs,         \* the directories that exist
    path,         \* of each program: the directory it creates
    parents,      \* its argument create_parents
    calls,        \* its calls under way, the innermost last: [path, at]
    result,       \* "none", "created", or the error code of what is thrown
    removed       \* history: what has been removed since the call began
vars == <<dirs, path, parents, calls, result, removed>>

Parent(name) == Front(name)

Init ==
    /\ dirs = {<<>>}
    /\ path = [p \in Programs |-> <<>>]
    /\ parents = [p \in Programs |-> FALSE]
    /\ calls = [p \in Programs |-> <<>>]
    /\ result = [p \in Programs |-> "none"]
    /\ removed = [p \in Programs |-> {}]

Call(name, at) == [path |-> name, at |-> at]
Top(p) == Last(calls[p])
Runs(p, at) == calls[p] # <<>> /\ Top(p).at = at

Create(p, name, create_parents) ==
    /\ calls[p] = <<>>
    /\ path' = [path EXCEPT ![p] = name]
    /\ parents' = [parents EXCEPT ![p] = create_parents]
    /\ calls' = [calls EXCEPT ![p] = <<Call(name, "mkdir")>>]
    /\ result' = [result EXCEPT ![p] = "none"]
    /\ removed' = [removed EXCEPT ![p] = {}]
    /\ UNCHANGED dirs

-----------------------------------------------------------------------------
(* The system calls (external)                                             *)

MkdirError(name) ==
    CASE name \in dirs \cup Files -> "EEXIST"
      [] name \notin dirs \cup Files /\ Parent(name) \in dirs -> "none"
      [] name \notin dirs \cup Files /\ \E n \in 1..(Len(name) - 1) :
             SubSeq(name, 1, n) \in Files -> "ENOTDIR"
      [] OTHER -> "ENOENT"

\* rmdir() of an empty directory, by one of the programs or another one.
RemoveDirectory(name) ==
    /\ name \in dirs
    /\ \A other \in dirs \cup Files : other # <<>> => Parent(other) # name
    /\ dirs' = dirs \ {name}
    /\ removed' = [p \in Programs |-> removed[p] \cup {name}]
    /\ UNCHANGED <<path, parents, calls, result>>

-----------------------------------------------------------------------------
(* make_directory() and make_directory_and_parents()                       *)

\* The innermost call ends; its caller goes on to create the child.
Return(p) ==
    IF Len(calls[p]) = 1
    THEN /\ calls' = [calls EXCEPT ![p] = <<>>]
         /\ result' = [result EXCEPT ![p] = "created"]
    ELSE /\ calls' = [calls EXCEPT ![p] =
                Append(Front(Front(@)), [Last(Front(@)) EXCEPT !.at = "mkdir again"])]
         /\ UNCHANGED result

\* The exception leaves all calls.
Throw(p, error) ==
    /\ calls' = [calls EXCEPT ![p] = <<>>]
    /\ result' = [result EXCEPT ![p] = error]

\* "/" is not found in a path of one component: rfind() returns (size_t) -1,
\* which is not <= 0, and the string that is made from that many characters
\* runs past the path.
Overrun == "overrun"

CallForParent(p) ==
    IF Len(Top(p).path) > 1
    THEN /\ calls' = [calls EXCEPT ![p] = Append(@, Call(Parent(Top(p).path), "mkdir"))]
         /\ UNCHANGED result
    ELSE Throw(p, Overrun)

NowAt(p, at) == [calls EXCEPT ![p] = Append(Front(@), [Last(@) EXCEPT !.at = at])]

Mkdir(p) ==
    LET error == MkdirError(Top(p).path)
    IN  /\ Runs(p, "mkdir") \/ Runs(p, "mkdir again")
        /\ dirs' = IF error = "none" THEN dirs \cup {Top(p).path} ELSE dirs
        /\ \/ error = "none" /\ Return(p)
           \/ /\ error = "EEXIST"
              /\ calls' = NowAt(p, "stat")
              /\ UNCHANGED result
           \/ /\ error = "ENOENT" /\ parents[p] /\ Runs(p, "mkdir")
              /\ CallForParent(p)
           \/ /\ error = "ENOENT" /\ (~parents[p] \/ Runs(p, "mkdir again"))
              /\ Throw(p, error)
           \/ error = "ENOTDIR" /\ Throw(p, error)
        /\ UNCHANGED <<path, parents, removed>>

\* Mutant of Stat: any EEXIST is an error, also of a directory.
StatNever(p) ==
    /\ Runs(p, "stat")
    /\ Throw(p, "EEXIST")
    /\ UNCHANGED <<dirs, path, parents, removed>>

\* is_directory(), after EEXIST.
Stat(p) ==
    /\ Runs(p, "stat")
    /\ IF Top(p).path \in dirs THEN Return(p) ELSE Throw(p, "EEXIST")
    /\ UNCHANGED <<dirs, path, parents, removed>>

Next ==
    \/ \E p \in Programs :
          \/ \E name \in Paths, create_parents \in BOOLEAN : Create(p, name, create_parents)
          \/ Mkdir(p)
          \/ Stat(p)
    \/ \E name \in Removable : RemoveDirectory(name)

Spec == Init /\ [][Next]_vars

-----------------------------------------------------------------------------
(* Properties                                                              *)

\* A directory on the path of the program was removed since the call began.
RemovedWithin(p) == \E name \in removed[p] : IsPrefix(name, path[p])

(* Programs that create the same and overlapping paths do not disturb each  *)
(* other: a call that returns leaves its directory behind, and a call with  *)
(* create_parents throws only because of a file in the way or because of a  *)
(* directory on its path that was removed since it began, whatever the      *)
(* interleaving of the system calls.                                        *)
CreatorsSucceed ==
    \A p \in Programs :
        /\ result[p] = "created" => \/ path[p] \in dirs
                                    \/ path[p] \in removed[p]
        /\ result[p] = "EEXIST" => path[p] \in Files \/ RemovedWithin(p)
        /\ result[p] = "ENOTDIR" => \E file \in Files : IsPrefix(file, path[p])
        /\ result[p] = "ENOENT" => ~parents[p] \/ RemovedWithin(p)

(* The comment in make_directory_and_parents(): what it creates before it   *)
(* tries again is the missing parent directory.                             *)
CreatesMissingParent == \A p \in Programs : result[p] # Overrun
=============================================================================
