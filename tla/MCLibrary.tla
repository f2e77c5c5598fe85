----------------------------- MODULE MCLibrary ------------------------------
(***************************************************************************)
(* The search tree, the map and the parts of the library that keep little   *)
(* state, each on a small instance and each on its own: a behaviour is one  *)
(* of the component that the first state chooses, and its variables are     *)
(* the first of v1, v2...                                                   *)
(***************************************************************************)
EXTENDS Integers, Sequences, FiniteSets, SequencesExt

CONSTANTS
    Pathnames, Programs, Views, Value, NULL,
    TreeNodes, TreeKeys, MapNodes, MapKeys,
    PathStrings, Slash, Dot, UINT_MAX, MaxLevels, MaxText,\* of the pathnames
    Byte, Space, Written, Offsets,                        \* of the stream
    SIZE_MAX, Overhead, MaxLength,
    Inputs, Patterns,                                     \* of match_pattern()
    ViewedTexts, Delim,                                   \* of the views
    HelpTexts, Newline, HelpWidths, HelpCalls,            \* of the command line's help
    Created, Removable, Files                             \* of the directories

VARIABLES component, v1, v2, v3, v4, v5, v6, v7, v8, v9, v10

vars == <<component, v1, v2, v3, v4, v5, v6, v7, v8, v9, v10>>

-----------------------------------------------------------------------------
(* Eight nodes, two pairs of which have equal keys; six elements of a map. *)

EightNodes == 1..8
EightKeys == <<1, 2, 2, 3, 4, 4, 5, 6>>
SixElements == 1..6
SixKeys == <<1, 2, 2, 3, 4, 5>>

Tree == INSTANCE BinarySearchTree WITH
    Node <- TreeNodes, KeyOf <- TreeKeys,
    tree <- v1, root <- v2, leftmost <- v3, rightmost <- v4, number_of_nodes <- v5

Map == INSTANCE SortedMap WITH
    Node <- MapNodes, KeyOf <- MapKeys,
    tree <- v1, root <- v2, leftmost <- v3, rightmost <- v4, number_of_nodes <- v5,
    value <- v6, sr <- v7, iterator <- v8, alive <- v9, element_to_delete <- v10

-----------------------------------------------------------------------------
(* Pathnames with a component, or two, of each kind: absolute, going up,   *)
(* with a suffix, starting with a dot or with dots, and with separators and *)
(* dots that are skipped.                                                   *)

Separator == "/"
FullStop == "."
SomePathnames ==
    {<<>>, <<"/">>, <<"a">>, <<".", ".">>, <<"a", ".", "b">>, <<"a", "/", "a">>,
     <<".", ".", ".", "a">>, <<".", "/", ".", "a", "/">>, <<"/", ".", "/", "/", ".", ".">>}

Path == INSTANCE Pathname WITH
    Strings <- PathStrings, Objects <- Pathnames,
    paths <- v1, shared <- v2, text <- v3

\* One pathname at a time is made from as many components as the bound allows.
PathNext == Path!Next /\ \E o \in Pathnames : Len(v3'[o]) < MaxText

-----------------------------------------------------------------------------
(* Formats of one conversion with all combinations of flags, and formats of *)
(* two and three conversions that differ in their flags.                    *)

Conversion(type, set, width, precision, arg) ==
    [before |-> <<>>, type |-> type, flags |-> set, width |-> width,
     precision |-> precision, arg |-> arg]

Numbers == {0, 5, 1234, 32767, 32768, 65535, -1, -1234}

Alone ==
    {Conversion(t, s, w, p, a) :
        t \in {"d", "u", "o", "x", "b", "p"},
        s \in SUBSET {"space", "hash", "quote", "plus", "minus", "zero"},
        w \in {NULL, 8, -7}, p \in {NULL, 0, 6}, a \in Numbers}
    \cup {Conversion(t, s, w, p, a) :
        t \in {"s", "c"}, s \in SUBSET {"minus", "zero"},
        w \in {NULL, 1, 3, -3}, p \in {NULL, -1, 0, 1}, a \in {<<"a">>}}
    \cup {Conversion("s", {}, w, p, a) :
        w \in {NULL, 3, -3}, p \in {NULL, 0, 1, 3}, a \in {<<>>, <<"a", "b">>}}

Together ==
    {[c EXCEPT !.before = b] : b \in {<<>>, <<"v", "w">>}, c \in
        {Conversion("%", {}, NULL, NULL, 0), Conversion("n", {}, NULL, NULL, 0),
         Conversion("?", {}, NULL, NULL, 0),
         Conversion("d", {"zero"}, 4, NULL, 5), Conversion("d", {"plus"}, -4, NULL, -1),
         Conversion("d", {}, NULL, 0, 0), Conversion("x", {"hash"}, 6, 3, 5),
         Conversion("s", {}, 3, NULL, <<"a">>), Conversion("s", {"minus"}, 3, 1, <<"a", "b">>),
         Conversion("c", {}, NULL, NULL, <<"a">>)}}

AllFormats ==
    {[convs |-> <<c>>, tail |-> <<>>] : c \in Alone}
    \cup {[convs |-> cs, tail |-> t] :
             cs \in [1..2 -> Together] \cup {<<>>}, t \in {<<>>, <<"z">>}}
    \cup {[convs |-> cs, tail |-> <<>>] : cs \in [1..3 -> {c \in Together : c.before # <<>>}]}

Format == INSTANCE Formatting WITH
    Formats <- AllFormats, Bytes <- 2, AllocateMay <- BOOLEAN, None <- NULL,
    format <- v1, phase <- v2, fmt <- v3, acc_len <- v4, dest <- v5,
    written <- v6, flags <- v7, stack <- v8, stored <- v9, refused <- v10

-----------------------------------------------------------------------------
(* Help texts of up to seven characters                                    *)

Blank == " "
LineFeed == "n"
SomeHelpTexts == SeqOf({"a", Blank, LineFeed}, 7)

SomeHelpCalls ==
    {[topic_len |-> t, indent |-> i, cont_indent |-> c] :
        t \in {0, 1, 2}, i \in {0, 2}, c \in {-1, 1}}

Wrap == INSTANCE WordWrap WITH
    Texts <- HelpTexts, Widths <- HelpWidths, Calls <- HelpCalls,
    text <- v1, width <- v2, call <- v3, line <- v4, offset <- v5, indent <- v6, printed <- v7

-----------------------------------------------------------------------------
(* A stream in a string of up to five bytes.                               *)

SomeBytes == {"x", "y", Blank}
SomeData == SeqOf({"x", Blank}, 1) \cup {<<"x", "y">>, <<"y", "x", "y">>}
SomeOffsets == {-2, 0, 1, 3}

Stream == INSTANCE StringStream WITH
    Data <- Written,
    buf_str <- v1, pos <- v2, got <- v3, bytes <- v4, size <- v5, overran <- v6

-----------------------------------------------------------------------------
(* Patterns of up to four characters, and two with several asterisks.      *)

SomeInputs == SeqOf({"a", "b"}, 5)
SomePatterns ==
    SeqOf({"a", "b", "*", "?"}, 4)
    \cup {<<"*", "a", "*", "a", "b">>, <<"*", "a", "?", "a", "*">>}

Match == INSTANCE PatternMatching WITH
    Asterisk <- "*", QuestionMark <- "?",
    input <- v1, pattern <- v2, at <- v3, i <- v4, p <- v5,
    saved_input <- v6, saved_pattern <- v7, result <- v8

-----------------------------------------------------------------------------
(* Two views of texts with the delimiter in all positions.                 *)

SomeTexts ==
    {<<>>, <<",">>, <<"a", ",", "b">>, <<",", "a", ",", ",">>,
     <<",", ",", "a", "b", ",">>, <<"a", ",", "a", ",", "a">>}

Comma == ","

View == INSTANCE StringView WITH
    Texts <- ViewedTexts, text <- v1, view <- v2, latest <- v3

-----------------------------------------------------------------------------
(* All pairs of short strings and two long ones; sorted sequences of up to  *)
(* five elements; versions without leading zeros; data of up to four bytes. *)

Period == 46
Words == SeqOf({"a", "b"}, 2) \cup {<<"b", "a", "a", "b">>, <<"a", "b", "b", "a", "c">>}
SortedSeqs == {s \in SeqOf(1..5, 5) : \A n \in 1..(Len(s) - 1) : s[n] <= s[n + 1]}

Versions ==
    {v \in SeqOf({0, 1, 9, Period}, 4) :
        /\ v # <<>> /\ v[1] # Period /\ Last(v) # Period
        /\ \A n \in 1..(Len(v) - 1) :
              /\ ~(v[n] = Period /\ v[n + 1] = Period)
              /\ v[n] = 0 /\ v[n + 1] # Period => n > 1 /\ v[n - 1] # Period}

SomeBinary == SeqOf({0, 1, 91, 170, 255}, 4)
SomeText == SeqOf({0, 38, 63, 128}, 5)

Alg == INSTANCE Algorithms WITH
    Strings <- Words, Ordered <- SortedSeqs, Versions <- Versions, Period <- Period,
    Data <- SomeBinary, Encoded <- SomeText, Invalid <- 128,
    row <- v1, called <- v2, args <- v3, returned <- v4

\* Only distances keep anything; the other functions are called in the beginning.
AlgNext ==
    \/ \E s, t \in Words : Alg!Distance(s, t)
    \/ v2 = "none" /\ Alg!PureCall

-----------------------------------------------------------------------------
(* Two programs that create a directory, its descendants, a file that is in *)
(* the way, and a path through that file.                                   *)

SomePaths == {<<"a">>, <<"a", "b">>, <<"a", "b", "c">>, <<"f", "b">>, <<"f">>}
SomeRemovable == {<<"a">>, <<"a", "b">>}
SomeFiles == {<<"f">>}

Dir == INSTANCE DirectoryCreation WITH
    Paths <- Created,
    dirs <- v1, path <- v2, parents <- v3, calls <- v4, result <- v5, removed <- v6

-----------------------------------------------------------------------------
(* The specification                                                       *)

ASSUME TreeAssumption      == Tree!NodeAssumption /\ Tree!KeyAssumption
ASSUME MapAssumption       == Map!NodeAssumption /\ Map!KeyAssumption /\ Map!NullAssumption
ASSUME PathAssumption      == Path!PathnameAssumption
ASSUME Format!FormattingAssumption
ASSUME WrapAssumption      == Wrap!WordWrapAssumption
ASSUME StreamAssumption    == Stream!StringStreamAssumption
ASSUME MatchAssumption     == Match!PatternMatchingAssumption
ASSUME ViewAssumption      == View!StringViewAssumption
ASSUME DirectoryAssumption == Dir!DirectoryCreationAssumption

After3 == <<v4, v5, v6, v7, v8, v9, v10>>
After4 == <<v5, v6, v7, v8, v9, v10>>
After5 == <<v6, v7, v8, v9, v10>>
After6 == <<v7, v8, v9, v10>>
After7 == <<v8, v9, v10>>
After8 == <<v9, v10>>

Unused8 == v9 = NULL /\ v10 = NULL
Unused7 == v8 = NULL /\ Unused8
Unused6 == v7 = NULL /\ Unused7
Unused5 == v6 = NULL /\ Unused6
Unused4 == v5 = NULL /\ Unused5
Unused3 == v4 = NULL /\ Unused4

MCInit ==
    \/ component = "tree" /\ Tree!TreeInit /\ Unused5
    \/ component = "map" /\ Map!Init
    \/ component = "path" /\ Path!Init /\ Unused3
    \/ component = "format" /\ Format!Init
    \/ component = "wrap" /\ Wrap!Init /\ Unused7
    \/ component = "stream" /\ Stream!Init /\ Unused6
    \/ component = "match" /\ Match!Init /\ Unused8
    \/ component = "view" /\ View!Init /\ Unused3
    \/ component = "alg" /\ Alg!Init /\ Unused4
    \/ component = "dir" /\ Dir!Init /\ Unused6

MCNext ==
    \/ component = "tree" /\ Tree!TreeNext /\ UNCHANGED <<component, After5>>
    \/ component = "map" /\ Map!Next /\ UNCHANGED component
    \/ component = "path" /\ PathNext /\ UNCHANGED <<component, After3>>
    \/ component = "format" /\ Format!Next /\ UNCHANGED component
    \/ component = "wrap" /\ Wrap!Next /\ UNCHANGED <<component, After7>>
    \/ component = "stream" /\ Stream!Next /\ UNCHANGED <<component, After6>>
    \/ component = "match" /\ Match!Next /\ UNCHANGED <<component, After8>>
    \/ component = "view" /\ View!Next /\ UNCHANGED <<component, After3>>
    \/ component = "alg" /\ AlgNext /\ UNCHANGED <<component, After4>>
    \/ component = "dir" /\ Dir!Next /\ UNCHANGED <<component, After6>>

MCSpec == MCInit /\ [][MCNext]_vars

-----------------------------------------------------------------------------
(* The properties of the components, under their names there               *)

\* The tree is sound: links, order, iteration and find().
TreeIsSound == component = "tree" => Tree!TreeIsSound

\* The tree is a sequence sorted by key: set_base::insert() and remove().
SortedByKey ==
    /\ component = "tree" => Tree!Order!Init
    /\ [][component = "tree" => [Tree!Order!Next]_(Tree!InOrder)]_vars

\* The map is sound: unique keys, no dangling pointer, no leak.
MapIsSound == component = "map" => Map!MapIsSound

\* The map is a function from keys to values with an iterator over its keys.
IsOrderedMap ==
    /\ component = "map" => Map!Contents!Init
    /\ [][component = "map" => [Map!Contents!Next]_<<Map!Entries, Map!Position>>]_vars

\* A pathname means what its text means, however it was put together.
PathMeansText == component = "path" => Path!PathMeansText

\* Pathnames that mean the same are equal: the object keeps a normal form.
NormalForm == component = "path" => Path!NormalForm

\* Joining what relative_to() returns leads back.
RelativeToIsUndone == component = "path" => Path!RelativeToIsUndone

\* The second pass fills exactly the buffer that the first one asked for.
FillsTheBuffer == component = "format" => Format!FillsTheBuffer

\* Each piece of the result depends on its own conversion alone.
PiecesAreIndependent == component = "format" => Format!PiecesAreIndependent

\* Help texts are wrapped between words and lose nothing but spaces.
LinesAreWrapped == component = "wrap" => Wrap!LinesAreWrapped

\* A stream in a string reads what a file would give back.
BehavesLikeAFile == component = "stream" => Stream!BehavesLikeAFile

\* match_pattern() answers as the definition of the wildcards does.
MatchesAsDefined == component = "match" => Match!MatchesAsDefined

\* split() cuts at the delimiter, also when an output is its own receiver.
SplitsAsPromised == component = "view" => View!SplitsAsPromised

\* Distances, bounds, versions and base64url follow their definitions.
AnswersAreRight == component = "alg" => Alg!AnswersAreRight

\* Programs that create overlapping directories do not disturb each other.
CreatorsSucceed == component = "dir" => Dir!CreatorsSucceed
=============================================================================
