------------------------- MODULE CommandLineMeaning -------------------------
(***************************************************************************)
(* What a command line means to a program that registered its options and  *)
(* arguments: the role of each word, the options it stands for, the        *)
(* argument each operand is a value of, and which command lines are        *)
(* mistakes. It looks at the registry and the words only, never at the     *)
(* parser's progress; the parser of CommandLine is held against it.        *)
(***************************************************************************)
EXTENDS CommandLine


KnownLong(word) ==
    /\ Len(word) = 3 \/ word[4] = "="
    /\ word[3] \in DOMAIN long
    /\ long[word[3]] = VERSION_OPT_ID => version

\* The letter whose parameter ends a series of letters, or the last letter.
LastLetter(word) ==
    LET takers == {i \in 2..Len(word) :
                      word[i] \in DOMAIN single /\ TakesParameter(single[word[i]])}
    IN  IF takers = {} THEN Len(word)
        ELSE CHOOSE i \in takers : \A j \in takers : i <= j

\* The option of a word that ends without the parameter it takes.
Wants(word) ==
    /\ ~IsOperand(word) /\ word # Marker
    /\ IF IsLong(word)
       THEN Len(word) = 3 /\ KnownLong(word) /\ TakesParameter(long[word[3]])
       ELSE /\ LastLetter(word) = Len(word)
            /\ Last(word) \in DOMAIN single
            /\ TakesParameter(single[Last(word)])

\* The role of each word, from left to right.
Roles ==
    LET role[i \in 0..Len(argv)] ==
            IF i = 0 THEN "start"
            ELSE LET left == role[i - 1]
                 IN  CASE left \in {"marker", "rest"} -> "rest"
                       [] left = "option" /\ Wants(argv[i - 1]) -> "parameter"
                       [] OTHER -> IF argv[i] = Marker THEN "marker"
                                   ELSE IF IsOperand(argv[i]) THEN "operand"
                                   ELSE "option"
    IN  role

WellFormed(i) ==
    LET word == argv[i]
    IN  /\ Wants(word) => i < Len(argv)
        /\ IF IsLong(word)
           THEN KnownLong(word)
                /\ (Len(word) > 3 => TakesParameter(long[word[3]]))
           ELSE \A j \in 2..LastLetter(word) : word[j] \in DOMAIN single

\* The options that a well-formed word stands for.
Meant(i) ==
    LET word == argv[i]
        Value(id, attached, j) ==
            IF ~TakesParameter(id) THEN Yes
            ELSE IF attached THEN <<i, j>> ELSE <<i + 1, 1>>
    IN  IF IsLong(word)
        THEN <<<<long[word[3]], Value(long[word[3]], Len(word) > 3, 5)>>>>
        ELSE [j \in 1..(LastLetter(word) - 1) |->
                 <<single[word[j + 1]],
                   Value(single[word[j + 1]], j + 1 < Len(word), j + 2)>>]

\* The options that the first i words stand for.
OptionsRead ==
    LET all == Roles
        read[i \in 0..Len(argv)] ==
            IF i = 0 THEN <<>>
            ELSE read[i - 1] \o (IF all[i] = "option" THEN Meant(i) ELSE <<>>)
    IN  read

\* The operands among the first i words.
OperandsRead ==
    LET all == Roles
        read[i \in 0..Len(argv)] ==
            IF i = 0 THEN <<>>
            ELSE read[i - 1] \o (IF all[i] \in {"operand", "rest"} THEN <<<<i, 1>>>> ELSE <<>>)
    IN  read

MeantOptions == OptionsRead[Len(argv)]

MeantOperands == OperandsRead[Len(argv)]

\* The argument that the j-th of n operands is a value of.
OwnerOf(lists, j, n) ==
    LET leading == Len(lists.required)
        trailing == n - Len(lists.trailing)
    IN  CASE j <= leading -> lists.required[j]
          [] j > trailing -> lists.trailing[j - trailing]
          [] leading < j /\ j <= trailing /\ lists.requiredSeq # NoInfo ->
                 lists.requiredSeq
          [] leading < j /\ j <= trailing /\ lists.requiredSeq = NoInfo
                /\ j - leading <= Len(lists.optional) -> lists.optional[j - leading]
          [] OTHER -> lists.optionalSeq

Owned(lists, vals) ==
    [j \in DOMAIN vals |-> <<OwnerOf(lists, j, Len(vals)), vals[j]>>]

ListsInUse == IF commands = <<>> THEN own ELSE commands[command].lists

CommandOperands == IF commands = <<>> THEN MeantOperands ELSE Tail(MeantOperands)

CountFits(lists, n) ==
    LET fixed == Len(lists.required) + Len(lists.trailing)
    IN  CASE lists.requiredSeq # NoInfo -> n > fixed
          [] lists.requiredSeq = NoInfo /\ lists.optionalSeq # NoInfo -> n >= fixed
          [] OTHER -> n \in fixed..(fixed + Len(lists.optional))

HelpAlone == \A i \in DOMAIN MeantOptions : MeantOptions[i][1] = HELP_OPT_ID

\* A command line that the program's interface admits.
Admissible ==
    /\ \A i \in DOMAIN argv : Roles[i] = "option" => WellFormed(i)
    /\ LET specials == {i \in DOMAIN MeantOptions : MeantOptions[i][1] < 0}
       IN  IF specials # {}
           THEN \A i \in specials :
                   (\A j \in specials : i <= j) /\ MeantOptions[i][1] = HELP_OPT_ID
                       => HelpAlone
           ELSE IF commands = <<>> THEN CountFits(own, Len(MeantOperands))
           ELSE /\ MeantOperands # <<>>
                /\ LET name == argv[MeantOperands[1][1]]
                   IN  \/ Named(name) = {} /\ name = <<"help">> /\ MeantOptions = <<>>
                       \/ /\ Named(name) # {}
                          /\ LET lists == commands[FindCommand(name)].lists
                             IN  /\ \A i \in DOMAIN MeantOptions :
                                       MeantOptions[i][1] \in Range(lists.accepted)
                                 /\ CountFits(lists, Len(MeantOperands) - 1)

-----------------------------------------------------------------------------
(* Properties                                                              *)

(* What parse() collects and next_arg() returns is what the user typed:    *)
(* every option with the parameter that belongs to it, then every operand, *)
(* in order, as the value of the argument it stands for. Nothing is lost,  *)
(* repeated or given to two arguments.                                     *)
DeliversAsTyped ==
    phase = "ready" =>
        values = MeantOptions \o Owned(ListsInUse, CommandOperands)

(* parse() throws exactly for the command lines that the interface does    *)
(* not admit: unknown options, missing or superfluous parameters, options  *)
(* that the command does not accept, too few or too many operands, --help  *)
(* with other options.                                                     *)
RefusesExactlyMistakes ==
    /\ phase = "failed" => ~Admissible
    /\ phase \in {"ready", "help"} => Admissible

TimesDelivered(id) == Cardinality({i \in DOMAIN values : values[i][1] = id})

(* However the required, optional, repeated and trailing arguments are     *)
(* combined, after parse() each required one has exactly one value, a      *)
(* required sequence at least one, an optional one at most one.            *)
RequiredAreServed ==
    phase = "ready" =>
        /\ \A id \in Range(ListsInUse.required) \cup Range(ListsInUse.trailing) :
              TimesDelivered(id) = 1
        /\ ListsInUse.requiredSeq # NoInfo =>
              TimesDelivered(ListsInUse.requiredSeq) >= 1
        /\ \A id \in Range(ListsInUse.optional) : TimesDelivered(id) <= 1

(* parse() returns or throws for every command line: none of its loops     *)
(* runs past the end of argv or stays at a word.                           *)
EveryParseEnds == phase = "words" ~> phase \in {"ready", "help", "failed"}

(* The comment of next_arg() in cli.h: values are retrieved in the order   *)
(* they appear on the command line.                                        *)
InCommandLineOrder ==
    phase = "ready" =>
        \A i, j \in DOMAIN values :
            (i < j /\ values[i] [2] # Yes /\ values[j][2] # Yes)
                => values[i][2][1] <= values[j][2][1]
=============================================================================
