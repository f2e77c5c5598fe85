---------------------------- MODULE CommandLine -----------------------------
(***************************************************************************)
(* The command line parser of cli.h and cli.cc: the registration of        *)
(* options, positional arguments and commands, the two parts of            *)
(* parse_and_validate(), and next_arg().                                   *)
(*                                                                         *)
(* An argument of the command line (a word) is a sequence of tokens: "-",  *)
(* "=", a letter, or a longer name. A value is the code's char pointer: the *)
(* number of a word and an offset in it, or Yes for the literal "yes" that  *)
(* stands for the value of a switch. Identifiers are numbers, as in the    *)
(* code; 0 is a null pointer to an option_info.                            *)
(***************************************************************************)
EXTENDS Integers, Sequences, FiniteSets, Functions, SequencesExt

CONSTANTS
    Letters,      \* the tokens that are one character long
    Options,      \* what the program may register: [names, param]
    Commands,     \* sets of name variants of the commands it may register
    MaxOperands,  \* bound on the positional arguments it registers
    Lines,        \* the command lines a user may type, without the program name
    VersionInfo   \* values of "version_info is given"

ASSUME CommandLineAssumption ==
    /\ \A o \in Options : o.param \in BOOLEAN /\ "=" \notin o.names \ Letters
    /\ \A line \in Lines :
          /\ line \in Seq(Range(line))
          /\ \A i \in DOMAIN line : line[i] \in Seq(Range(line[i]))
    /\ MaxOperands \in Nat
    /\ VersionInfo \subseteq BOOLEAN

VARIABLES
    infos,       \* opt_id_to_opt_info: what is registered, by identifier
    single,      \* single_letter_options
    long,        \* long_opt_name_to_opt_info
    own,         \* the lists of a program without commands
    commands,    \* cmd_id_to_cmd_info: [names, lists], by identifier
    phase,       \* where the program or parse_and_validate() is
    argv,        \* the command line
    version,     \* version_info is not empty
    w,           \* the word that is read
    k,           \* the letter of the word that is read
    operands,    \* positional_argument_values
    values,      \* option_values: pairs of an identifier and a value
    command,     \* what parse() returns, if not HELP_CMD_ID
    next         \* next_option_value, an index in values; 0 when not set

registry == <<infos, single, long, own, commands>>
vars == <<registry, phase, argv, version, w, k, operands, values, command, next>>

VERSION_OPT_ID == -1
HELP_OPT_ID == -2
NoInfo == 0
Yes == <<0, 0>>

Switch == "option"
OptionWithParameter == "option_with_parameter"
OperandTypes == {"positional_argument", "optional_positional",
                 "zero_or_more_positional", "one_or_more_positional"}

\* command_or_commandless_cli.
NoLists ==
    [accepted |-> <<>>, required |-> <<>>, requiredSeq |-> NoInfo,
     optional |-> <<>>, optionalSeq |-> NoInfo, trailing |-> <<>>]

Init ==
    /\ infos = <<>>
    /\ single = << >>
    /\ long = [n \in {"version", "help"} |->
                  IF n = "version" THEN VERSION_OPT_ID ELSE HELP_OPT_ID]
    /\ own = NoLists
    /\ commands = <<>>
    /\ phase = "registering"
    /\ argv = <<>> /\ version = FALSE
    /\ w = 1 /\ k = 1
    /\ operands = <<>> /\ values = <<>>
    /\ command = 0 /\ next = 0

parsing == <<argv, version, w, k, operands, values, command, next>>

TypeOf(id) == IF id < 0 THEN Switch ELSE infos[id].type

TakesParameter(id) == TypeOf(id) = OptionWithParameter

-----------------------------------------------------------------------------
(* Registration                                                            *)

Point(table, names, id) ==
    [n \in names \cup DOMAIN table |-> IF n \in names THEN id ELSE table[n]]

RegisterOption(o) ==
    LET id == Len(infos) + 1
    IN  /\ phase = "registering"
        /\ \A i \in DOMAIN infos : infos[i].names # o.names
        /\ infos' = Append(infos,
              [type |-> IF o.param THEN OptionWithParameter ELSE Switch,
               names |-> o.names])
        /\ single' = Point(single, o.names \cap Letters, id)
        /\ long' = Point(long, o.names \ Letters, id)
        /\ own' = [own EXCEPT !.accepted = Append(@, id)]
        /\ UNCHANGED <<commands, phase, parsing>>

\* Where a positional argument goes in the lists of the program or command;
\* before is the condition under which a required one precedes the others.
WithOperand(lists, type, id, before) ==
    CASE type = "positional_argument" /\ before ->
             [lists EXCEPT !.required = Append(@, id)]
      [] type = "positional_argument" /\ ~before ->
             [lists EXCEPT !.trailing = Append(@, id)]
      [] type = "optional_positional" ->
             [lists EXCEPT !.optional = Append(@, id)]
      [] type = "zero_or_more_positional" -> [lists EXCEPT !.optionalSeq = id]
      [] type = "one_or_more_positional" -> [lists EXCEPT !.requiredSeq = id]

OnlyRequired(lists) ==
    /\ lists.requiredSeq = NoInfo
    /\ lists.optional = <<>>
    /\ lists.optionalSeq = NoInfo

RegisterOperand(type) ==
    LET id == Len(infos) + 1
    IN  /\ phase = "registering"
        /\ Cardinality({i \in DOMAIN infos : infos[i].type \in OperandTypes})
              < MaxOperands
        /\ infos' = Append(infos, [type |-> type, names |-> {}])
        /\ own' = WithOperand(own, type, id, OnlyRequired(own))
        /\ UNCHANGED <<single, long, commands, phase, parsing>>

RegisterCommand(names) ==
    /\ phase = "registering"
    /\ \A c \in DOMAIN commands : commands[c].names # names
    /\ commands' = Append(commands, [names |-> names, lists |-> NoLists])
    /\ UNCHANGED <<infos, single, long, own, phase, parsing>>

\* What the assertions of register_association() require.
MayFollow(lists, type) ==
    CASE type = "positional_argument" -> TRUE
      [] type \in {"optional_positional", "zero_or_more_positional"} ->
             /\ lists.requiredSeq = NoInfo
             /\ lists.optionalSeq = NoInfo
             /\ lists.trailing = <<>>
      [] type = "one_or_more_positional" ->
             OnlyRequired(lists) /\ lists.trailing = <<>>

\* The list that an argument is associated through is not looked at again:
\* associating it twice is a mistake of the program, which is left out.
Associated(lists) ==
    Range(lists.accepted) \cup Range(lists.required) \cup Range(lists.optional)
        \cup Range(lists.trailing) \cup {lists.requiredSeq, lists.optionalSeq}

Associate(c, id) ==
    LET lists == commands[c].lists
        type == infos[id].type
    IN  /\ phase = "registering"
        /\ id \notin Associated(lists)
        /\ \/ /\ type \notin OperandTypes
              /\ commands' = [commands EXCEPT ![c].lists.accepted = Append(@, id)]
           \/ /\ type \in OperandTypes
              /\ MayFollow(lists, type)
              /\ commands' = [commands EXCEPT ![c].lists =
                    WithOperand(lists, type, id,
                                OnlyRequired(lists) /\ lists.trailing = <<>>)]
        /\ UNCHANGED <<infos, single, long, own, phase, parsing>>

-----------------------------------------------------------------------------
(* parse(), part one: options and operands                                 *)

Parse(line, v) ==
    /\ phase = "registering"
    /\ phase' = "words"
    /\ argv' = line /\ version' = v
    /\ w' = 1 /\ k' = 1
    /\ operands' = <<>> /\ values' = <<>>
    /\ UNCHANGED <<registry, command, next>>

Word == argv[w]
LastWord == w = Len(argv)
IsOperand(word) == Len(word) < 2 \/ word[1] # "-"
Marker == <<"-", "-">>
IsLong(word) == word[2] = "-"

Fail ==
    /\ phase' = "failed"
    /\ UNCHANGED <<registry, argv, version, w, k, operands, values, command, next>>

\* append_option_value(), then on to the given word and letter.
Record(id, value, w1, k1) ==
    /\ values' = Append(values, <<id, value>>)
    /\ w' = w1 /\ k' = k1
    /\ phase' = IF k1 > 1 THEN "letters" ELSE "words"
    /\ UNCHANGED <<registry, argv, version, operands, command, next>>

ReadOperand ==
    /\ phase = "words" /\ w <= Len(argv)
    /\ IsOperand(Word)
    /\ operands' = Append(operands, <<w, 1>>)
    /\ w' = w + 1
    /\ UNCHANGED <<registry, phase, argv, version, k, values, command, next>>

ReadMarker ==
    /\ phase = "words" /\ w <= Len(argv)
    /\ Word = Marker
    /\ operands' = operands \o [i \in 1..(Len(argv) - w) |-> <<w + i, 1>>]
    /\ w' = Len(argv) + 1
    /\ UNCHANGED <<registry, phase, argv, version, k, values, command, next>>

\* Mutant of TakeNextWord: the word of the parameter is read again.
TakeNextWordTwice(id) ==
    IF LastWord THEN Fail ELSE Record(id, <<w + 1, 1>>, w + 1, 1)

\* The option of the given identifier was read to the end of the word: its
\* parameter is the next word.
TakeNextWord(id) ==
    IF LastWord THEN Fail ELSE Record(id, <<w + 1, 1>>, w + 2, 1)

ReadLong ==
    LET equals == {i \in 3..Len(Word) : Word[i] = "="}
        named == 3..Len(Word) \ {i \in 3..Len(Word) : \E e \in equals : e <= i}
        known == named = {3} /\ Word[3] \in DOMAIN long
        id == long[Word[3]]
    IN  /\ phase = "words" /\ w <= Len(argv)
        /\ ~IsOperand(Word) /\ IsLong(Word) /\ Word # Marker
        /\ IF ~known \/ (id = VERSION_OPT_ID /\ ~version) THEN Fail
           ELSE IF ~TakesParameter(id)
                THEN IF equals # {} THEN Fail ELSE Record(id, Yes, w + 1, 1)
           ELSE IF equals # {} THEN Record(id, <<w, 5>>, w + 1, 1)
                ELSE TakeNextWord(id)

\* Mutant of StartLetters: the loop stays at the word.
StartLettersNever ==
    /\ phase = "words" /\ w <= Len(argv)
    /\ ~IsOperand(Word) /\ ~IsLong(Word)
    /\ k' = 2
    /\ UNCHANGED <<registry, phase, argv, version, w, operands, values, command, next>>

StartLetters ==
    /\ phase = "words" /\ w <= Len(argv)
    /\ ~IsOperand(Word) /\ ~IsLong(Word)
    /\ phase' = "letters" /\ k' = 2
    /\ UNCHANGED <<registry, argv, version, w, operands, values, command, next>>

ReadLetter ==
    LET id == single[Word[k]]
        last == k = Len(Word)
    IN  /\ phase = "letters"
        /\ IF Word[k] \notin DOMAIN single THEN Fail
           ELSE IF ~TakesParameter(id)
                THEN IF last THEN Record(id, Yes, w + 1, 1)
                     ELSE Record(id, Yes, w, k + 1)
           ELSE IF last THEN TakeNextWord(id)
                ELSE Record(id, <<w, k + 1>>, w + 1, 1)

EndOfWords ==
    /\ phase = "words" /\ w > Len(argv)
    /\ phase' = "validation"
    /\ UNCHANGED <<registry, argv, version, w, k, operands, values, command, next>>
-----------------------------------------------------------------------------
(* parse(), part two: validation                                           *)

finished == <<registry, argv, version, w, k, operands, values>>

Reject == phase' = "failed" /\ UNCHANGED <<command, next, finished>>

\* print_help() refuses any option but --help.
PrintHelp ==
    IF \E i \in DOMAIN values : values[i][1] # HELP_OPT_ID
    THEN Reject
    ELSE phase' = "help" /\ UNCHANGED <<command, next, finished>>

Specials == {i \in DOMAIN values : values[i][1] < 0}

\* The first --version or --help decides.
ValidateSpecial ==
    /\ phase = "validation"
    /\ Specials # {}
    /\ \E i \in Specials :
          /\ \A j \in Specials : i <= j
          /\ \/ /\ values[i][1] = VERSION_OPT_ID
                /\ phase' = "help"
                /\ UNCHANGED <<command, next, finished>>
             \/ /\ values[i][1] = HELP_OPT_ID
                /\ PrintHelp

Paired(ids, vals) == [i \in DOMAIN ids |-> <<ids[i], vals[i]>>]

RepeatedId(id, vals) == [i \in DOMAIN vals |-> <<id, vals[i]>>]

\* Mutant of NumberRequired: the repeated argument may be left out.
NumberRequiredButRepeated(lists) == Len(lists.required) + Len(lists.trailing)

NumberRequired(lists) ==
    Len(lists.required) + Len(lists.trailing)
        + (IF lists.requiredSeq # NoInfo THEN 1 ELSE 0)

TooMany(lists, vals) ==
    /\ lists.requiredSeq = NoInfo
    /\ lists.optionalSeq = NoInfo
    /\ Len(vals) > NumberRequired(lists) + Len(lists.optional)

TooFew(lists, vals) == Len(vals) < NumberRequired(lists)

\* What append_positional_argument_values() appends.
Dealt(lists, vals) ==
    LET leading == Len(lists.required)
        trailing == Len(vals) - Len(lists.trailing)
        middle == SubSeq(vals, leading + 1, trailing)
        filled == IF Len(lists.optional) < Len(middle)
                  THEN Len(lists.optional) ELSE Len(middle)
    IN  Paired(lists.required, SubSeq(vals, 1, leading))
        \o (IF lists.requiredSeq # NoInfo
            THEN RepeatedId(lists.requiredSeq, middle)
            ELSE Paired(SubSeq(lists.optional, 1, filled), SubSeq(middle, 1, filled))
                 \o (IF lists.optionalSeq # NoInfo
                     THEN RepeatedId(lists.optionalSeq,
                                     SubSeq(middle, filled + 1, Len(middle)))
                     ELSE <<>>))
        \o Paired(lists.trailing, SubSeq(vals, trailing + 1, Len(vals)))

\* append_positional_argument_values(), then the return from parse().
DealOperands(lists, vals, returned) ==
    IF TooMany(lists, vals) \/ TooFew(lists, vals) THEN Reject
    ELSE /\ values' = values \o Dealt(lists, vals)
         /\ next' = 1
         /\ command' = returned
         /\ phase' = "ready"
         /\ UNCHANGED <<registry, argv, version, w, k, operands>>

ValidateWithoutCommands ==
    /\ phase = "validation"
    /\ Specials = {}
    /\ commands = <<>>
    /\ DealOperands(own, operands, 0)

CommandName == argv[operands[1][1]]

Named(name) == {c \in DOMAIN commands : name \in {<<n>> : n \in commands[c].names}}

\* A name that was registered twice belongs to the later command.
FindCommand(name) == CHOOSE c \in Named(name) : \A d \in Named(name) : d <= c

\* Mutant of IsAccepted: every command takes every option.
IsAcceptedAlways(lists, id) == TRUE

IsAccepted(lists, id) == id \in Range(lists.accepted)

ValidateCommand ==
    /\ phase = "validation"
    /\ Specials = {}
    /\ commands # <<>>
    /\ IF operands = <<>> THEN Reject
       ELSE IF Named(CommandName) = {}
            THEN IF CommandName = <<"help">> THEN PrintHelp ELSE Reject
       ELSE LET c == FindCommand(CommandName)
                lists == commands[c].lists
            IN  IF \E i \in DOMAIN values : ~IsAccepted(lists, values[i][1])
                THEN Reject
                ELSE DealOperands(lists, Tail(operands), c)

-----------------------------------------------------------------------------
(* next_arg(): false, and nothing changed, when next has passed the end.   *)

NextArg ==
    /\ phase = "ready"
    /\ next <= Len(values)
    /\ next' = next + 1
    /\ UNCHANGED <<registry, phase, argv, version, w, k, operands, values, command>>

ParseStep ==
    \/ ReadOperand \/ ReadMarker \/ ReadLong \/ StartLetters \/ ReadLetter
    \/ EndOfWords
    \/ ValidateSpecial \/ ValidateWithoutCommands \/ ValidateCommand

Register ==
    \/ \E o \in Options : RegisterOption(o)
    \/ \E type \in OperandTypes : RegisterOperand(type)
    \/ \E names \in Commands : RegisterCommand(names)
    \/ \E c \in DOMAIN commands, id \in DOMAIN infos : Associate(c, id)

Next ==
    \/ Register
    \/ \E line \in Lines, v \in VersionInfo : Parse(line, v)
    \/ ParseStep
    \/ NextArg

\* parse() is one call of the program's only thread: once entered, it runs.
Spec == Init /\ [][Next]_vars /\ WF_vars(ParseStep)

=============================================================================
