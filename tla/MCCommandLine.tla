--------------------------- MODULE MCCommandLine ----------------------------
(***************************************************************************)
(* Two options, operands of all four types, a command with an alias, and   *)
(* command lines of up to four words. Registrations that go to different   *)
(* tables commute, so they are tried in one order; long command lines with *)
(* two options are tried on interfaces with one operand at most, and two   *)
(* commands, which share a name, without operands.                         *)
(***************************************************************************)
EXTENDS CommandLineMeaning

MCOptions == {[names |-> {"a", "all"}, param |-> FALSE],
              [names |-> {"o", "out"}, param |-> TRUE]}

OptionWords ==
    {<<"-", "a", "o">>, <<"-", "o", "a">>, <<"-", "a">>, <<"-", "x">>,
     Marker, <<"-", "-", "all">>, <<"-", "-", "all", "=", "p">>,
     <<"-", "-", "out">>, <<"-", "-", "out", "=", "p">>, <<"-", "-", "out", "=">>,
     <<"-", "-", "help">>, <<"-", "-", "version">>}

OptionsIn(line) == Cardinality({i \in DOMAIN line : line[i] \in OptionWords})

MCLines ==
    [1..4 -> {<<"p">>, <<"c">>}]
    \cup {line \in SeqOf({<<"p">>, <<"c">>} \cup OptionWords, 3) : OptionsIn(line) < 3}
    \cup SeqOf({<<"p">>, <<"c">>, <<"help">>, <<"-">>} \cup OptionWords, 2)

OperandInfos == {i \in DOMAIN infos : infos[i].type \in OperandTypes}

InOrder ==
    /\ infos' # infos =>
          /\ commands = <<>>
          /\ infos'[Len(infos')].type \in OperandTypes => Len(infos) >= Cardinality(MCOptions)
          /\ infos'[Len(infos')].type = Switch => infos = <<>>
    /\ Len(commands') > Len(commands) => Len(infos) >= Cardinality(MCOptions)
    /\ Len(commands') > 1 => OperandInfos = {}
    /\ \A c \in DOMAIN commands :
          LET new == Associated(commands'[c].lists) \ Associated(commands[c].lists)
          IN  \A id \in new : \A old \in Associated(commands[c].lists) : old < id

\* The interfaces worth parsing for, and the command lines worth trying on them.
Complete ==
    /\ phase = "registering"
    /\ Len(infos) >= Cardinality(MCOptions)
    /\ \A c \in DOMAIN commands : OperandInfos \subseteq Associated(commands[c].lists)

PlainLines == {line \in MCLines : OptionsIn(line) < 2}
LinesWithoutCommand == {line \in MCLines : <<"c">> \notin Range(line)}
LinesWithOneCommand ==
    {line \in MCLines : Cardinality({i \in DOMAIN line : line[i] = <<"c">>}) < 2}

LinesToTry ==
    (IF commands = <<>> THEN LinesWithoutCommand ELSE LinesWithOneCommand)
        \cap (IF Cardinality(OperandInfos) < 2 THEN MCLines ELSE PlainLines)

MCNext ==
    \/ Register /\ InOrder
    \/ Complete /\ \E line \in LinesToTry :
          \/ Parse(line, TRUE)
          \/ <<"-", "-", "version">> \in Range(line) /\ Parse(line, FALSE)
    \/ ParseStep
    \/ NextArg

MCSpec == Init /\ [][MCNext]_vars /\ WF_vars(ParseStep)
=============================================================================
