------------------------------ MODULE WordWrap ------------------------------
(***************************************************************************)
(* cli::impl::print_word_wrapped() of cli.cc, one line of the output per   *)
(* step. The text consists of spaces, newlines and other characters;       *)
(* pointers into it are positions, counted from 1.                         *)
(***************************************************************************)
EXTENDS Integers, Sequences, Functions

CONSTANTS
    Texts,
    Space, Newline,
    Widths,      \* values of max_help_text_width
    Calls        \* arguments: [topic_len, indent, cont_indent]

\* What the constants have to be; the module that gives them values assumes it.
WordWrapAssumption ==
    /\ Space # Newline
    /\ \A t \in Texts : t \in Seq(Range(t))
    /\ Widths \subseteq Nat
    /\ Calls \subseteq [topic_len : Nat, indent : Nat, cont_indent : Int]

VARIABLES
    text, width, call,
    line,        \* where the next line of output starts in the text
    offset, indent,
    printed      \* the lines of output: the column and the part of the text
vars == <<text, width, call, line, offset, indent, printed>>

TextEnd == Len(text) + 1

Init ==
    /\ text \in Texts /\ width \in Widths /\ call \in Calls
    /\ line = 0
    /\ offset = 0 /\ indent = 0 /\ printed = <<>>

Blank == [column |-> 0, from |-> 0, end |-> 0, next |-> 1]

\* A topic that reaches the indentation gets a line of its own.
Start ==
    LET room == call.indent - call.topic_len
    IN  /\ line = 0
        /\ line' = 1
        /\ indent' = call.indent
        /\ offset' = IF call.topic_len > 0 /\ room > 0 THEN room ELSE call.indent
        /\ printed' = IF text = <<>> \/ (call.topic_len > 0 /\ room < 1)
                      THEN <<Blank>> ELSE <<>>
        /\ UNCHANGED <<text, width, call>>

\* The last of the spaces that start at pos.
EndOfRun(pos) ==
    CHOOSE last \in pos..Len(text) :
        /\ \A i \in pos..last : text[i] = Space
        /\ last = Len(text) \/ text[last + 1] # Space

\* Where the line ends and where the next one starts, from the characters at pos
\* and after it; end and next are those of the last space before.
Wrap ==
    LET max_pos == line + width - indent
        scan[s \in (1..Len(text)) \X (0..Len(text)) \X (0..TextEnd)] ==
            LET pos == s[1]
                last == IF text[pos] = Space THEN EndOfRun(pos) ELSE pos
                end == IF text[pos] = Space THEN pos ELSE s[2]
                next == IF text[pos] = Space THEN last + 1 ELSE s[3]
            IN  IF text[pos] = Newline THEN <<pos, pos + 1>>
                ELSE IF last + 1 > max_pos /\ end # 0 THEN <<end, next>>
                ELSE IF last + 1 = TextEnd THEN <<TextEnd, TextEnd>>
                ELSE scan[<<last + 1, end, next>>]
    IN  scan[<<line, 0, 0>>]

Verbatim ==
    LET newlines == {i \in line..Len(text) : text[i] = Newline}
    IN  IF newlines = {} THEN <<TextEnd, TextEnd>>
        ELSE LET first == CHOOSE i \in newlines : \A j \in newlines : i <= j
             IN  <<first, first + 1>>

\* Mutant of LineAndNext: an indented line is wrapped like the others.
WrapAlways == Wrap

LineAndNext == IF text[line] # Space THEN Wrap ELSE Verbatim

PrintLine ==
    LET end == LineAndNext[1]
        next == LineAndNext[2]
        topic == IF line = 1 /\ printed = <<>> /\ offset # indent
                 THEN call.topic_len ELSE 0
        cont == IF call.cont_indent < 0 THEN call.indent ELSE call.cont_indent
    IN  /\ line > 0 /\ line < TextEnd
        /\ printed' = Append(printed, [column |-> topic + offset, from |-> line,
                                       end |-> end, next |-> next])
        /\ line' = next
        /\ offset' = cont /\ indent' = cont
        /\ UNCHANGED <<text, width, call>>

Next == Start \/ PrintLine

Spec == Init /\ [][Next]_vars

-----------------------------------------------------------------------------
(* Properties                                                              *)

Column(i) ==
    IF printed[i].from = 1 \/ call.cont_indent < 0 THEN call.indent ELSE call.cont_indent

Chars(i) == printed[i].from..(printed[i].end - 1)

WordEnd(pos) ==
    CHOOSE e \in pos..TextEnd :
        /\ \A i \in pos..(e - 1) : text[i] \notin {Space, Newline}
        /\ e = TextEnd \/ text[e] \in {Space, Newline}

(* Every printed line starts in its column, and the lines take over the     *)
(* text from one end to the other but for spaces at the breaks. A line that *)
(* starts with a space is printed as it is; another one fits the width, or  *)
(* is a single word, and the word after it would not have fitted.           *)
LinesAreWrapped ==
    \A i \in {j \in DOMAIN printed : printed[j] # Blank} :
        LET p == printed[i]
            margin == p.from + width - Column(i)
        IN  /\ p.column = Column(i)
            /\ p.from = (IF i = 1 THEN 1 ELSE printed[i - 1].next)
            /\ p.from < p.next
            /\ \A c \in Chars(i) : text[c] # Newline
            /\ \/ p.end = p.next /\ p.next = TextEnd
               \/ p.next = p.end + 1 /\ text[p.end] = Newline
               \/ /\ text[p.from] # Space
                  /\ \A c \in p.end..(p.next - 1) : text[c] = Space
                  /\ WordEnd(p.next) > margin
            /\ text[p.from] # Space =>
                  p.end <= margin \/ \A c \in Chars(i) : text[c] # Space
=============================================================================
