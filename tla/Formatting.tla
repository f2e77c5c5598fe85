----------------------------- MODULE Formatting -----------------------------
(***************************************************************************)
(* format_buffer() of string_formatting.h. recurse() and                   *)
(* process_conversion() call each other once per conversion: on the way    *)
(* down they add up acc_len, the deepest call allocates the buffer, and on *)
(* the way up each call writes its piece before the pieces of its callees. *)
(* The flags are members of one object, which the deeper calls overwrite.  *)
(*                                                                         *)
(* A format is a sequence of conversions, each with the literal text       *)
(* before it, and a tail. Widths and precisions given by "*" are numbers   *)
(* like the others. The integer type T is Bytes bytes wide.                *)
(***************************************************************************)
EXTENDS Integers, Sequences, SequencesExt

CONSTANTS
    Formats,       \* [convs, tail]
    Bytes,         \* sizeof(T)
    AllocateMay,   \* outcomes of allocator::allocate(): TRUE for a buffer
    None           \* no width, no precision

\* What the constants have to be; the module that gives them values assumes it.
FormattingAssumption == Bytes \in Nat \ {0} /\ AllocateMay \subseteq BOOLEAN

VARIABLES
    format,     \* the call's argument
    phase,      \* "down", "up", "done"
    fmt,        \* the conversion that is processed next
    acc_len,
    dest,       \* where the last character was written; NullDest before that
    written,    \* the buffer from dest on
    flags,      \* the member, with min_width_defined and precision_defined
    stack,      \* the calls under way
    stored,     \* what %n stores: conversion number -> length
    refused     \* history: the allocator was asked for a buffer and gave none
vars == <<format, phase, fmt, acc_len, dest, written, flags, stack, stored, refused>>

NullDest == -1

Init ==
    /\ format \in Formats
    /\ phase = "down"
    /\ fmt = 1 /\ acc_len = 0
    /\ dest = NullDest /\ written = <<>>
    /\ flags = {} /\ stack = <<>> /\ stored = << >>
    /\ refused = FALSE

-----------------------------------------------------------------------------
(* Conversions of numbers                                                  *)

Unsigned(arg) == arg % 2 ^ (8 * Bytes)
Signed(arg) ==
    IF Unsigned(arg) < 2 ^ (8 * Bytes - 1) THEN Unsigned(arg)
    ELSE Unsigned(arg) - 2 ^ (8 * Bytes)

Chars == <<"0", "1", "2", "3", "4", "5", "6", "7",
           "8", "9", "a", "b", "c", "d", "e", "f">>

Digits(n, base) ==
    LET digits[m \in Nat] ==
            IF m < base THEN <<Chars[m + 1]>>
            ELSE Append(digits[m \div base], Chars[(m % base) + 1])
    IN  digits[n]

\* A comma goes before each third digit from the right but the first digit.
CommaAt(i, n) == i > 1 /\ (n - i + 1) % 3 = 0

ConvertPositive(n, quote) ==
    LET ds == Digits(n, 10)
    IN  IF quote
        THEN FlattenSeq([i \in DOMAIN ds |->
                 IF CommaAt(i, Len(ds)) THEN <<",", ds[i]>> ELSE <<ds[i]>>])
        ELSE ds

Repeat(char, n) == [i \in 1..(IF n < 0 THEN 0 ELSE n) |-> char]

Base == [o |-> 8, x |-> 16, p |-> 16, b |-> 2]
Hash == [o |-> <<>>, x |-> <<"0", "x">>, p |-> <<"0", "x">>, b |-> <<"0", "b">>]

\* What recurse_then_output_int() is given: digits, digits_and_zeros, prefix.
IntArguments(c, set, precision) ==
    LET number == IF c.type = "d" THEN Signed(c.arg) ELSE Unsigned(c.arg)
        magnitude == IF number < 0 THEN -number ELSE number
        digits == IF number = 0 THEN <<>>
                  ELSE IF c.type \in {"d", "u"}
                       THEN ConvertPositive(magnitude, "quote" \in set)
                  ELSE Digits(magnitude, Base[c.type])
        defined == "precision" \in set
        prefix ==
            CASE c.type = "d" /\ number < 0 -> <<"-">>
              [] c.type = "d" /\ number > 0 /\ "plus" \in set -> <<"+">>
              [] c.type = "d" /\ number = 0 /\ "plus" \in set -> <<" ">>
              [] c.type = "d" /\ number >= 0 /\ set \cap {"plus", "space"} = {"space"} ->
                     <<" ">>
              [] c.type \in {"x", "p", "b"} /\ "hash" \in set -> Hash[c.type]
              [] OTHER -> <<>>
        total ==
            CASE number = 0 -> IF defined THEN precision ELSE 1
              [] number # 0 /\ defined /\ precision > Len(digits) -> precision
              [] OTHER -> IF c.type = "o" /\ "hash" \in set
                          THEN Len(digits) + 1 ELSE Len(digits)
    IN  [digits |-> digits, total |-> total,
         prefix |-> IF number = 0 /\ defined /\ precision = 0 THEN <<>> ELSE prefix]

\* process_s_conversion() and process_c_conversion().
TextArguments(c, set, precision) ==
    LET length == IF c.type = "s" /\ "precision" \in set /\ precision < Len(c.arg)
                  THEN precision ELSE Len(c.arg)
    IN  [digits |-> SubSeq(c.arg, 1, length), total |-> length, prefix |-> <<>>]

-----------------------------------------------------------------------------
(* The way down                                                            *)

\* The flags after the conversion specification has been parsed.
FlagsOf(c) ==
    c.flags
    \cup (IF c.width # None THEN {"min_width"} ELSE {})
    \cup (IF c.width # None /\ c.width < 0 THEN {"minus"} ELSE {})
    \cup (IF c.precision # None /\ c.precision >= 0 THEN {"precision"} ELSE {})
    \cup (IF c.type = "p" THEN {"hash", "precision"} ELSE {})

PrecisionOf(c) ==
    IF c.precision # None /\ c.precision >= 0 THEN c.precision
    ELSE IF c.type = "p" THEN 2 * Bytes ELSE 0

Width(set, c, length) ==
    LET min_width == IF c.width < 0 THEN -c.width ELSE c.width
    IN  IF "min_width" \in set /\ min_width > length THEN min_width ELSE length

Conv == format.convs[fmt]

\* Mutant of Call: the text before the conversion is not counted.
CallUncounted(frame, added, set) ==
    /\ phase = "down" /\ fmt <= Len(format.convs)
    /\ stack' = Append(stack, frame @@ [before |-> Conv.before, type |-> Conv.type, number |-> fmt])
    /\ acc_len' = acc_len + added
    /\ flags' = set
    /\ fmt' = fmt + 1
    /\ UNCHANGED <<format, phase, dest, written, stored, refused>>

\* recurse() reads the text up to a conversion, whose length is added, and
\* process_conversion() calls recurse() again.
Call(frame, added, set) ==
    /\ phase = "down" /\ fmt <= Len(format.convs)
    /\ stack' = Append(stack, frame @@ [before |-> Conv.before, type |-> Conv.type, number |-> fmt])
    /\ acc_len' = acc_len + Len(Conv.before) + added
    /\ flags' = set
    /\ fmt' = fmt + 1
    /\ UNCHANGED <<format, phase, dest, written, stored, refused>>

NoFrame == [saved_flags |-> {}, width |-> 0, digits |-> <<>>, total |-> 0, prefix |-> <<>>]

ProcessPercent == Conv.type = "%" /\ Call(NoFrame, 1, flags)

ProcessPosition == Conv.type = "n" /\ Call(NoFrame, 0, FlagsOf(Conv))

ProcessFormatted ==
    LET set == FlagsOf(Conv)
        args == IF Conv.type \in {"s", "c"}
                THEN TextArguments(Conv, set, PrecisionOf(Conv))
                ELSE IntArguments(Conv, set, PrecisionOf(Conv))
        width == Width(set, Conv, args.total + Len(args.prefix))
    IN  /\ Conv.type \in {"d", "u", "o", "x", "p", "b", "s", "c"}
        /\ Call([saved_flags |-> set, width |-> width] @@ args, width, set)

\* An unknown conversion ends the way down (where assertions are disabled).
ProcessUnknown ==
    /\ phase = "down" /\ fmt <= Len(format.convs)
    /\ Conv.type = "?"
    /\ flags' = FlagsOf(Conv)
    /\ acc_len' = 0 /\ dest' = NullDest
    /\ phase' = "up"
    /\ UNCHANGED <<format, fmt, written, stack, stored, refused>>

\* The end of the format: alloc_buffer(), and the last text is written.
AllocBuffer ==
    LET length == acc_len + Len(format.tail)
    IN  /\ phase = "down" /\ fmt > Len(format.convs)
        /\ phase' = "up"
        /\ \/ /\ length > 0 /\ TRUE \in AllocateMay
              /\ acc_len' = length
              /\ dest' = length - Len(format.tail) /\ written' = format.tail
              /\ UNCHANGED refused
           \/ /\ length > 0 /\ FALSE \in AllocateMay
              /\ acc_len' = 0 /\ dest' = NullDest /\ written' = <<>>
              /\ refused' = TRUE
           \/ /\ length = 0
              /\ UNCHANGED <<acc_len, dest, written, refused>>
        /\ UNCHANGED <<format, fmt, flags, stack, stored>>

-----------------------------------------------------------------------------
(* The way up                                                              *)

\* recurse_then_output_int() after the recursion, in the order of the text.
OutputInt(f, set) ==
    LET zeros == f.total - Len(f.digits)
        spaces == f.width - f.total - Len(f.prefix)
    IN  CASE "minus" \in set ->
                 f.prefix \o Repeat("0", zeros) \o f.digits \o Repeat(" ", spaces)
          [] "minus" \notin set /\ ("zero" \notin set \/ "precision" \in set) ->
                 Repeat(" ", spaces) \o f.prefix \o Repeat("0", zeros) \o f.digits
          [] OTHER -> f.prefix \o Repeat("0", zeros + spaces) \o f.digits

OutputText(f, set) ==
    LET spaces == Repeat(" ", f.width - f.total)
    IN  IF "minus" \in set THEN f.digits \o spaces ELSE spaces \o f.digits

\* Mutant of Output: the flags are read again after the recursion.
OutputByMember(f) ==
    CASE f.type = "%" -> <<"%">>
      [] f.type \in {"n", "?"} -> <<>>
      [] f.type \in {"s", "c"} -> OutputText(f, flags)
      [] OTHER -> OutputInt(f, flags)

Output(f) ==
    CASE f.type = "%" -> <<"%">>
      [] f.type \in {"n", "?"} -> <<>>
      [] f.type \in {"s", "c"} -> OutputText(f, f.saved_flags)
      [] OTHER -> OutputInt(f, f.saved_flags)

\* The innermost call writes its output, then the text before its conversion.
Return ==
    LET f == Last(stack)
        text == f.before \o Output(f)
    IN  /\ phase = "up" /\ stack # <<>>
        /\ stack' = Front(stack)
        /\ IF dest = NullDest THEN UNCHANGED <<dest, written, stored>>
           ELSE /\ dest' = dest - Len(text)
                /\ written' = text \o written
                /\ stored' = IF f.type = "n" THEN (f.number :> dest) @@ stored ELSE stored
        /\ UNCHANGED <<format, phase, fmt, acc_len, flags, refused>>

Done ==
    /\ phase = "up" /\ stack = <<>>
    /\ phase' = "done"
    /\ UNCHANGED <<format, fmt, acc_len, dest, written, flags, stack, stored, refused>>

Next ==
    \/ phase = "down" /\ fmt <= Len(format.convs)
          /\ (ProcessPercent \/ ProcessPosition \/ ProcessFormatted \/ ProcessUnknown)
    \/ AllocBuffer
    \/ Return
    \/ Done

Spec == Init /\ [][Next]_vars

-----------------------------------------------------------------------------
(* Properties                                                              *)

\* MAX_..._BUF_LEN of string.cc.
BufferLength(type) ==
    LET unsigned == (((Bytes * 5 + 1) \div 2) * 4) \div 3
    IN  CASE type = "d" -> unsigned + 1
          [] type = "u" -> unsigned
          [] type = "o" -> (Bytes * 8 + 2) \div 3
          [] type \in {"x", "p"} -> Bytes * 2
          [] type = "b" -> Bytes * 8

(* The digits of each number, with their commas, fit the local buffer that *)
(* the MAX_..._BUF_LEN macros size; no call writes before the start of the *)
(* allocated buffer, and the outermost one ends exactly there              *)
(* (B_ASSERT(formatting.dest == formatting.allocated)).                    *)
FillsTheBuffer ==
    /\ \A i \in DOMAIN stack :
          stack[i].type \in {"d", "u", "o", "x", "p", "b"} =>
              Len(stack[i].digits) <= BufferLength(stack[i].type)
    /\ dest # NullDest => dest >= 0 /\ dest + Len(written) = acc_len
    /\ phase = "done" => dest \in {0, NullDest}

Grouped(n) ==
    LET groups[m \in Nat] ==
            IF m < 1000 THEN Digits(m, 10)
            ELSE groups[m \div 1000] \o
                 <<",", Chars[((m \div 100) % 10) + 1], Chars[((m \div 10) % 10) + 1],
                   Chars[(m % 10) + 1]>>
    IN  groups[n]

Padded(text, char, length) == Repeat(char, length - Len(text)) \o text

\* The digits of a number, at least as many as the precision says.
Body(c, n) ==
    LET set == FlagsOf(c)
        digits == CASE n = 0 -> <<>>
                    [] n # 0 /\ c.type \in {"d", "u"} ->
                           IF "quote" \in set THEN Grouped(n) ELSE Digits(n, 10)
                    [] OTHER -> Digits(n, Base[c.type])
        body == Padded(digits, "0", IF "precision" \in set THEN PrecisionOf(c) ELSE 1)
    IN  IF c.type = "o" /\ "hash" \in set /\ n > 0 /\ body[1] # "0"
        THEN <<"0">> \o body ELSE body

Sign(c, n) ==
    CASE n < 0 -> <<"-">>
      [] n > 0 /\ "plus" \in FlagsOf(c) -> <<"+">>
      [] OTHER -> IF FlagsOf(c) \cap {"plus", "space"} # {} THEN <<" ">> ELSE <<>>

\* A conversion on its own, as the tests of the conversions show it.
Rendered(c) ==
    LET set == FlagsOf(c)
        n == IF c.type = "d" THEN Signed(c.arg) ELSE Unsigned(c.arg)
        body == IF c.type = "s" /\ "precision" \in set
                THEN SubSeq(c.arg, 1, IF PrecisionOf(c) < Len(c.arg)
                                      THEN PrecisionOf(c) ELSE Len(c.arg))
                ELSE IF c.type \in {"s", "c"} THEN c.arg
                ELSE Body(c, IF n < 0 THEN -n ELSE n)
        prefix == CASE c.type \in {"s", "c"} \/ body = <<>> -> <<>>
                    [] c.type = "d" /\ body # <<>> -> Sign(c, n)
                    [] c.type \in {"x", "p", "b"} /\ body # <<>> /\ "hash" \in set ->
                           Hash[c.type]
                    [] OTHER -> <<>>
        width == IF c.width = None THEN 0 ELSE IF c.width < 0 THEN -c.width ELSE c.width
    IN  CASE "minus" \in set ->
                 prefix \o body \o Repeat(" ", width - Len(prefix \o body))
          [] "minus" \notin set /\ "zero" \in set /\ "precision" \notin set
                /\ c.type \notin {"s", "c"} ->
                 prefix \o Padded(body, "0", width - Len(prefix))
          [] OTHER -> Padded(prefix \o body, " ", width)

Piece(c) ==
    c.before \o (CASE c.type = "%" -> <<"%">>
                   [] c.type = "n" -> <<>>
                   [] OTHER -> Rendered(c))

Text(convs) == FlattenSeq([i \in DOMAIN convs |-> Piece(convs[i])])

(* The result is the text of every conversion by itself, one after the      *)
(* other, whatever the flags, widths and precisions of the others are, and  *)
(* every %n stores the number of characters before it. There is no text     *)
(* only if the allocator gave no buffer or a conversion is unknown.         *)
PiecesAreIndependent ==
    phase = "done" =>
        \/ /\ acc_len = 0 /\ dest = NullDest /\ stored = << >>
           /\ \/ refused
              \/ \E i \in DOMAIN format.convs : format.convs[i].type = "?"
              \/ Text(format.convs) \o format.tail = <<>>
        \/ /\ written = Text(format.convs) \o format.tail
           /\ stored = [i \in {j \in DOMAIN format.convs : format.convs[j].type = "n"} |->
                           Len(Text(SubSeq(format.convs, 1, i - 1)) \o format.convs[i].before)]
=============================================================================
