--------------------------- MODULE PatternMatching ---------------------------
(***************************************************************************)
(* match_pattern_impl() of fn.cc, one iteration of a loop per step. The    *)
(* two streams, which end at a NUL or by their length, are positions in    *)
(* input and pattern. A segment is the part of the pattern between two     *)
(* asterisks; saved_input and saved_pattern are where its latest attempt   *)
(* began.                                                                  *)
(***************************************************************************)
EXTENDS Integers, Sequences, Functions

CONSTANTS
    Inputs, Patterns,
    Asterisk,            \* '*'
    QuestionMark         \* '?'

\* What the constants have to be; the module that gives them values assumes it.
PatternMatchingAssumption == \A s \in Inputs \cup Patterns : s \in Seq(Range(s))

VARIABLES
    input, pattern,
    at,                  \* "prefix", "asterisk", "segment", "done"
    i, p,                \* input.ptr and pattern.ptr
    saved_input, saved_pattern,
    result
vars == <<input, pattern, at, i, p, saved_input, saved_pattern, result>>

texts == <<input, pattern>>

Init ==
    /\ input \in Inputs /\ pattern \in Patterns
    /\ at = "prefix"
    /\ i = 1 /\ p = 1
    /\ saved_input = 0 /\ saved_pattern = 0
    /\ result = FALSE

InputEnds(n) == n > Len(input)
PatternEnds(n) == n > Len(pattern)

Agree(n, m) == input[n] = pattern[m] \/ pattern[m] = QuestionMark

Return(value) ==
    /\ at' = "done" /\ result' = value
    /\ UNCHANGED <<texts, i, p, saved_input, saved_pattern>>

Goto(label, n, m) ==
    /\ at' = label /\ i' = n /\ p' = m
    /\ UNCHANGED <<texts, saved_input, saved_pattern, result>>

\* The first loop: up to the first asterisk.
MatchPrefix ==
    /\ at = "prefix"
    /\ IF PatternEnds(p) THEN Return(InputEnds(i))
       ELSE IF pattern[p] = Asterisk THEN Goto("asterisk", i, p)
       ELSE IF InputEnds(i) \/ ~Agree(i, p) THEN Return(FALSE)
       ELSE Goto("prefix", i + 1, p + 1)

\* Past the asterisk, and those that follow it.
SkipAsterisks ==
    /\ at = "asterisk"
    /\ \E next \in (p + 1)..(Len(pattern) + 1) :
          /\ \A k \in p..(next - 1) : pattern[k] = Asterisk
          /\ \/ /\ PatternEnds(next)
                /\ Return(TRUE)
             \/ /\ ~PatternEnds(next) /\ pattern[next] # Asterisk
                /\ at' = "segment"
                /\ p' = next
                /\ saved_input' = i /\ saved_pattern' = next
                /\ UNCHANGED <<texts, i, result>>

\* Mutant of Retry: the segment is tried again from where it failed.
RetryFromHere ==
    /\ saved_input' = i
    /\ i' = i
    /\ p' = saved_pattern
    /\ UNCHANGED <<texts, at, saved_pattern, result>>

\* The segment is tried again, one character further.
Retry ==
    /\ saved_input' = saved_input + 1
    /\ i' = saved_input + 1
    /\ p' = saved_pattern
    /\ UNCHANGED <<texts, at, saved_pattern, result>>

MatchSegment ==
    /\ at = "segment"
    /\ IF InputEnds(i) THEN Return(FALSE)
       ELSE IF ~Agree(i, p) THEN Retry
       ELSE IF ~PatternEnds(p + 1)
            THEN Goto(IF pattern[p + 1] = Asterisk THEN "asterisk" ELSE "segment", i + 1, p + 1)
       ELSE IF InputEnds(i + 1) THEN Return(TRUE)
       ELSE Retry

Next == MatchPrefix \/ SkipAsterisks \/ MatchSegment

Spec == Init /\ [][Next]_vars /\ WF_vars(Next)

-----------------------------------------------------------------------------
(* Properties                                                              *)

\* Whether the input from n on is an instance of the pattern from m on, for each <<n, m>>
Instances ==
    LET instance[x \in (1..(Len(input) + 1)) \X (1..(Len(pattern) + 1))] ==
            LET n == x[1]
                m == x[2]
            IN  IF PatternEnds(m) THEN InputEnds(n)
                ELSE IF pattern[m] = Asterisk
                     THEN instance[<<n, m + 1>>] \/ (~InputEnds(n) /\ instance[<<n + 1, m>>])
                ELSE ~InputEnds(n) /\ Agree(n, m) /\ instance[<<n + 1, m + 1>>]
    IN  instance

Instance == Instances[<<1, 1>>]

(* Although the code gives up an asterisk as soon as the next one is        *)
(* reached, and never tries an earlier one with more characters, its answer *)
(* is the one of trying all ways to divide the input.                       *)
MatchesAsDefined == at = "done" => (result <=> Instance)

(* The retries come to an end, for every input and pattern.                 *)
EveryMatchEnds == <>(at = "done")
=============================================================================
