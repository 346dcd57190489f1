------------------------------- MODULE LogRules -------------------------------
(***************************************************************************)
(* The matching rules of LogGroup in autoenv/logs.py, fed with one decoded  *)
(* file line by line: timestamps and their inheritance (_parsed_lines),     *)
(* match_line_block, match_block and its strict mode.  A line is what the   *)
(* regexes say of it, "hidden" when a block leaves it out; a valid timestamp *)
(* is the number of its line.                                              *)
(***************************************************************************)
EXTENDS Integers, LogQuery

CONSTANT MaxLines   \* lines of a file

ASSUME RulesAssumption == MaxLines \in Nat

Line == [mark : {"text", "hidden", "begin", "end"}, stamp : {"none", "valid", "invalid"}]

NoTime == 0
Invalid == -1

VARIABLES
    lines,     \* the lines read so far
    eof,       \* has the file ended?
    previous,  \* previous_timestamp: the last valid one
    stamps,    \* the timestamp each line has or inherits
    block,     \* match_line_block: active, anchor, and its records
    legacy,    \* match_block: explicit, anchor, segment, buffer, and its records
    strict     \* the strict mode: mode, head, and its records

matchVars == <<lines, eof, previous, stamps, block, legacy, strict>>

RulesInit ==
    /\ lines = <<>> /\ eof = FALSE /\ previous = NoTime /\ stamps = <<>>
    /\ block = [active |-> FALSE, anchor |-> NoTime, out |-> <<>>]
    /\ legacy = [explicit |-> FALSE, anchor |-> NoTime, segment |-> NoTime,
                 buffer |-> <<>>, out |-> <<>>]
    /\ strict = [mode |-> "head", head |-> <<>>, out |-> <<>>]

Rec(i, time, incomplete) == [line |-> i, time |-> time, incomplete |-> incomplete]

-----------------------------------------------------------------------------
(* One line *)

\* What the timestamp pattern says of a line, and what the line inherits.
ParsedStamp(line, i) ==
    CASE line.stamp = "valid" -> i
      [] line.stamp = "invalid" -> Invalid
      [] OTHER -> NoTime

LineStamp(line, i) == IF line.stamp = "none" THEN previous ELSE ParsedStamp(line, i)

\* An invalid date is not inherited.
NextPrevious(line, i) == IF line.stamp = "valid" THEN i ELSE previous

\* Mutant: every start marker starts a block anew.
LineBlockRestarts(line, i) ==
    LET open == block.active /\ line.stamp = "none"
    IN IF line.mark = "begin"
       THEN [active |-> TRUE, anchor |-> LineStamp(line, i),
             out |-> Append(block.out, Rec(i, LineStamp(line, i), FALSE))]
       ELSE IF open
       THEN [block EXCEPT !.out = Append(@, Rec(i, block.anchor, FALSE))]
       ELSE [block EXCEPT !.active = FALSE, !.anchor = NoTime]

\* A timestamp closes the block; a line without one continues it, even if it
\* repeats the start marker.
LineBlock(line, i) ==
    LET open == block.active /\ line.stamp = "none"
    IN IF open
       THEN [block EXCEPT !.out = Append(@, Rec(i, block.anchor, FALSE))]
       ELSE IF line.mark = "begin"
       THEN [active |-> TRUE, anchor |-> LineStamp(line, i),
             out |-> Append(block.out, Rec(i, LineStamp(line, i), FALSE))]
       ELSE [block EXCEPT !.active = FALSE, !.anchor = NoTime]

\* Lines of a block that exclude_regex and consume_regex leave.
Shows(numbers) ==
    LET shown == InSequence({k \in DOMAIN numbers : lines[numbers[k]].mark # "hidden"})
    IN [k \in DOMAIN shown |-> numbers[shown[k]]]

\* flush: one block has one time, that of its begin marker or of its first
\* line that has one, or what the segment before it has left.
BlockTime ==
    LET stamped == {k \in DOMAIN legacy.buffer : lines[legacy.buffer[k]].stamp # "none"}
    IN IF legacy.explicit THEN legacy.anchor
       ELSE IF stamped = {} THEN legacy.segment
       ELSE LET i == legacy.buffer[Min(stamped)] IN ParsedStamp(lines[i], i)

Flushed(incomplete) ==
    LET shown == Shows(legacy.buffer)
    IN legacy.out \o [k \in DOMAIN shown |-> Rec(shown[k], BlockTime, incomplete)]

\* Mutant: a repeated begin throws away what its block holds.
LegacyBlockResets(line, i) ==
    CASE line.mark = "begin" ->
            [legacy EXCEPT !.explicit = TRUE, !.buffer = <<>>,
                           !.anchor = IF line.stamp = "none" THEN previous ELSE ParsedStamp(line, i)]
      [] line.mark = "end" ->
            [explicit |-> FALSE, anchor |-> NoTime, segment |-> NextPrevious(line, i),
             buffer |-> <<>>, out |-> Flushed(FALSE)]
      [] OTHER -> [legacy EXCEPT !.buffer = Append(@, i)]

\* The first begin drops an implicit preamble; an end flushes what there is,
\* begun or not.
LegacyBlock(line, i) ==
    CASE line.mark = "begin" ->
            IF legacy.explicit THEN legacy
            ELSE [legacy EXCEPT !.explicit = TRUE, !.buffer = <<>>,
                                !.anchor = IF line.stamp = "none" THEN previous
                                           ELSE ParsedStamp(line, i)]
      [] line.mark = "end" ->
            [explicit |-> FALSE, anchor |-> NoTime, segment |-> NextPrevious(line, i),
             buffer |-> <<>>, out |-> Flushed(FALSE)]
      [] OTHER -> [legacy EXCEPT !.buffer = Append(@, i)]

Retained(numbers) ==
    LET shown == Shows(numbers)
    IN [k \in DOMAIN shown |-> Rec(shown[k], stamps[shown[k]], FALSE)]

\* Mutant: the preamble before a first begin is kept.
StrictBlockKeepsHead(line, i) ==
    CASE line.mark = "begin" ->
            [strict EXCEPT !.mode = "active", !.head = <<>>, !.out = @ \o Retained(strict.head)]
      [] line.mark = "end" ->
            [mode |-> "outside", head |-> <<>>, out |-> strict.out \o Retained(strict.head)]
      [] line.mark \in {"text", "hidden"} /\ strict.mode = "head" ->
            [strict EXCEPT !.head = Append(@, i)]
      [] line.mark = "text" /\ strict.mode = "active" ->
            [strict EXCEPT !.out = Append(@, Rec(i, LineStamp(line, i), FALSE))]
      [] OTHER -> strict

\* The head of the file is kept back until its first boundary says whether it
\* is the rest of a block; later only what is between begin and end counts.
StrictBlock(line, i) ==
    CASE line.mark = "begin" -> [strict EXCEPT !.mode = "active", !.head = <<>>]
      [] line.mark = "end" ->
            [mode |-> "outside", head |-> <<>>, out |-> strict.out \o Retained(strict.head)]
      [] line.mark \in {"text", "hidden"} /\ strict.mode = "head" ->
            [strict EXCEPT !.head = Append(@, i)]
      [] line.mark = "text" /\ strict.mode = "active" ->
            [strict EXCEPT !.out = Append(@, Rec(i, LineStamp(line, i), FALSE))]
      [] OTHER -> strict

ReadLine(line) ==
    LET i == Len(lines) + 1
    IN /\ ~eof /\ i <= MaxLines
       /\ lines' = Append(lines, line)
       /\ stamps' = Append(stamps, LineStamp(line, i))
       /\ previous' = NextPrevious(line, i)
       /\ block' = LineBlock(line, i)
       /\ legacy' = LegacyBlock(line, i)
       /\ strict' = StrictBlock(line, i)
       /\ UNCHANGED eof

\* An explicit block is flushed as incomplete; a head without any boundary
\* is kept.
EndOfFile ==
    /\ ~eof
    /\ eof' = TRUE
    /\ legacy' = IF legacy.explicit THEN [legacy EXCEPT !.out = Flushed(TRUE)] ELSE legacy
    /\ strict' = [strict EXCEPT !.out = @ \o Retained(strict.head)]
    /\ UNCHANGED <<lines, previous, stamps, block>>

RulesNext == (\E line \in Line : ReadLine(line)) \/ EndOfFile

-----------------------------------------------------------------------------
(* What the rules promise, said of the whole file *)

All == 1..Len(lines)
Marked(mark) == {i \in All : lines[i].mark = mark}
Stamped == {i \in All : lines[i].stamp # "none"}

LastOf(S) == IF S = {} THEN 0 ELSE Max(S)

\* The last valid timestamp up to line i, and the time of line i.
ValidUpTo(i) == LastOf({j \in 1..i : lines[j].stamp = "valid"})
TimeOf(i) == IF i \in Stamped THEN ParsedStamp(lines[i], i) ELSE ValidUpTo(i)

Ascending(out) == \A k \in 1..(Len(out) - 1) : out[k].line < out[k + 1].line

Gives(out, expected) == ToSet(out) = expected /\ Ascending(out)

\* A line block is a start marker with every line after it up to the next
\* timestamp; its time is that of the first marker since the timestamp before
\* it, and no line that repeats the marker changes it.
LineBlocksFromStart ==
    LET Since(i) == LastOf(Stamped \cap (1..i))
        Starts(i) == {s \in Marked("begin") : Since(i) <= s /\ s <= i}
    IN Gives(block.out,
             {Rec(i, TimeOf(Min(Starts(i))), FALSE) : i \in {j \in All : Starts(j) # {}}})

\* Between two ends, the lines after the first begin are a block, or all of
\* them without one; each that is not hidden once, in order, with one time for
\* the block, for which the hidden ones count too, and flagged incomplete
\* exactly when the file ends in it.  A date that is no
\* date never reaches the segments after it.
LegacyBlocksAreSegments ==
    eof =>
        LET Before(i) == LastOf({e \in Marked("end") : e < i})
            After(i) == {e \in Marked("end") : e > i}
            Begins(i) == {b \in Marked("begin") : Before(i) < b /\ \A e \in After(i) : b < e}
            InBlock(i) == IF Begins(i) = {} THEN After(i) # {} ELSE i > Min(Begins(i))
            Body(i) == {j \in Marked("text") \cup Marked("hidden") : Before(j) = Before(i) /\ InBlock(j)}
            BeginTime(b) == IF b \in Stamped THEN TimeOf(b) ELSE ValidUpTo(b)
            Time(i) == IF Begins(i) # {} THEN BeginTime(Min(Begins(i)))
                       ELSE IF Body(i) \cap Stamped # {} THEN TimeOf(Min(Body(i) \cap Stamped))
                       ELSE ValidUpTo(Before(i))
        IN Gives(legacy.out,
                 {Rec(i, Time(i), After(i) = {}) : i \in {j \in Marked("text") : InBlock(j)}})

\* In strict mode a line that is not hidden counts when the last boundary before it is a begin,
\* or when there is none and the first after it is not a begin.
StrictBlocksAreConfirmed ==
    eof =>
        LET Bounds == Marked("begin") \cup Marked("end")
            Earlier(i) == {b \in Bounds : b < i}
            InBlock(i) == IF Earlier(i) # {} THEN Max(Earlier(i)) \in Marked("begin")
                          ELSE Bounds = {} \/ Min(Bounds) \in Marked("end")
        IN Gives(strict.out,
                 {Rec(i, TimeOf(i), FALSE) : i \in {j \in Marked("text") : InBlock(j)}})

\* Each of the three ways to cut a file into blocks keeps the lines its rule
\* promises, each once and in order, with the time its rule gives them.
BlocksFollowRules == LineBlocksFromStart /\ LegacyBlocksAreSegments /\ StrictBlocksAreConfirmed
=============================================================================
