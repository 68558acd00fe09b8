------------------------------- MODULE SourceText -------------------------------
(***************************************************************************)
(* source_text.c: the lines of a text, and the binary search that finds    *)
(* the line of a position.                                                 *)
(*                                                                         *)
(* A text is a sequence of characters.  Positions and indices are the      *)
(* size_t of the source and count from 0; a TextLine with index i is       *)
(* lines[i + 1].                                                           *)
(***************************************************************************)
EXTENDS Naturals, Sequences

CONSTANTS Character,       \* what a text is made of
          Texts,           \* the texts that may be given to source_text_from
          SizeMax          \* the largest size_t

CR == "\r"
LF == "\n"

ASSUME TextsAssumption == Texts \subseteq Seq(Character)
ASSUME SizeMaxAssumption == SizeMax \in Nat

VARIABLES text,            \* source->text
          lines,           \* source->lines
          scan,            \* position, in parse_lines
          line_start,      \* in parse_lines
          lookup,          \* where the caller and source_text_get_line_index are
          query,           \* the position that is looked up
          lower, upper,    \* of the search
          answer           \* what it returned

source_vars == << text, lines, scan, line_start, lookup, query, lower, upper, answer >>

CharAt(p) == text[p + 1]

TextLine == [ start : Nat, length : Nat, length_including_line_break : Nat ]
LineEnd(line) == line.start + line.length

--------------------------------------------------------------------------------

SourceInit ==
    /\ text \in Texts
    /\ lines = <<>> /\ scan = 0 /\ line_start = 0
    /\ lookup = "parse_lines"
    /\ query = 0 /\ lower = 0 /\ upper = 0 /\ answer = 0

\* Mutant: the carriage return of a "\r\n" ends a line of its own.
LineBreakWidthOne(p) == IF CharAt(p) \in { CR, LF } THEN 1 ELSE 0

LineBreakWidth(p) ==
    IF CharAt(p) = CR /\ p + 1 < Len(text) /\ CharAt(p + 1) = LF THEN 2
    ELSE IF CharAt(p) \in { CR, LF } THEN 1 ELSE 0

\* Mutant: the line break is part of the line.
WithLineBreak(width) ==
    Append(lines, [ start |-> line_start, length |-> scan - line_start + width,
                    length_including_line_break |-> scan - line_start + width ])

\* add_line.
WithLine(width) ==
    Append(lines, [ start |-> line_start, length |-> scan - line_start,
                    length_including_line_break |-> scan - line_start + width ])

ParsingLines == lookup = "parse_lines"
SearchUnchanged == UNCHANGED << text, query, lower, upper, answer >>

\* The loop of parse_lines.
SkipCharacter ==
    /\ ParsingLines /\ scan < Len(text)
    /\ LineBreakWidth(scan) = 0
    /\ scan' = scan + 1
    /\ UNCHANGED << lines, line_start, lookup >>
    /\ SearchUnchanged

BreakLine ==
    /\ ParsingLines /\ scan < Len(text)
    /\ LineBreakWidth(scan) # 0
    /\ lines' = WithLine(LineBreakWidth(scan))
    /\ scan' = scan + LineBreakWidth(scan)
    /\ line_start' = scan'
    /\ UNCHANGED lookup
    /\ SearchUnchanged

\* Mutant: > for >=, and no line for an empty rest of the text.
LastLineUnlessEmpty ==
    /\ ParsingLines /\ scan >= Len(text)
    /\ lines' = IF scan > line_start THEN WithLine(0) ELSE lines
    /\ lookup' = "ready"
    /\ UNCHANGED << scan, line_start >>
    /\ SearchUnchanged

\* The text after the last line break is a line, an empty one too: position is never
\* less than line_start.
LastLine ==
    /\ ParsingLines /\ scan >= Len(text)
    /\ lines' = IF scan >= line_start THEN WithLine(0) ELSE lines
    /\ lookup' = "ready"
    /\ UNCHANGED << scan, line_start >>
    /\ SearchUnchanged

ParseLines == SkipCharacter \/ BreakLine \/ LastLine

\* Subtraction of size_t: it wraps around.
Decremented(n) == IF n = 0 THEN SizeMax ELSE n - 1

\* source_text_get_line_index(source, position).
GetLineIndex(position) ==
    /\ lookup = "ready"
    /\ query' = position
    /\ lower' = 0
    /\ upper' = Decremented(Len(lines))
    /\ lookup' = "search"
    /\ UNCHANGED << text, lines, scan, line_start, answer >>

\* Mutant: the half that is searched next is not made smaller by the line in its middle.
ProbeKeepingIndex ==
    /\ lookup = "search" /\ lower <= upper
    /\ LET index == (lower + upper) \div 2
           start == lines[index + 1].start
       IN IF query = start
          THEN answer' = index /\ lookup' = "found" /\ UNCHANGED << lower, upper >>
          ELSE /\ IF query < start
                  THEN upper' = Decremented(index) /\ UNCHANGED lower
                  ELSE lower' = index /\ UNCHANGED upper
               /\ UNCHANGED << lookup, answer >>
    /\ UNCHANGED << text, lines, scan, line_start, query >>

\* One turn of its loop.
Probe ==
    /\ lookup = "search" /\ lower <= upper
    /\ LET index == (lower + upper) \div 2
           start == lines[index + 1].start
       IN IF query = start
          THEN answer' = index /\ lookup' = "found" /\ UNCHANGED << lower, upper >>
          ELSE /\ IF query < start
                  THEN upper' = Decremented(index) /\ UNCHANGED lower
                  ELSE lower' = index + 1 /\ UNCHANGED upper
               /\ UNCHANGED << lookup, answer >>
    /\ UNCHANGED << text, lines, scan, line_start, query >>

\* Mutant: the line the search stopped at instead of the one before it.
SettleAfter ==
    /\ lookup = "search" /\ lower > upper
    /\ answer' = lower
    /\ lookup' = "found"
    /\ UNCHANGED << text, lines, scan, line_start, query, lower, upper >>

\* No line starts at the position: the one before it holds it.
Settle ==
    /\ lookup = "search" /\ lower > upper
    /\ answer' = Decremented(lower)
    /\ lookup' = "found"
    /\ UNCHANGED << text, lines, scan, line_start, query, lower, upper >>

Search == Probe \/ Settle

\* The caller has used the answer.
Answered ==
    /\ lookup = "found"
    /\ lookup' = "ready"
    /\ UNCHANGED << text, lines, scan, line_start, query, lower, upper, answer >>

SourceNext ==
    \/ ParseLines
    \/ \E position \in 0..Len(text) : GetLineIndex(position)
    \/ Search
    \/ Answered

SourceFairness == WF_source_vars(ParseLines \/ Search)
SourceSpec == SourceInit /\ [][SourceNext]_source_vars /\ SourceFairness

--------------------------------------------------------------------------------

SourceTypeOK ==
    /\ text \in Seq(Character)
    /\ lines \in Seq(TextLine)
    /\ scan \in Nat /\ line_start \in Nat
    /\ lookup \in { "parse_lines", "ready", "search", "found" }
    /\ query \in Nat /\ lower \in Nat /\ upper \in Nat /\ answer \in Nat

Parsed == lookup # "parse_lines"

\* Where a line, or the rest of the text that has no line yet, begins.
NextStart(i) == lines[i].start + lines[i].length_including_line_break

\* The lines lie end to end from the first character to the last, and only the last
\* one can be without a line break.
LinesTile ==
    /\ lines # <<>> => lines[1].start = 0
    /\ \A i \in 1..Len(lines) - 1 : lines[i + 1].start = NextStart(i)
    /\ \A i \in 1..Len(lines) :
          (Parsed => i < Len(lines)) => lines[i].length < lines[i].length_including_line_break
    /\ Parsed => NextStart(Len(lines)) = Len(text)

\* A line break is outside of its line and every other character is in one: no line
\* is cut in two and none runs on, whatever the order of "\r" and "\n".
LinesHoldNoBreak ==
    Parsed =>
        /\ \A i \in 1..Len(lines) : \A p \in lines[i].start .. NextStart(i) - 1 :
              (p < LineEnd(lines[i])) <=> CharAt(p) \notin { CR, LF }
        /\ \A i \in 1..Len(lines) - 1 :
              ~(CharAt(NextStart(i) - 1) = CR /\ NextStart(i) < Len(text) /\ CharAt(NextStart(i)) = LF)

\* The unsigned arithmetic of the search never wraps around and it never reads past
\* the lines: index - 1 of the first line is never asked for, as no position is
\* before the first line, and lower - 1 is never asked of 0.
SearchInBounds ==
    lookup = "search" => lower <= Len(lines) /\ upper < Len(lines) /\ lower <= upper + 1

\* The answer is the line the position is in; the last one holds the end of the text.
AnswerIsTheLine ==
    lookup = "found" =>
        /\ answer < Len(lines)
        /\ lines[answer + 1].start <= query
        /\ answer + 1 < Len(lines) => query < lines[answer + 2].start

\* The search comes to an end.
SearchEnds == lookup = "search" ~> lookup = "found"

--------------------------------------------------------------------------------
(* What makes them inductive.                                                   *)

\* Every line is one the loop made: the rest of the text starts after the last one.
ScanShape ==
    /\ line_start <= scan /\ scan <= Len(text)
    /\ ParsingLines =>
          /\ lines = <<>> => line_start = 0
          /\ lines # <<>> => NextStart(Len(lines)) = line_start

\* Later lines start later.
StartsIncrease ==
    \A i, j \in 1..Len(lines) : i < j => lines[i].start < lines[j].start

\* The line of the position is between lower and upper.
SearchBrackets ==
    /\ lookup # "parse_lines" => lines # <<>>
    /\ lookup = "search" =>
          /\ \A i \in 1..lower : lines[i].start < query
          /\ \A i \in upper + 2 .. Len(lines) : query < lines[i].start

\* A line that is made holds no line break and does not end within one, the rest of the
\* text has none up to scan, and the last line ends with the text.
EndsAtBreak(line) ==
    LET next == line.start + line.length_including_line_break IN
    /\ \A p \in line.start .. next - 1 : (p < LineEnd(line)) <=> CharAt(p) \notin { CR, LF }
    /\ ~(next < Len(text) /\ CharAt(next - 1) = CR /\ CharAt(next) = LF)

BreaksEndLines ==
    /\ \A i \in 1..Len(lines) : EndsAtBreak(lines[i])
    /\ ParsingLines => \A p \in line_start .. scan - 1 : CharAt(p) \notin { CR, LF }
    /\ Parsed => LineEnd(lines[Len(lines)]) = Len(text)

SourceInv ==
    /\ SourceTypeOK /\ ScanShape /\ LinesTile /\ StartsIncrease
    /\ SearchInBounds /\ SearchBrackets /\ AnswerIsTheLine
================================================================================
