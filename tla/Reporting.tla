-------------------------------- MODULE Reporting --------------------------------
(***************************************************************************)
(* How main.c shows where a report is: the text is split into lines, read  *)
(* into tokens, and for each report the line is looked up and printed in   *)
(* three pieces, the middle one in red.                                    *)
(***************************************************************************)
EXTENDS Lexer, FiniteSets

VARIABLES span,            \* diagnostic.span
          printed          \* what was printed of the last one

vars == << source_vars, lexer_vars, span, printed >>

NoSpan    == [ start |-> 0, length |-> 0 ]
NoneSoFar == <<>>

Init ==
    /\ SourceInit /\ LexerInit
    /\ span = NoSpan /\ printed = NoneSoFar

SplitLines == ParseLines /\ UNCHANGED << lexer_vars, span, printed >>
LexToken   == LexerNext /\ UNCHANGED << span, printed >>

Lexed == lookup = "ready" /\ tokens # <<>> /\ tokens[Len(tokens)].kind = "END_OF_FILE_TOKEN"

\* A report is the lexer's, or the parser's or the binder's: theirs are about a token
\* parser_new kept, or about one match_token made up, empty, where such a token starts.
KeptTokenSpans ==
    LET kept == { token \in Seqs!ToSet(tokens) : token.kind \notin TriviaKinds } IN
    UNION { { [ start |-> token.start, length |-> length ] : length \in { 0, token.length } } :
            token \in kept }
Reportable == Seqs!ToSet(reports) \cup KeptTokenSpans

StartReport ==
    /\ Lexed
    /\ \E s \in Reportable : span' = s /\ GetLineIndex(s.start)
    /\ UNCHANGED << lexer_vars, printed >>

LookUpLine == Search /\ UNCHANGED << lexer_vars, span, printed >>

\* Subtraction of size_t: it wraps around.
Minus(a, b) == IF a >= b THEN a - b ELSE SizeMax + 1 - (b - a)

\* str_substr_bounds.
Bounds(from, to) == [ start |-> from, length |-> Minus(to, from) ]

\* The prefix, the error and the suffix.
PrintReport ==
    /\ lookup = "found"
    /\ LET line == lines[answer + 1]
           end  == span.start + span.length
       IN printed' = << [ line_number |-> answer + 1,
                          character   |-> Minus(span.start, line.start) + 1,
                          prefix      |-> Bounds(line.start, span.start),
                          error       |-> Bounds(span.start, end),
                          suffix      |-> Bounds(end, LineEnd(line)) ] >>
    /\ Answered
    /\ UNCHANGED << lexer_vars, span >>

Next == SplitLines \/ LexToken \/ StartReport \/ LookUpLine \/ PrintReport

Spec == Init /\ [][Next]_vars

--------------------------------------------------------------------------------

\* What is printed of a report is one whole line of the text, without its line break,
\* and the report is inside of it: no report crosses a line break, or the length of
\* the suffix would wrap around and main would print far past the text.
PrintsTheWholeLine ==
    printed # NoneSoFar =>
        LET p == printed[1] IN
        /\ p.prefix.start + p.prefix.length = p.error.start
        /\ p.error.start + p.error.length = p.suffix.start
        /\ p.suffix.start + p.suffix.length <= Len(text)
        /\ \A i \in p.prefix.start .. p.suffix.start + p.suffix.length - 1 : CharAt(i) \notin { CR, LF }
        /\ p.prefix.start = 0 \/ CharAt(p.prefix.start - 1) \in { CR, LF }
        /\ LET end == p.suffix.start + p.suffix.length IN
           end = Len(text) \/ CharAt(end) \in { CR, LF }

EndsLineBreak(i) == CharAt(i) = LF \/ (CharAt(i) = CR /\ (i + 1 = Len(text) \/ CharAt(i + 1) # LF))
LineBreaksBefore(p) == Cardinality({ i \in 0..p - 1 : EndsLineBreak(i) })

\* The line number is one more than the line breaks before the report, "\r\n" being
\* one of them, and the character counts from the last of them.
PrintsThePosition ==
    printed # NoneSoFar =>
        /\ printed[1].line_number = 1 + LineBreaksBefore(printed[1].error.start)
        /\ printed[1].character = printed[1].error.start - printed[1].prefix.start + 1

--------------------------------------------------------------------------------
(* What makes them inductive.                                                   *)

\* The span that is looked up fits on a line, and its start is the query.
SpanIsQueried ==
    lookup \in { "search", "found" } =>
        span.start = query /\ span.length \in Nat /\ WithinLine(span)

\* As many line breaks are before a line as there are lines before it.
LinesCountBreaks ==
    /\ \A i \in 1..Len(lines) : LineBreaksBefore(lines[i].start) = i - 1
    /\ ParsingLines => LineBreaksBefore(line_start) = Len(lines)

ReportingInv ==
    /\ SourceInv /\ BreaksEndLines /\ LexerInv /\ NumbersHaveTheirValue
    /\ SpanIsQueried /\ LinesCountBreaks
    /\ PrintsTheWholeLine /\ PrintsThePosition
================================================================================
