---------------------------------- MODULE Lexer ----------------------------------
(***************************************************************************)
(* lexer_next_token of lexer.c over a SourceText, and the conversion of    *)
(* digits by str2i64 of strtox.c: one action for each branch of the switch.*)
(***************************************************************************)
EXTENDS SourceText, SyntaxFacts, Objects, SequenceOperators

VARIABLES position,        \* lexer->position
          tokens,          \* the tokens it returned
          reports          \* the spans in lexer->diagnostics

lexer_vars == << position, tokens, reports >>

--------------------------------------------------------------------------------
(* Characters.  The text holds no NUL, which the lexer takes for its end: main  *)
(* gets every line from linenoise as a C string.                                *)

\* Letter stands for what isalpha accepts: the letters of the keywords and of the tests.
DigitSpellings == << "0", "1", "2", "3", "4", "5", "6", "7", "8", "9" >>
Digit   == Seqs!ToSet(DigitSpellings)
Space   == { " ", "\t", "\f", CR, LF }
Letter  == { "a", "b", "c", "e", "f", "l", "r", "s", "t", "u" }

DigitValue(c) == CHOOSE d \in 0..9 : DigitSpellings[d + 1] = c

\* The characters that are tokens of their own, and those that are one alone and
\* another one when followed by their second character.
Single == [ c \in { "+", "-", "*", "/", "(", ")" } |->
              CASE c = "+" -> "PLUS_TOKEN"  [] c = "-" -> "MINUS_TOKEN"
                [] c = "*" -> "STAR_TOKEN"  [] c = "/" -> "SLASH_TOKEN"
                [] c = "(" -> "OPEN_PARENTHESIS_TOKEN"
                [] c = ")" -> "CLOSE_PARENTHESIS_TOKEN" ]

Pair(second, both, alone) == [ second |-> second, both |-> both, alone |-> alone ]
Paired == [ c \in { "!", "=", "&", "|" } |->
              CASE c = "!" -> Pair("=", "BANG_EQUALS_TOKEN", "BANG_TOKEN")
                [] c = "=" -> Pair("=", "EQUALS_EQUALS_TOKEN", "EQUALS_TOKEN")
                [] c = "&" -> Pair("&", "AMPERSAND_AMPERSAND_TOKEN", "BAD_TOKEN")
                [] c = "|" -> Pair("|", "PIPE_PIPE_TOKEN", "BAD_TOKEN") ]

KeywordKind(word) ==
    CASE word = << "t", "r", "u", "e" >>       -> "TRUE_KEYWORD"
      [] word = << "f", "a", "l", "s", "e" >>  -> "FALSE_KEYWORD"
      [] OTHER                                 -> "IDENTIFIER_TOKEN"

--------------------------------------------------------------------------------
(* str2u64 in base 10, which str2i64 calls.  The digits end where the lexer's    *)
(* loop ends: at the first character that is not one.                           *)

Cutoff == MaxInt \div 10
Cutlim == MaxInt % 10

\* Mutant: a digit that fits again takes the overflow back.
AddDigitForgetting(sum, d) ==
    IF sum.i > Cutoff \/ (sum.i = Cutoff /\ d > Cutlim)
    THEN [ sum EXCEPT !.overflow = TRUE ]
    ELSE [ i |-> (sum.i * 10 + d) % (2 ^ IntWidth), overflow |-> FALSE ]

\* i is a uint64_t.  After a digit that did not fit later ones may fit again: the
\* number is out of range all the same.
AddDigit(sum, d) ==
    IF sum.i > Cutoff \/ (sum.i = Cutoff /\ d > Cutlim)
    THEN [ sum EXCEPT !.overflow = TRUE ]
    ELSE [ sum EXCEPT !.i = (@ * 10 + d) % (2 ^ IntWidth) ]

\* str2i64: an Object, or none for a number out of range.
Str2I64(digits) ==
    LET sum[k \in 0..Len(digits)] ==
            IF k = 0 THEN [ i |-> 0, overflow |-> FALSE ]
            ELSE AddDigit(sum[k - 1], DigitValue(digits[k]))
        all == sum[Len(digits)]
    IN IF all.overflow \/ all.i > MaxInt THEN NullObject ELSE Int64(all.i)

--------------------------------------------------------------------------------

LexerInit == position = 0 /\ tokens = <<>> /\ reports = <<>>

Slice(from, to) == SubSeq(text, from + 1, to)

\* The first position from p on whose character is not one of the class.
RunEnd(p, class) ==
    CHOOSE q \in p..Len(text) :
        /\ q < Len(text) => CharAt(q) \notin class
        /\ \A r \in p..q - 1 : CharAt(r) \in class

AtEnd == position >= Len(text)
LexingNow == lookup = "ready" /\ ~\E i \in 1..Len(tokens) : tokens[i].kind = "END_OF_FILE_TOKEN"
At(class) == LexingNow /\ ~AtEnd /\ CharAt(position) \in class

\* syntax_token_new for the characters from position to end.
Return(kind, end, value) ==
    /\ tokens' = Append(tokens, [ kind |-> kind, start |-> position,
                                  length |-> end - position, value |-> value ])
    /\ position' = end
    /\ UNCHANGED source_vars

Report(length) == reports' = Append(reports, [ start |-> position, length |-> length ])

LexSingle ==
    /\ At(DOMAIN Single)
    /\ Return(Single[CharAt(position)], position + 1, NullObject)
    /\ UNCHANGED reports

\* Mutant: the second character is not looked for.
LexPairedAlone ==
    /\ At(DOMAIN Paired)
    /\ LET kind == Paired[CharAt(position)].alone IN
       /\ Return(kind, position + 1, NullObject)
       /\ IF kind = "BAD_TOKEN" THEN Report(1) ELSE UNCHANGED reports

LexPaired ==
    /\ At(DOMAIN Paired)
    /\ LET pair  == Paired[CharAt(position)]
           taken == position + 1 < Len(text) /\ CharAt(position + 1) = pair.second
           kind  == IF taken THEN pair.both ELSE pair.alone
       IN /\ Return(kind, position + (IF taken THEN 2 ELSE 1), NullObject)
          /\ IF kind = "BAD_TOKEN" THEN Report(1) ELSE UNCHANGED reports

LexEndOfFile ==
    /\ LexingNow /\ AtEnd
    /\ Return("END_OF_FILE_TOKEN", position, NullObject)
    /\ UNCHANGED reports

LexNumber ==
    /\ At(Digit)
    /\ LET end   == RunEnd(position, Digit)
           value == Str2I64(Slice(position, end))
       IN /\ Return("NUMBER_TOKEN", end, value)
          /\ IF value = NullObject THEN Report(end - position) ELSE UNCHANGED reports

\* Mutant: the digits of an identifier belong to it, but are not skipped with it.
LexWordWithDigits ==
    /\ At(Letter)
    /\ LET end == RunEnd(position, Letter) IN
       /\ tokens' = Append(tokens, [ kind |-> KeywordKind(Slice(position, end)), start |-> position,
                                     length |-> RunEnd(end, Digit) - position, value |-> NullObject ])
       /\ position' = end
    /\ UNCHANGED << source_vars, reports >>

\* Mutant: one space at a time.
LexWhitespaceSingly ==
    /\ At(Space)
    /\ Return("WHITESPACE_TOKEN", position + 1, NullObject)
    /\ UNCHANGED reports

LexWhitespace ==
    /\ At(Space)
    /\ Return("WHITESPACE_TOKEN", RunEnd(position, Space), NullObject)
    /\ UNCHANGED reports

LexWord ==
    /\ At(Letter)
    /\ LET end == RunEnd(position, Letter)
       IN Return(KeywordKind(Slice(position, end)), end, NullObject)
    /\ UNCHANGED reports

\* Mutant: the position after the character is reported.
LexBadCharacterAfter ==
    /\ LexingNow /\ ~AtEnd
    /\ CharAt(position) \notin DOMAIN Single \cup DOMAIN Paired \cup Digit \cup Space \cup Letter
    /\ Return("BAD_TOKEN", position + 1, NullObject)
    /\ reports' = Append(reports, [ start |-> position + 1, length |-> 1 ])

\* The default of the switch: any other character is a token without a meaning.
LexBadCharacter ==
    /\ LexingNow /\ ~AtEnd
    /\ CharAt(position) \notin DOMAIN Single \cup DOMAIN Paired \cup Digit \cup Space \cup Letter
    /\ Return("BAD_TOKEN", position + 1, NullObject)
    /\ Report(1)

LexerNext ==
    \/ LexSingle \/ LexPaired \/ LexEndOfFile \/ LexNumber
    \/ LexWhitespace \/ LexWord \/ LexBadCharacter

--------------------------------------------------------------------------------
TokenEnd(token) == token.start + token.length

\* The tokens, trivia and nonsense included, lie end to end over the text read so far:
\* no character is dropped or read twice, and each call but the last one reads some.
TokensTileText ==
    /\ position = IF tokens = <<>> THEN 0 ELSE TokenEnd(tokens[Len(tokens)])
    /\ \A i \in 1..Len(tokens) :
          /\ tokens[i].start = IF i = 1 THEN 0 ELSE TokenEnd(tokens[i - 1])
          /\ (tokens[i].length = 0) <=> (tokens[i].kind = "END_OF_FILE_TOKEN")
          /\ tokens[i].kind = "END_OF_FILE_TOKEN" => i = Len(tokens) /\ position = Len(text)

\* What a token can be spelled as, as a language and not as a way to read it.
Spells(characters, kind) ==
    \/ kind = "NUMBER_TOKEN" /\ Seqs!ToSet(characters) \subseteq Digit
    \/ kind = "WHITESPACE_TOKEN" /\ Seqs!ToSet(characters) \subseteq Space
    \/ /\ kind \in KeywordKinds \cup { "IDENTIFIER_TOKEN" }
       /\ Seqs!ToSet(characters) \subseteq Letter /\ KeywordKind(characters) = kind
    \/ /\ kind \in OperatorKinds \cup ParenthesisKinds
       /\ \/ Len(characters) = 1 /\ characters[1] \in DOMAIN Single /\ Single[characters[1]] = kind
          \/ Len(characters) = 1 /\ characters[1] \in DOMAIN Paired /\ Paired[characters[1]].alone = kind
          \/ /\ Len(characters) = 2 /\ characters[1] \in DOMAIN Paired
             /\ characters[2] = Paired[characters[1]].second /\ kind = Paired[characters[1]].both

IsSpelling(characters) == \E kind \in TokenKinds \cup TriviaKinds : Spells(characters, kind)

IsLongest(token) ==
    LET own  == Slice(token.start, TokenEnd(token))
        more == Slice(token.start, TokenEnd(token) + 1)
    IN token.kind # "END_OF_FILE_TOKEN" =>
          /\ IF token.kind = "BAD_TOKEN" THEN ~IsSpelling(own) ELSE Spells(own, token.kind)
          /\ TokenEnd(token) < Len(text) => ~IsSpelling(more)

\* Each token is spelled as its kind is, and is the longest that starts there: one
\* more character spells nothing.  A bad character starts no token at all.
TokensAreLongest == \A i \in 1..Len(tokens) : IsLongest(tokens[i])

\* The number that digits spell.
Decimal(digits) ==
    LET value[k \in 0..Len(digits)] ==
            IF k = 0 THEN 0 ELSE 10 * value[k - 1] + DigitValue(digits[k])
    IN value[Len(digits)]

\* A number token has the value its digits spell, and none exactly when that is no
\* int64_t: the test against the cutoff is neither early nor late, and no number
\* that wrapped around comes out as a small one.
NumbersHaveTheirValue ==
    \A i \in 1..Len(tokens) : tokens[i].kind = "NUMBER_TOKEN" =>
        LET value == Decimal(Slice(tokens[i].start, TokenEnd(tokens[i]))) IN
        tokens[i].value = IF value <= MaxInt THEN Int64(value) ELSE NullObject

--------------------------------------------------------------------------------
(* What makes them inductive.                                                   *)

LexerTypeOK ==
    /\ position \in 0..Len(text)
    /\ tokens \in Seq({ tokens[i] : i \in 1..Len(tokens) })
    /\ \A i \in 1..Len(tokens) :
          /\ tokens[i].kind \in TokenKinds \cup TriviaKinds
          /\ tokens[i].start \in Nat /\ tokens[i].length \in Nat
          /\ TokenEnd(tokens[i]) <= position
    /\ reports \in Seq([ start : Nat, length : Nat ])

\* A span of the text that has no line break inside of it and does not begin at one:
\* what a line can hold.
WithinLine(s) ==
    /\ s.start + s.length <= Len(text)
    /\ \A p \in s.start .. s.start + s.length - 1 : CharAt(p) \notin { CR, LF }
    /\ s.start < Len(text) => CharAt(s.start) \notin { CR, LF }

\* What can be reported is: a report of the lexer, and a token the parser will keep.
SpansHoldNoBreak ==
    /\ \A i \in 1..Len(reports) : WithinLine(reports[i])
    /\ \A i \in 1..Len(tokens) : tokens[i].kind \notin TriviaKinds => WithinLine(tokens[i])

LexerInv == LexerTypeOK /\ TokensTileText /\ TokensAreLongest /\ SpansHoldNoBreak
================================================================================
