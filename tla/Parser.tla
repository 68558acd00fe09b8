--------------------------------- MODULE Parser ---------------------------------
(***************************************************************************)
(* The recursive-descent parser of parser.c as a state machine.            *)
(*                                                                         *)
(* The C call stack is the variable stack: one frame per call that waits   *)
(* for a callee, recording which node the caller is building, the nodes it *)
(* already holds in its locals and its parent_precedence argument.         *)
(* control is the running function.  Syntax nodes live in the heap nodes:  *)
(* a pointer is an index, and a node is built after its children, as the   *)
(* *_syntax_new calls do.                                                  *)
(***************************************************************************)
EXTENDS SyntaxFacts, Sequences

CONSTANTS Token,           \* what lexer_next_token can return
          Lexings          \* the token sequences the lexer can produce for a text

VARIABLES lexed,           \* what lexer_next_token returns for the text, in order
          read,            \* how many of these parser_new has read
          tokens,          \* parser->tokens
          position,        \* parser->position
          diagnostics,     \* parser->diagnostics
          nodes,           \* the heap of syntax nodes
          stack,           \* suspended calls, the innermost last
          control          \* the running call

vars == <<lexed, read, tokens, position, diagnostics, nodes, stack, control>>

EOF == "END_OF_FILE_TOKEN"

\* The lexer returns one end-of-file token, and it returns it last.
IsLexing(s) == s # <<>> /\ \A i \in 1..Len(s) : s[i].kind = EOF <=> i = Len(s)

ASSUME TokenAssumption == \A t \in Token : t.kind \in TokenKinds \cup TriviaKinds
ASSUME LexingsAssumption == \A s \in Lexings : s \in Seq(Token) /\ IsLexing(s)

--------------------------------------------------------------------------------
(* Nodes, frames and calls.                                                     *)

LeafKinds == TokenKinds
NodeKinds == ExpressionKinds \cup { "COMPILATION_UNIT" }

\* kids are the children in the order *_syntax_children pushes them; token is the
\* position of the consumed token a leaf copies, 0 for a manufactured one and for
\* the inner nodes.
Node == [ kind : LeafKinds \cup NodeKinds, kids : Seq(Nat), token : Nat ]

NoNode == 0
Functions == { "parser_new", "parse_assignment_expression", "parse_binary_expression",
               "parse_binary_expression_loop", "return", "done" }
Call  == [ fn : Functions, parent : Precedences, node : Nat ]
Frame == [ building : NodeKinds, held : Seq(Nat), parent : Precedences ]

Run(fn, parent, node) == [ fn |-> fn, parent |-> parent, node |-> node ]
Suspend(building, held, parent) ==
    [ building |-> building, held |-> held, parent |-> parent ]

Top == stack[Len(stack)]
Pop == SubSeq(stack, 1, Len(stack) - 1)

--------------------------------------------------------------------------------
(* The helpers of parser.c.                                                     *)

\* peek(parser, offset): past the end it keeps answering the last token.
Peek(offset) ==
    IF position + offset >= Len(tokens) THEN tokens[Len(tokens)]
                                        ELSE tokens[position + offset + 1]
Current == Peek(0)

\* The syntax_token_dup of the i-th token, and a token match_token manufactures.
Leaf(i)    == [ kind |-> tokens[i].kind, kids |-> <<>>, token |-> i ]
Hole(kind) == [ kind |-> kind, kids |-> <<>>, token |-> 0 ]
Inner(kind, kids) == [ kind |-> kind, kids |-> kids, token |-> 0 ]

\* What match_token(kind) returns, and its effect on the parser: a mismatch is
\* reported and consumes nothing.
Matches(kind) == Current.kind = kind

\* Mutant: a mismatch copies the token at hand instead of manufacturing one.
MatchedAnyway(kind) == Leaf(position + 1)

Matched(kind) == IF Matches(kind) THEN Leaf(position + 1) ELSE Hole(kind)

\* Mutants: the mismatched token is consumed, the matched one is not, or the mismatch
\* is not reported.
MatchTokenSkips(kind) ==
    position' = position + 1 /\ (IF Matches(kind) THEN UNCHANGED diagnostics
                                 ELSE diagnostics' = Append(diagnostics, "unexpected_token"))
MatchTokenPeeks(kind) ==
    UNCHANGED position /\ (IF Matches(kind) THEN UNCHANGED diagnostics
                           ELSE diagnostics' = Append(diagnostics, "unexpected_token"))
MatchTokenSilently(kind) ==
    UNCHANGED diagnostics /\ position' = IF Matches(kind) THEN position + 1 ELSE position

MatchToken(kind) ==
    IF Matches(kind)
    THEN position' = position + 1 /\ UNCHANGED diagnostics
    ELSE UNCHANGED position /\ diagnostics' = Append(diagnostics, "unexpected_token")

\* The tokens parser_new does not drop.
KeptToken == { token \in Token : token.kind \notin TriviaKinds }

LexicalError(token) ==
    token.kind = "BAD_TOKEN" \/ (token.kind = "NUMBER_TOKEN" /\ token.value.type = "NULL")

InputUnchanged == UNCHANGED <<lexed, read, tokens>>

--------------------------------------------------------------------------------
Init ==
    /\ lexed \in Lexings
    /\ read = 0
    /\ tokens = <<>>
    /\ position = 0
    /\ diagnostics = <<>>
    /\ nodes = <<>>
    /\ stack = <<>>
    /\ control = Run("parser_new", 0, NoNode)

\* Mutant: only the whitespace is dropped, and a bad token is parsed.
LexTokenKeepsBad ==
    /\ control.fn = "parser_new"
    /\ LET token == lexed[read + 1] IN
       /\ read' = read + 1
       /\ tokens' = IF token.kind = "WHITESPACE_TOKEN" THEN tokens ELSE Append(tokens, token)
       /\ diagnostics' = IF LexicalError(token) THEN Append(diagnostics, "lexical_error")
                                                ELSE diagnostics
       /\ IF token.kind = EOF
          THEN /\ stack' = << Suspend("COMPILATION_UNIT", <<>>, 0) >>
               /\ control' = Run("parse_assignment_expression", 0, NoNode)
          ELSE UNCHANGED <<stack, control>>
    /\ UNCHANGED <<lexed, position, nodes>>

\* One turn of the loop of parser_new.  After the end-of-file token parser_parse
\* enters parse_compilation_unit, which calls parse_expression.
LexToken ==
    /\ control.fn = "parser_new"
    /\ LET token == lexed[read + 1] IN
       /\ read' = read + 1
       /\ tokens' = IF token.kind \in TriviaKinds THEN tokens ELSE Append(tokens, token)
       /\ diagnostics' = IF LexicalError(token) THEN Append(diagnostics, "lexical_error")
                                                ELSE diagnostics
       /\ IF token.kind = EOF
          THEN /\ stack' = << Suspend("COMPILATION_UNIT", <<>>, 0) >>
               /\ control' = Run("parse_assignment_expression", 0, NoNode)
          ELSE UNCHANGED <<stack, control>>
    /\ UNCHANGED <<lexed, position, nodes>>

\* Mutant: a name with anything behind it starts an assignment.
StartsWithName == Peek(0).kind = "IDENTIFIER_TOKEN" /\ Peek(1).kind # EOF

StartsAssignment ==
    Peek(0).kind = "IDENTIFIER_TOKEN" /\ Peek(1).kind = "EQUALS_TOKEN"

\* parse_assignment_expression, on "name =": consume both and recurse for the right.
ParseAssignment ==
    /\ control.fn = "parse_assignment_expression"
    /\ StartsAssignment
    /\ nodes' = nodes \o << Leaf(position + 1), Leaf(position + 2) >>
    /\ stack' = Append(stack, Suspend("ASSIGNMENT_EXPRESSION",
                                      << Len(nodes) + 1, Len(nodes) + 2 >>, 0))
    /\ position' = position + 2
    /\ UNCHANGED <<control, diagnostics>>
    /\ InputUnchanged

\* ... and otherwise a tail call of parse_binary_expression(parser, 0).
ParseNoAssignment ==
    /\ control.fn = "parse_assignment_expression"
    /\ ~StartsAssignment
    /\ control' = Run("parse_binary_expression", 0, NoNode)
    /\ UNCHANGED <<position, diagnostics, nodes, stack>>
    /\ InputUnchanged

\* The first half of parse_binary_expression: a unary operator that binds at least
\* as tightly as the caller's operator takes its operand ...
StartsUnary ==
    LET precedence == UnaryOperatorPrecedence(Current.kind) IN
    precedence # 0 /\ precedence >= control.parent

\* Mutant: the operand gets the caller's precedence.
ParseUnaryLoosely ==
    /\ control.fn = "parse_binary_expression"
    /\ StartsUnary
    /\ nodes' = Append(nodes, Leaf(position + 1))
    /\ stack' = Append(stack, Suspend("UNARY_EXPRESSION", << Len(nodes) + 1 >>,
                                      control.parent))
    /\ control' = Run("parse_binary_expression", control.parent, NoNode)
    /\ position' = position + 1
    /\ UNCHANGED diagnostics
    /\ InputUnchanged

ParseUnary ==
    /\ control.fn = "parse_binary_expression"
    /\ StartsUnary
    /\ nodes' = Append(nodes, Leaf(position + 1))
    /\ stack' = Append(stack, Suspend("UNARY_EXPRESSION", << Len(nodes) + 1 >>,
                                      control.parent))
    /\ control' = Run("parse_binary_expression", UnaryOperatorPrecedence(Current.kind), NoNode)
    /\ position' = position + 1
    /\ UNCHANGED diagnostics
    /\ InputUnchanged

\* ... and anything else is a primary expression, dispatched on the current token.
ParsesPrimary == control.fn = "parse_binary_expression" /\ ~StartsUnary

ParseParenthesized ==
    /\ ParsesPrimary
    /\ Current.kind = "OPEN_PARENTHESIS_TOKEN"
    /\ nodes' = Append(nodes, Matched("OPEN_PARENTHESIS_TOKEN"))
    /\ MatchToken("OPEN_PARENTHESIS_TOKEN")
    /\ stack' = Append(stack, Suspend("PARENTHESIZED_EXPRESSION", << Len(nodes) + 1 >>,
                                      control.parent))
    /\ control' = Run("parse_assignment_expression", 0, NoNode)
    /\ InputUnchanged

\* A primary of one token: the node over it becomes left in the caller's loop.
ParseSingle(expression, kind) ==
    /\ nodes' = nodes \o << Matched(kind), Inner(expression, << Len(nodes) + 1 >>) >>
    /\ MatchToken(kind)
    /\ control' = Run("parse_binary_expression_loop", control.parent, Len(nodes) + 2)
    /\ UNCHANGED stack
    /\ InputUnchanged

ParseBooleanLiteral ==
    /\ ParsesPrimary
    /\ Current.kind \in KeywordKinds
    /\ ParseSingle("LITERAL_EXPRESSION", Current.kind)

ParseNumberLiteral ==
    /\ ParsesPrimary
    /\ Current.kind = "NUMBER_TOKEN"
    /\ ParseSingle("LITERAL_EXPRESSION", "NUMBER_TOKEN")

\* The default of the switch: whatever else is there is read as a name.
ParseName ==
    /\ ParsesPrimary
    /\ Current.kind \notin KeywordKinds \cup { "OPEN_PARENTHESIS_TOKEN", "NUMBER_TOKEN" }
    /\ ParseSingle("NAME_EXPRESSION", "IDENTIFIER_TOKEN")

\* The loop of parse_binary_expression: a binary operator that binds more tightly
\* than the caller's extends left ...
\* Mutant: >= for > makes the operators associate to the right.
ExtendsOnEqual ==
    LET precedence == BinaryOperatorPrecedence(Current.kind) IN
    precedence # 0 /\ precedence >= control.parent

Extends ==
    LET precedence == BinaryOperatorPrecedence(Current.kind) IN
    precedence # 0 /\ precedence > control.parent

ParseBinaryRight ==
    /\ control.fn = "parse_binary_expression_loop"
    /\ Extends
    /\ nodes' = Append(nodes, Leaf(position + 1))
    /\ stack' = Append(stack, Suspend("BINARY_EXPRESSION", << control.node, Len(nodes) + 1 >>,
                                      control.parent))
    /\ control' = Run("parse_binary_expression", BinaryOperatorPrecedence(Current.kind), NoNode)
    /\ position' = position + 1
    /\ UNCHANGED diagnostics
    /\ InputUnchanged

\* ... and any other token ends it.
ReturnLeft ==
    /\ control.fn = "parse_binary_expression_loop"
    /\ ~Extends
    /\ control' = Run("return", 0, control.node)
    /\ UNCHANGED <<position, diagnostics, nodes, stack>>
    /\ InputUnchanged

\* A callee returned control.node to the innermost suspended call.
Returning(building) == control.fn = "return" /\ Top.building = building

\* unary_expression_syntax_new, binary_expression_syntax_new: back in the loop.
FinishOperator ==
    /\ \E building \in { "UNARY_EXPRESSION", "BINARY_EXPRESSION" } :
        /\ Returning(building)
        /\ nodes' = Append(nodes, Inner(building, Append(Top.held, control.node)))
    /\ control' = Run("parse_binary_expression_loop", Top.parent, Len(nodes) + 1)
    /\ stack' = Pop
    /\ UNCHANGED <<position, diagnostics>>
    /\ InputUnchanged

\* assignment_expression_syntax_new, returned at once.
FinishAssignment ==
    /\ Returning("ASSIGNMENT_EXPRESSION")
    /\ nodes' = Append(nodes, Inner("ASSIGNMENT_EXPRESSION", Append(Top.held, control.node)))
    /\ control' = Run("return", 0, Len(nodes) + 1)
    /\ stack' = Pop
    /\ UNCHANGED <<position, diagnostics>>
    /\ InputUnchanged

\* Both parse_parenthesized_expression and parse_compilation_unit end by matching
\* a closing token and building a node over what they hold.
FinishWith(building, closing, next) ==
    /\ Returning(building)
    /\ nodes' = nodes \o << Matched(closing),
                            Inner(building, Top.held \o << control.node, Len(nodes) + 1 >>) >>
    /\ MatchToken(closing)
    /\ control' = Run(next, Top.parent, Len(nodes) + 2)
    /\ stack' = Pop
    /\ InputUnchanged

\* Mutant: the inner expression is returned and the parentheses leak.
FinishParenthesizedBare ==
    /\ Returning("PARENTHESIZED_EXPRESSION")
    /\ nodes' = Append(nodes, Matched("CLOSE_PARENTHESIS_TOKEN"))
    /\ MatchToken("CLOSE_PARENTHESIS_TOKEN")
    /\ control' = Run("parse_binary_expression_loop", Top.parent, control.node)
    /\ stack' = Pop
    /\ InputUnchanged

FinishParenthesized ==
    FinishWith("PARENTHESIZED_EXPRESSION", "CLOSE_PARENTHESIS_TOKEN",
               "parse_binary_expression_loop")

\* Mutants: the end of the expression is taken for the end of the text, or the
\* parser waits for an end of file that the rest of the text hides.
FinishCompilationUnitEarly ==
    /\ Returning("COMPILATION_UNIT")
    /\ nodes' = nodes \o << Hole(EOF), Inner("COMPILATION_UNIT", << control.node, Len(nodes) + 1 >>) >>
    /\ control' = Run("done", 0, Len(nodes) + 2)
    /\ stack' = Pop
    /\ UNCHANGED <<position, diagnostics>>
    /\ InputUnchanged
FinishCompilationUnitWaits ==
    Returning("COMPILATION_UNIT") /\ Matches(EOF) /\ FinishWith("COMPILATION_UNIT", EOF, "done")

FinishCompilationUnit == FinishWith("COMPILATION_UNIT", EOF, "done")

Next ==
    \/ LexToken
    \/ ParseAssignment \/ ParseNoAssignment
    \/ ParseUnary
    \/ ParseParenthesized \/ ParseBooleanLiteral \/ ParseNumberLiteral \/ ParseName
    \/ ParseBinaryRight \/ ReturnLeft
    \/ FinishOperator \/ FinishAssignment \/ FinishParenthesized \/ FinishCompilationUnit

\* parser_parse is called and runs: nothing but its own steps can delay it.
Fairness == WF_vars(Next)

Spec == Init /\ [][Next]_vars /\ Fairness

--------------------------------------------------------------------------------
(* Invariants.                                                                  *)

TypeOK ==
    /\ lexed \in Seq(Token) /\ IsLexing(lexed)
    /\ read \in 0..Len(lexed)
    /\ tokens \in Seq(KeptToken)
    /\ position \in Nat
    /\ diagnostics \in Seq({ "lexical_error", "unexpected_token" })
    /\ nodes \in Seq(Node)
    /\ stack \in Seq(Frame)
    /\ control \in Call

\* peek needs a last token to answer, and every loop of the parser needs it to be
\* the only end-of-file token: the trivia parser_new drops must not be that one.
EndedByEOF ==
    IF control.fn = "parser_new"
    THEN read < Len(lexed) /\ \A i \in 1..Len(tokens) : tokens[i].kind # EOF
    ELSE tokens # <<>> /\ \A i \in 1..Len(tokens) : tokens[i].kind = EOF <=> i = Len(tokens)

\* parser->position++ has no bound check.  No call of next_token leaves the tokens,
\* and only the last one, in parse_compilation_unit, consumes the end of file: no
\* function ever runs on the clamped answer of peek(0).
PositionInBounds ==
    IF control.fn = "parser_new"
    THEN position = 0
    ELSE position <= Len(tokens) /\ (position = Len(tokens) => control.fn = "done")

\* The depth of the C recursion: a suspended call other than the outermost one has
\* consumed a token of its own, so the recursion is no deeper than the input is long.
StackBounded == Len(stack) <= position + 1

\* No leaf of the heap is a manufactured token.
Whole(heap) == \A n \in 1..Len(heap) : heap[n].kind \in LeafKinds => heap[n].token # 0

\* A tree without a report is a parse of the whole text: no node of it stands on a
\* manufactured token, and nothing before the end of file was left over in silence.
\* main.c goes on to bind and evaluate on the strength of the empty bag alone.
CleanParseIsWhole ==
    diagnostics = <<>> =>
        /\ Whole(nodes)
        /\ control.fn = "done" => position = Len(tokens)

--------------------------------------------------------------------------------
(* What makes them inductive.                                                   *)

\* Calls wait exactly while the parser is inside parse_compilation_unit, which is
\* the outermost of them and only that.
StackShape ==
    /\ stack = <<>> <=> control.fn \in { "parser_new", "done" }
    /\ \A i \in 1..Len(stack) : stack[i].building = "COMPILATION_UNIT" <=> i = 1

IInv ==
    /\ TypeOK
    /\ EndedByEOF
    /\ PositionInBounds
    /\ StackShape
    /\ StackBounded
    /\ CleanParseIsWhole
================================================================================
