--------------------------- MODULE ParserProperties ---------------------------
(***************************************************************************)
(* What the trees of parser.c must look like, stated over the node heap:   *)
(* the functions below walk the tree, a child always having a smaller      *)
(* index than its parent.                                                  *)
(***************************************************************************)
EXTENDS Parser, Integers, FiniteSets, SequenceOperators

NodeIds == 1..Len(nodes)

\* The running call's result, if it has one yet.
Result == IF control.node = NoNode THEN <<>> ELSE << control.node >>

\* The tokens that the leaves below each node copy, left to right in the order
\* syntax_node_children gives, the manufactured ones left out.
Spelling(heap) ==
    LET below[n \in 1..Len(heap)] ==
            IF heap[n].kids # <<>>
            THEN Seqs!FlattenSeq([ k \in 1..Len(heap[n].kids) |-> below[heap[n].kids[k]] ])
            ELSE IF heap[n].token # 0 THEN << heap[n].token >>
            ELSE <<>>
    IN below

\* The same of a list of nodes, and of all the parser points to from its locals: what
\* the suspended calls hold, outermost first, and then the result.
Spelled(heap, list) == Seqs!FlattenSeq([ k \in 1..Len(list) |-> Spelling(heap)[list[k]] ])
SpelledByAll(heap, calls, result) ==
    Seqs!FlattenSeq([ i \in 1..Len(calls) |-> Spelled(heap, calls[i].held) ])
        \o Spelled(heap, result)

\* At every moment the tree under construction reads back as exactly the consumed
\* tokens in source order: none dropped, repeated or moved by the error recovery of
\* match_token, by the default of parse_primary_expression or by a suspended call.
TreeSpellsConsumedTokens == SpelledByAll(nodes, stack, Result) = [ i \in 1..position |-> i ]

\* What owns nodes: a node i its kids, the suspended call i, as -i, what it holds, and
\* the running call, as 0, its result.
Lists(heap, calls, result) ==
    [ owner \in -Len(calls)..Len(heap) |->
        IF owner > 0 THEN heap[owner].kids
        ELSE IF owner < 0 THEN calls[-owner].held
        ELSE result ]

Once(lists, size) ==
    /\ \A o \in DOMAIN lists : \A k \in 1..Len(lists[o]) : lists[o][k] \in 1..size
    /\ \A n \in 1..size : \E o \in DOMAIN lists : \E k \in 1..Len(lists[o]) : lists[o][k] = n
    /\ \A o, p \in DOMAIN lists : \A k \in 1..Len(lists[o]), l \in 1..Len(lists[p]) :
          lists[o][k] = lists[p][l] => o = p /\ k = l

\* Every node has one owner, a parent or a local of a suspended call: the
\* expression_syntax_free of the root frees each node exactly once.
EachNodeOwnedOnce == Once(Lists(nodes, stack, Result), Len(nodes))

\* A manufactured token and its report come in pairs: a tree with holes is never
\* taken for a clean one, and no report is raised for a tree that is whole.
Holes(heap)      == { n \in 1..Len(heap) : heap[n].kind \in LeafKinds /\ heap[n].token = 0 }
Unexpected(bag)  == { i \in 1..Len(bag) : bag[i] = "unexpected_token" }
HolesAreReported == Cardinality(Holes(nodes)) = Cardinality(Unexpected(diagnostics))

\* The precedence of the operator on top of a node; 7 for what binds tighter than
\* any operator, 0 for an assignment, which needs parentheses to be an operand.
TopPrecedence(heap, n) ==
    LET node == heap[n] IN
    IF node.kind = "BINARY_EXPRESSION" THEN BinaryOperatorPrecedence(heap[node.kids[2]].kind)
    ELSE IF node.kind = "UNARY_EXPRESSION" THEN UnaryOperatorPrecedence(heap[node.kids[1]].kind)
    ELSE IF node.kind = "ASSIGNMENT_EXPRESSION" THEN 0
    ELSE 7

\* Tighter operators are below looser ones and equal ones associate to the left.
\* With TreeSpellsConsumedTokens this determines the tree.
Shaped(heap, n) ==
    LET kids == heap[n].kids IN
    /\ heap[n].kind = "BINARY_EXPRESSION" =>
          /\ TopPrecedence(heap, kids[1]) >= TopPrecedence(heap, n)
          /\ TopPrecedence(heap, kids[3]) >  TopPrecedence(heap, n)
    /\ heap[n].kind = "UNARY_EXPRESSION" => TopPrecedence(heap, kids[2]) >= TopPrecedence(heap, n)
PrecedenceShapesTree == \A n \in NodeIds : Shaped(nodes, n)

--------------------------------------------------------------------------------
(* The language, as a grammar over the kinds of the tokens and independent of   *)
(* any parsing strategy:                                                        *)
(*    A ::= identifier "=" A | B       B ::= P | unary B | B binary B           *)
(*    P ::= identifier | number | true | false | "(" A ")"                      *)
(* Derivations(text)[<<i, j>>] are the symbols tokens i .. j-1 derive from; the *)
(* rules get those of the shorter spans as from.                                *)

IsP(text, from, i, j) ==
    \/ j = i + 1 /\ text[i].kind \in KeywordKinds \cup { "IDENTIFIER_TOKEN", "NUMBER_TOKEN" }
    \/ /\ j > i + 2
       /\ text[i].kind = "OPEN_PARENTHESIS_TOKEN"
       /\ text[j - 1].kind = "CLOSE_PARENTHESIS_TOKEN"
       /\ "A" \in from[<< i + 1, j - 1 >>]
IsB(text, from, i, j) ==
    \/ IsP(text, from, i, j)
    \/ j > i + 1 /\ text[i].kind \in UnaryOperatorKinds /\ "B" \in from[<< i + 1, j >>]
    \/ \E k \in i + 1 .. j - 2 :
          /\ text[k].kind \in BinaryOperatorKinds
          /\ "B" \in from[<< i, k >>] /\ "B" \in from[<< k + 1, j >>]
IsA(text, from, i, j) ==
    \/ IsB(text, from, i, j)
    \/ /\ j > i + 2
       /\ text[i].kind = "IDENTIFIER_TOKEN" /\ text[i + 1].kind = "EQUALS_TOKEN"
       /\ "A" \in from[<< i + 2, j >>]
Symbols(text, from, i, j) ==
    { symbol \in { "A", "B" } :
        IF symbol = "A" THEN IsA(text, from, i, j) ELSE IsB(text, from, i, j) }

Derivations(text) ==
    LET from[span \in (1..Len(text)) \X (1..Len(text))] == Symbols(text, from, span[1], span[2])
    IN from

\* All of a text but its last token, which is the end of file.
IsSentence(text) == "A" \in Derivations(text)[<< 1, Len(text) >>]

\* The parser reports an unexpected token exactly for the texts that are not
\* sentences: the one-token lookahead and the missing backtracking lose none, and
\* the manufactured tokens let none through.
ReportsIffNotSentence ==
    control.fn = "done" =>
        (("unexpected_token" \in { diagnostics[i] : i \in 1..Len(diagnostics) })
            <=> ~IsSentence(tokens))

\* Error recovery never loops: the parser returns a tree for every text.
ParserTerminates == <>(control.fn = "done")

--------------------------------------------------------------------------------
(* What makes them inductive.                                                   *)

\* A node is built after its kids, and has as many as its *_syntax_new takes.
Arity(kind) ==
    IF kind \in { "BINARY_EXPRESSION", "ASSIGNMENT_EXPRESSION", "PARENTHESIZED_EXPRESSION" } THEN 3
    ELSE IF kind \in { "UNARY_EXPRESSION", "COMPILATION_UNIT" } THEN 2
    ELSE IF kind \in { "LITERAL_EXPRESSION", "NAME_EXPRESSION" } THEN 1
    ELSE 0
WellBuilt(heap, n) ==
    /\ Len(heap[n].kids) = Arity(heap[n].kind)
    /\ \A k \in 1..Arity(heap[n].kind) : heap[n].kids[k] \in 1..n - 1

\* A suspended call holds what came before the call it waits for.
HeldBy(building) ==
    IF building \in { "BINARY_EXPRESSION", "ASSIGNMENT_EXPRESSION" } THEN 2
    ELSE IF building \in { "UNARY_EXPRESSION", "PARENTHESIZED_EXPRESSION" } THEN 1
    ELSE 0
WellHeld(heap, frame) ==
    /\ Len(frame.held) = HeldBy(frame.building)
    /\ \A k \in 1..HeldBy(frame.building) : frame.held[k] \in 1..Len(heap)

\* The parent_precedence that a suspended call gave to the one it waits for.
Given(heap, frame) ==
    IF frame.building = "BINARY_EXPRESSION" THEN BinaryOperatorPrecedence(heap[frame.held[2]].kind)
    ELSE IF frame.building = "UNARY_EXPRESSION" THEN UnaryOperatorPrecedence(heap[frame.held[1]].kind)
    ELSE 0
Operators == { "BINARY_EXPRESSION", "UNARY_EXPRESSION" }

\* The operand and the operator a suspended call holds, and who called it.
Operands(heap, frame) ==
    /\ frame.building = "BINARY_EXPRESSION" =>
          /\ TopPrecedence(heap, frame.held[1]) >= Given(heap, frame)
          /\ Given(heap, frame) > frame.parent
    /\ frame.building = "UNARY_EXPRESSION" => Given(heap, frame) = 6
Called(heap, caller, frame) ==
    /\ frame.parent = Given(heap, caller)
    /\ frame.building = "ASSIGNMENT_EXPRESSION" => caller.building \notin Operators

\* What a call of parse_binary_expression with this parent_precedence may return:
\* only a unary operator binds as tightly as one.
Binds(heap, n, parent) ==
    /\ TopPrecedence(heap, n) >= parent
    /\ TopPrecedence(heap, n) = parent => parent = 6

HeapShape(heap) == \A n \in 1..Len(heap) : WellBuilt(heap, n) /\ Shaped(heap, n)

CallsShape(heap, calls) ==
    /\ \A i \in 1..Len(calls) : WellHeld(heap, calls[i]) /\ Operands(heap, calls[i])
    /\ \A i \in 1..Len(calls) - 1 : Called(heap, calls[i], calls[i + 1])

HasResult == { "parse_binary_expression_loop", "return", "done" }
ResultShape(heap, call) ==
    IF call.fn \in HasResult THEN call.node \in 1..Len(heap) ELSE call.node = NoNode

\* What the running call does for the one that waits for it, with a token of this kind
\* next: the operators left to read bind no tighter than what has been read.
CallShape(heap, caller, call, next) ==
    /\ call.fn = "parse_assignment_expression" => caller.building \notin Operators
    /\ call.fn \in { "parse_binary_expression", "parse_binary_expression_loop" } =>
          call.parent = Given(heap, caller)
    /\ call.fn = "parse_binary_expression_loop" =>
          /\ Binds(heap, call.node, call.parent)
          /\ BinaryOperatorPrecedence(next) <= TopPrecedence(heap, call.node)
    /\ call.fn = "return" /\ caller.building \in Operators =>
          /\ Binds(heap, call.node, Given(heap, caller))
          /\ BinaryOperatorPrecedence(next) <= Given(heap, caller)

TreeShape ==
    /\ HeapShape(nodes) /\ CallsShape(nodes, stack) /\ ResultShape(nodes, control)
    /\ control.fn \notin { "parser_new", "done" } => CallShape(nodes, Top, control, Current.kind)

\* binder.c casts the kids of a node without looking at them, and reads the tokens of
\* literals, operators and assigned names: those must be expressions, and these be there.
IsExpression(heap, n) == heap[n].kind \in ExpressionKinds
Casts(heap, kind, kids) ==
    /\ kind = "LITERAL_EXPRESSION" =>
          heap[kids[1]].kind \in KeywordKinds \cup { "NUMBER_TOKEN" } /\ heap[kids[1]].token # 0
    /\ kind = "NAME_EXPRESSION" => heap[kids[1]].kind = "IDENTIFIER_TOKEN"
    /\ kind = "ASSIGNMENT_EXPRESSION" =>
          /\ heap[kids[1]].kind = "IDENTIFIER_TOKEN" /\ heap[kids[1]].token # 0
          /\ heap[kids[2]].kind = "EQUALS_TOKEN"
          /\ IsExpression(heap, kids[3])
    /\ kind = "PARENTHESIZED_EXPRESSION" =>
          /\ heap[kids[1]].kind = "OPEN_PARENTHESIS_TOKEN"
          /\ IsExpression(heap, kids[2])
          /\ heap[kids[3]].kind = "CLOSE_PARENTHESIS_TOKEN"
    /\ kind = "UNARY_EXPRESSION" =>
          heap[kids[1]].kind \in UnaryOperatorKinds /\ IsExpression(heap, kids[2])
    /\ kind = "BINARY_EXPRESSION" =>
          /\ IsExpression(heap, kids[1])
          /\ heap[kids[2]].kind \in BinaryOperatorKinds
          /\ IsExpression(heap, kids[3])
    /\ kind = "COMPILATION_UNIT" => IsExpression(heap, kids[1]) /\ heap[kids[2]].kind = EOF

\* A leaf copies a token of its own kind.
Copy(node, kept) ==
    node.token # 0 => node.token \in 1..Len(kept) /\ kept[node.token].kind = node.kind

\* The same of what a suspended call holds and of what the running call returns.
CastsHeld(heap, frame) ==
    /\ frame.building = "BINARY_EXPRESSION" =>
          IsExpression(heap, frame.held[1]) /\ heap[frame.held[2]].kind \in BinaryOperatorKinds
    /\ frame.building = "UNARY_EXPRESSION" => heap[frame.held[1]].kind \in UnaryOperatorKinds
    /\ frame.building = "PARENTHESIZED_EXPRESSION" =>
          heap[frame.held[1]].kind = "OPEN_PARENTHESIS_TOKEN"
    /\ frame.building = "ASSIGNMENT_EXPRESSION" =>
          /\ heap[frame.held[1]].kind = "IDENTIFIER_TOKEN" /\ heap[frame.held[1]].token # 0
          /\ heap[frame.held[2]].kind = "EQUALS_TOKEN"
CastsResult(heap, call) ==
    /\ call.fn \in { "parse_binary_expression_loop", "return" } => IsExpression(heap, call.node)
    /\ call.fn = "done" => heap[call.node].kind = "COMPILATION_UNIT"

NodesCast(heap, kept) ==
    \A n \in 1..Len(heap) : Casts(heap, heap[n].kind, heap[n].kids) /\ Copy(heap[n], kept)

TreeCasts ==
    /\ NodesCast(nodes, tokens)
    /\ \A i \in 1..Len(stack) : CastsHeld(nodes, stack[i])
    /\ CastsResult(nodes, control)
    /\ diagnostics = <<>> => \A i \in 1..Len(tokens) : ~LexicalError(tokens[i])

\* The language again, for a reader that goes from left to right and looks at one token:
\* what may come next, and how many parentheses are open.  Only a name that may be
\* assigned to may be followed by "=".
Expects == { "assignment", "operand", "name", "operator", "nothing" }
Reader(what, open) == [ what |-> what, open |-> open ]
Advance(reader, kind) ==
    IF reader.what \in { "assignment", "operand" }
    THEN IF kind \in KeywordKinds \cup { "NUMBER_TOKEN" } THEN Reader("operator", reader.open)
         ELSE IF kind = "IDENTIFIER_TOKEN"
              THEN Reader(IF reader.what = "assignment" THEN "name" ELSE "operator", reader.open)
         ELSE IF kind \in UnaryOperatorKinds THEN Reader("operand", reader.open)
         ELSE IF kind = "OPEN_PARENTHESIS_TOKEN" THEN Reader("assignment", reader.open + 1)
         ELSE Reader("nothing", 0)
    ELSE IF reader.what \in { "name", "operator" }
         THEN IF kind \in BinaryOperatorKinds THEN Reader("operand", reader.open)
              ELSE IF kind = "CLOSE_PARENTHESIS_TOKEN" /\ reader.open > 0
                   THEN Reader("operator", reader.open - 1)
              ELSE IF kind = "EQUALS_TOKEN" /\ reader.what = "name"
                   THEN Reader("assignment", reader.open)
              ELSE Reader("nothing", 0)
         ELSE Reader("nothing", 0)

Scan(text) ==
    LET scan[p \in 0..Len(text)] ==
            IF p = 0 THEN Reader("assignment", 0) ELSE Advance(scan[p - 1], text[p].kind)
    IN scan
Complete(reader) == reader.what \in { "name", "operator" } /\ reader.open = 0

\* The parser is such a reader: the running function is what may come next, and the
\* calls that wait for a ")" are the parentheses that are open.  It returns only before
\* a token that its caller has to deal with.
Open(calls) == { i \in 1..Len(calls) : calls[i].building = "PARENTHESIZED_EXPRESSION" }
Awaits(reader, calls, call) ==
    /\ reader.open = Cardinality(Open(calls))
    /\ call.fn = "parse_assignment_expression" => reader.what = "assignment"
    /\ call.fn = "parse_binary_expression" =>
          /\ reader.what \in { "assignment", "operand" }
          /\ reader.what = "assignment" => ~StartsAssignment
    /\ call.fn \in { "parse_binary_expression_loop", "return" } =>
          /\ reader.what \in { "name", "operator" }
          /\ reader.what = "name" => Current.kind # "EQUALS_TOKEN"
    /\ call.fn = "return" => BinaryOperatorPrecedence(Current.kind) <= Given(nodes, Top)

\* The first report is of a token that no sentence with this beginning goes on with.
ReadsSentence ==
    IF Unexpected(diagnostics) = {}
    THEN control.fn \notin { "parser_new", "done" } => Awaits(Scan(tokens)[position], stack, control)
    ELSE control.fn # "parser_new" /\ ~Complete(Scan(tokens)[Len(tokens) - 1])

\* The tokens that the loop of parser_new keeps of these.
Kept(text) ==
    Seqs!FlattenSeq([ i \in 1..Len(text) |-> IF text[i].kind \in TriviaKinds THEN <<>> ELSE << text[i] >> ])

\* They are what the lexer made of the text, up to the end of file and without the trivia,
\* and the lexer's reports are of the tokens that were read.
KeepsTokens ==
    /\ tokens = Kept(SubSeq(lexed, 1, read))
    /\ control.fn # "parser_new" => read = Len(lexed)
    /\ ("lexical_error" \in { diagnostics[i] : i \in 1..Len(diagnostics) })
          <=> \E i \in 1..read : LexicalError(lexed[i])

TreeInv ==
    /\ IInv /\ TreeShape /\ TreeCasts
    /\ HolesAreReported /\ EachNodeOwnedOnce /\ TreeSpellsConsumedTokens
================================================================================
