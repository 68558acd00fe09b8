--------------------------------- MODULE MCTreeLayout ---------------------------------
(***************************************************************************)
(* Syntax trees for the model checker: an expression is written as a       *)
(* nested tuple and laid out as the parser lays it out, leaves first.      *)
(***************************************************************************)
EXTENDS CompilationProperties

\* Expressions.  An operand that would otherwise bind more loosely is parenthesized.
Num(i)      == << "number", Int64(i) >>
TooLarge    == << "number", NullObject >>
True        == << "TRUE_KEYWORD" >>
False       == << "FALSE_KEYWORD" >>
Var(name)   == << "name", name >>
Missing     == << "missing" >>
Par(e)      == << "par", e >>
Operand(e)  == IF e[1] \in { "binary", "assign" } THEN Par(e) ELSE e
Un(op, e)   == << "unary", op, Operand(e) >>
Bin(op, l, r) == << "binary", op, Operand(l), Operand(r) >>
Asg(name, e)  == << "assign", name, e >>

Empty == [ nodes |-> <<>>, tokens |-> <<>>, reports |-> 0 ]
At(part) == Len(part.nodes)

Leaf(part, kind, text, value) ==
    [ part EXCEPT
        !.tokens = Append(@, [ kind |-> kind, text |-> text, value |-> value ]),
        !.nodes  = Append(@, [ kind |-> kind, kids |-> <<>>, token |-> Len(part.tokens) + 1 ]) ]
Token(part, kind) == Leaf(part, kind, NoName, NullObject)
Hole(part, kind) ==
    [ part EXCEPT !.nodes   = Append(@, [ kind |-> kind, kids |-> <<>>, token |-> 0 ]),
                  !.reports = @ + 1 ]
Over(part, kind, kids) ==
    [ part EXCEPT !.nodes = Append(@, [ kind |-> kind, kids |-> kids, token |-> 0 ]) ]

RECURSIVE Laid(_, _)
Laid(part, e) ==
    CASE e[1] = "number" ->
            LET leaf == Leaf([ part EXCEPT !.reports = @ + (IF e[2] = NullObject THEN 1 ELSE 0) ],
                             "NUMBER_TOKEN", NoName, e[2])
            IN Over(leaf, "LITERAL_EXPRESSION", << At(leaf) >>)
      [] e[1] \in KeywordKinds ->
            LET leaf == Token(part, e[1]) IN Over(leaf, "LITERAL_EXPRESSION", << At(leaf) >>)
      [] e[1] = "name" ->
            LET leaf == Leaf(part, "IDENTIFIER_TOKEN", e[2], NullObject)
            IN Over(leaf, "NAME_EXPRESSION", << At(leaf) >>)
      [] e[1] = "missing" ->
            LET leaf == Hole(part, "IDENTIFIER_TOKEN") IN Over(leaf, "NAME_EXPRESSION", << At(leaf) >>)
      [] e[1] = "par" ->
            LET open == Token(part, "OPEN_PARENTHESIS_TOKEN")
                inner == Laid(open, e[2])
                close == Token(inner, "CLOSE_PARENTHESIS_TOKEN")
            IN Over(close, "PARENTHESIZED_EXPRESSION", << At(open), At(inner), At(close) >>)
      [] e[1] = "unary" ->
            LET op == Token(part, e[2])  inner == Laid(op, e[3])
            IN Over(inner, "UNARY_EXPRESSION", << At(op), At(inner) >>)
      [] e[1] = "binary" ->
            LET left == Laid(part, e[3])  op == Token(left, e[2])  right == Laid(op, e[4])
            IN Over(right, "BINARY_EXPRESSION", << At(left), At(op), At(right) >>)
      [] e[1] = "assign" ->
            LET name == Leaf(part, "IDENTIFIER_TOKEN", e[2], NullObject)
                equals == Token(name, "EQUALS_TOKEN")
                right == Laid(equals, e[3])
            IN Over(right, "ASSIGNMENT_EXPRESSION", << At(name), At(equals), At(right) >>)

\* The tree of an expression; a hole or a number that is too large was reported.
Tree(e) ==
    LET body == Laid(Empty, e)
        eof  == Token(body, "END_OF_FILE_TOKEN")
        unit == Over(eof, "COMPILATION_UNIT", << At(body), At(eof) >>)
    IN [ nodes |-> unit.nodes, tokens |-> unit.tokens, root |-> At(unit),
         diagnostics |-> [ i \in 1..unit.reports |-> "unexpected_token" ] ]
================================================================================
