------------------------------- MODULE ParserTests -------------------------------
(***************************************************************************)
(* The tests of minsc-test's parser.c: for every pair of operators a text  *)
(* of names around them, and the nodes its tree must list by flatten.      *)
(***************************************************************************)
EXTENDS TreePrinting

\* The kinds of the tokens the parser kept.
Kinds == [ i \in 1..Len(tokens) |-> tokens[i].kind ]

\* What asserting_iterator_assert_node and asserting_iterator_assert_token compare: the
\* kind, and for a token the text, here the place in the source that it copies.
Listing ==
    LET listed == Flatten[<< nodes[control.node].kids[1] >>]
    IN [ l \in 1..Len(listed) |-> [ kind |-> nodes[listed[l]].kind, token |-> nodes[listed[l]].token ] ]

AssertNode(kind) == << [ kind |-> kind, token |-> 0 ] >>
AssertToken(i)   == << [ kind |-> tokens[i].kind, token |-> i ] >>
AssertName(i)    == AssertNode("NAME_EXPRESSION") \o AssertToken(i)

\* binary_expression_honors_precedence, on "a op1 b op2 c".
BinaryExpectation(op1, op2) ==
    AssertNode("BINARY_EXPRESSION")
      \o (IF BinaryOperatorPrecedence(op1) >= BinaryOperatorPrecedence(op2)
          THEN AssertNode("BINARY_EXPRESSION") \o AssertName(1) \o AssertToken(2)
          ELSE AssertName(1) \o AssertToken(2) \o AssertNode("BINARY_EXPRESSION"))
      \o AssertName(3) \o AssertToken(4) \o AssertName(5)

\* unary_expression_honors_precedence, on "op a binary b".
UnaryExpectation(unary, binary) ==
    (IF UnaryOperatorPrecedence(unary) >= BinaryOperatorPrecedence(binary)
     THEN AssertNode("BINARY_EXPRESSION") \o AssertNode("UNARY_EXPRESSION") \o AssertToken(1)
     ELSE AssertNode("UNARY_EXPRESSION") \o AssertToken(1) \o AssertNode("BINARY_EXPRESSION"))
      \o AssertName(2) \o AssertToken(3) \o AssertName(4)

\* The suite passes: every pair of binary operators, and every unary one before every
\* binary one, gives the tree its test asserts, each node listed once and in place.
ParserMeetsItsTests ==
    control.fn = "done" =>
        LET name == "IDENTIFIER_TOKEN" IN
        /\ \A op1, op2 \in BinaryOperatorKinds :
              Kinds = << name, op1, name, op2, name, EOF >> => Listing = BinaryExpectation(op1, op2)
        /\ \A unary \in UnaryOperatorKinds, binary \in BinaryOperatorKinds :
              Kinds = << unary, name, binary, name, EOF >> => Listing = UnaryExpectation(unary, binary)
================================================================================
