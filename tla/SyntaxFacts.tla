------------------------------ MODULE SyntaxFacts ------------------------------
(***************************************************************************)
(* The facts every stage of the language reads: the kinds of syntax_kind.  *)
(* inc, and the precedences of syntax_facts.c.  The names are those of the *)
(* source without their SYNTAX_KIND_ prefix.  Constant operators only.     *)
(***************************************************************************)
EXTENDS Naturals

\* What a kind of token can be spelled with is fixed for these kinds ...
OperatorKinds ==
    { "PLUS_TOKEN", "MINUS_TOKEN", "STAR_TOKEN", "SLASH_TOKEN", "BANG_TOKEN",
      "AMPERSAND_AMPERSAND_TOKEN", "PIPE_PIPE_TOKEN", "EQUALS_EQUALS_TOKEN",
      "BANG_EQUALS_TOKEN", "EQUALS_TOKEN" }

ParenthesisKinds == { "OPEN_PARENTHESIS_TOKEN", "CLOSE_PARENTHESIS_TOKEN" }
KeywordKinds     == { "TRUE_KEYWORD", "FALSE_KEYWORD" }

\* ... and syntax_facts_get_text returns it; it returns str_null for the rest.
FixedTextKinds == OperatorKinds \cup ParenthesisKinds \cup KeywordKinds

\* The kinds the parser keeps: all but the trivia parser_new drops.
TokenKinds == FixedTextKinds \cup { "END_OF_FILE_TOKEN", "NUMBER_TOKEN", "IDENTIFIER_TOKEN" }
TriviaKinds == { "WHITESPACE_TOKEN", "BAD_TOKEN" }

ExpressionKinds ==
    { "LITERAL_EXPRESSION", "BINARY_EXPRESSION", "UNARY_EXPRESSION",
      "PARENTHESIZED_EXPRESSION", "NAME_EXPRESSION", "ASSIGNMENT_EXPRESSION" }

SyntaxKinds == TokenKinds \cup TriviaKinds \cup ExpressionKinds \cup { "COMPILATION_UNIT" }

\* 0 stands for "not a binary operator", as in the source.
BinaryOperatorPrecedence(kind) ==
    CASE kind \in { "STAR_TOKEN", "SLASH_TOKEN" }                  -> 5
      [] kind \in { "PLUS_TOKEN", "MINUS_TOKEN" }                  -> 4
      [] kind \in { "EQUALS_EQUALS_TOKEN", "BANG_EQUALS_TOKEN" }   -> 3
      [] kind = "AMPERSAND_AMPERSAND_TOKEN"                        -> 2
      [] kind = "PIPE_PIPE_TOKEN"                                  -> 1
      [] OTHER                                                     -> 0

UnaryOperatorPrecedence(kind) ==
    IF kind \in { "PLUS_TOKEN", "MINUS_TOKEN", "BANG_TOKEN" } THEN 6 ELSE 0

Precedences == 0..6

BinaryOperatorKinds == { kind \in SyntaxKinds : BinaryOperatorPrecedence(kind) > 0 }
UnaryOperatorKinds  == { kind \in SyntaxKinds : UnaryOperatorPrecedence(kind) > 0 }
================================================================================
