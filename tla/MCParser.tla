-------------------------------- MODULE MCParser --------------------------------
(* Every token sequence of up to MaxTokens tokens over Alphabet, and long          *)
(* sentences: two operators between operands that are names, signed names,         *)
(* parenthesized sums or parenthesized assignments, the right-hand side of an      *)
(* assignment or not; three operators between names; and a signed name before a    *)
(* binary operator.  All ended by EOF.                                             *)
EXTENDS ParserTests

LOCAL INSTANCE SequencesExt

CONSTANTS Alphabet, MaxTokens

MCTok(kind) == [ kind |-> kind, value |-> [ type |-> IF kind = "NUMBER_TOKEN" THEN "INT64" ELSE "NULL" ] ]

\* A number too large for an int64_t keeps its kind and has no value.
MCBadNumber == [ kind |-> "NUMBER_TOKEN", value |-> [ type |-> "NULL" ] ]

MCToken == { MCTok(kind) : kind \in TokenKinds \cup Alphabet } \cup { MCBadNumber }

MCShort == BoundedSeq({ MCTok(kind) : kind \in Alphabet } \cup { MCBadNumber }, MaxTokens)

MCName     == << "IDENTIFIER_TOKEN" >>
MCOperands ==
    { MCName, << "BANG_TOKEN", "MINUS_TOKEN" >> \o MCName,
      << "OPEN_PARENTHESIS_TOKEN" >> \o MCName \o << "PLUS_TOKEN" >> \o MCName \o << "CLOSE_PARENTHESIS_TOKEN" >>,
      << "OPEN_PARENTHESIS_TOKEN" >> \o MCName \o << "EQUALS_TOKEN", "NUMBER_TOKEN", "CLOSE_PARENTHESIS_TOKEN" >> }

MCTwoOperators ==
    { a \o << f >> \o b \o << g >> \o c :
        a \in MCOperands, b \in MCOperands, c \in MCOperands, f \in BinaryOperatorKinds, g \in BinaryOperatorKinds }
MCThreeOperators ==
    { MCName \o << f >> \o MCName \o << g >> \o MCName \o << h >> \o MCName :
        f \in BinaryOperatorKinds, g \in BinaryOperatorKinds, h \in BinaryOperatorKinds }
MCSigned ==
    { << f >> \o MCName \o << g >> \o MCName : f \in UnaryOperatorKinds, g \in BinaryOperatorKinds }
MCLong ==
    { [ i \in 1..Len(s) |-> MCTok(s[i]) ] :
        s \in MCTwoOperators \cup { MCName \o << "EQUALS_TOKEN" >> \o t : t \in MCTwoOperators }
                \cup MCThreeOperators \cup MCSigned }

MCLexings == { Append(s, MCTok(EOF)) : s \in MCShort \cup MCLong }
================================================================================
