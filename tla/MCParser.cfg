CONSTANTS
    Token <- MCToken
    Lexings <- MCLexings
    Alphabet = { "IDENTIFIER_TOKEN", "EQUALS_TOKEN", "NUMBER_TOKEN", "TRUE_KEYWORD", "PLUS_TOKEN",
                 "EQUALS_EQUALS_TOKEN", "OPEN_PARENTHESIS_TOKEN", "CLOSE_PARENTHESIS_TOKEN", "BAD_TOKEN" }
    MaxTokens = 4
SPECIFICATION Spec
CHECK_DEADLOCK FALSE
INVARIANTS
    TypeOK
    PositionInBounds
    StackBounded
    CleanParseIsWhole
    TreeSpellsConsumedTokens
    EachNodeOwnedOnce
    HolesAreReported
    ReportsIffNotSentence
    PrecedenceShapesTree
    DrawingTellsTheTree
    ParserMeetsItsTests
PROPERTY
    ParserTerminates
