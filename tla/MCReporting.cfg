CONSTANTS
    Character <- MCCharacter
    Texts <- MCTexts
    MaxLength = 3
    IntWidth = 5
    SizeMax = 255
SPECIFICATION Spec
INVARIANTS
    TokensTileText
    TokensAreLongest
    NumbersHaveTheirValue
    PrintsTheWholeLine
    PrintsThePosition
    LexerMeetsItsTests
