CONSTANTS
    Character <- MCCharacter
    Texts <- MCTexts
    MaxLength = 5
    SizeMax = 255
SPECIFICATION SourceSpec
INVARIANTS
    LinesTile
    LinesHoldNoBreak
    SearchInBounds
    AnswerIsTheLine
PROPERTY
    SearchEnds
