CONSTANTS
    IntWidth = 2
    Name = { "a" }
    Trees = {}
    Line <- MCLine
    MaxPending = 3
SPECIFICATION ReplSpec
CHECK_DEADLOCK FALSE
INVARIANTS
    OnlySentencesAreEvaluated
    KeptTextIsUnfinished
    ExitFreesEverything
PROPERTIES
    BlankLineAnswers
    ReplImplementsSession
