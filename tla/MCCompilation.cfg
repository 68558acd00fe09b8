CONSTANTS
    IntWidth = 2
    Name = { "a", "b" }
    Trees <- Shapes
SPECIFICATION Spec
CHECK_DEADLOCK FALSE
INVARIANTS
    ObjectsOwnedOnce
    CellsOwnedOnce
    ReportsIffIllTyped
    TypeSoundness
    AnswerIsMeaning
