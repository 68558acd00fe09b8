CONSTANTS
    x = x
    y = y
    Handle = { bag, other, view }
    Item = { x, y }
    Garbage = Garbage
    Array <- MCArray
    MaxBlocks = 3
    MaxLen = 3
SPECIFICATION Spec
SYMMETRY VariablesAreAlike
CHECK_DEADLOCK FALSE
INVARIANT
    BlocksOwnedOnce
PROPERTY
    BufImplementsList
