CONSTANTS
    IntWidth = 2
    Name = { "a" }
    Trees <- OneVariable
SPECIFICATION Spec
CHECK_DEADLOCK FALSE
INVARIANT
    VariablesCanBeReferenced
