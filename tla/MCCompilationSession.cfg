CONSTANTS
    IntWidth = 2
    Name = { "a", "b" }
    Trees <- Shallow
SPECIFICATION Spec
CHECK_DEADLOCK FALSE
PROPERTY
    ImplementsSession
