CONSTANTS
    Capacity = 6
    MaxOpStack = 3
    Kinds = {"plain", "push", "transfer", "call"}
    MaxEmitted = 2
    MaxLines = 4
SPECIFICATION Spec
INVARIANTS
    TypeOK
PROPERTIES
    NothingSkipped
    ImplementsLineByLine
CHECK_DEADLOCK FALSE
