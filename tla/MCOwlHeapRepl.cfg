CONSTANTS
    c1 = c1
    c2 = c2
    c3 = c3
    Cells = {c1, c2, c3}
    EmptyString = ""
    Strings = {"", "a"}
    ObjectTypes = {"LIST", "CLOSURE"}
    InitialMaxN = 3
    MaxPool = 3
    Lines = 2
SYMMETRY Symmetric
SPECIFICATION Spec
INVARIANTS
    TypeOK
    NoAliasing
    InternedStringsKept
    ReachableKept
PROPERTIES
    ValueKept
CHECK_DEADLOCK FALSE
