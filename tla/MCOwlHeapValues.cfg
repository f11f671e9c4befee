CONSTANTS
    c1 = c1
    c2 = c2
    c3 = c3
    Cells = {c1, c2, c3}
    EmptyString = ""
    Strings = {"", "a"}
    ObjectTypes = {"LIST", "CLOSURE"}
    InitialMaxN = 3
    MaxPool = 3
    Lines = 2
SPECIFICATION Spec
PROPERTY ValueAlwaysKept
CHECK_DEADLOCK FALSE
