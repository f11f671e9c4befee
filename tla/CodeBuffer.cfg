SPECIFICATION Spec
CONSTANTS
    Capacity = 5
    MaxDepth = 3
INVARIANTS TypeOK OnlyHolesUnwritten JumpsIntoCode
PROPERTY WrittenOnce
CHECK_DEADLOCK FALSE
