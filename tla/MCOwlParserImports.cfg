SPECIFICATION Spec
CONSTANTS
    MaxLength = 8
    Sessions <- MCSessions
    Derivable <- MCDerivable
INVARIANT EveryImportKept
CHECK_DEADLOCK FALSE
