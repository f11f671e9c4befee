SPECIFICATION Spec
CONSTANTS
    MaxLength = 8
    Sessions <- MCSessions
    Derivable <- MCDerivable
INVARIANTS StacksInStep SentenceParsed OnlySentencesParsed ErrorsInTime
PROPERTY Terminates
CHECK_DEADLOCK FALSE
