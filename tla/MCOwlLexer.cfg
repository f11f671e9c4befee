SPECIFICATION Spec
CONSTANT Inputs <- MCInputs
INVARIANTS LexedByPatterns LongestMatch
PROPERTY ReadToTheEnd
CHECK_DEADLOCK FALSE
