SPECIFICATION Spec
CONSTANTS
    MAX_STATE = 13
    Requests <- MCRequests
INVARIANTS SetOfStates MatchAsMeant WithinArena
CHECK_DEADLOCK FALSE
