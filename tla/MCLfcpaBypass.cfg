SPECIFICATION Spec
CONSTANTS
    Var <- MCVar
    Programs <- LookedThroughByOne
INVARIANTS UsesSound
CHECK_DEADLOCK FALSE
