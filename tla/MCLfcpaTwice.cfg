SPECIFICATION Spec
CONSTANTS
    Var <- MCVar
    Programs <- Twice
INVARIANTS TransferApplied
CHECK_DEADLOCK FALSE
