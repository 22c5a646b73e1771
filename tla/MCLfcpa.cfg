SPECIFICATION FairSpec
CONSTANTS
    Var <- MCVar
    Programs <- MCPrograms
INVARIANTS TypeOK UsesSound TransferApplied MatchesDump EdgesCovered LivenessUpToDate LiveOnly DerefsAtIn
PROPERTY Terminates
CHECK_DEADLOCK FALSE
