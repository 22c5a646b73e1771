SPECIFICATION Spec
CONSTANTS
    Var <- MCVar
    Fn <- MCFn
    main = "main"
    Programs <- MCPrograms
INVARIANTS TypeOK NoStrandedBlock DoneMeansDone MapPartitionsContexts LhsCoversRhs BlocksSolved CallsSolved
PROPERTY Scheduled
CHECK_DEADLOCK FALSE
