SPECIFICATION FairSpec
CONSTANTS
    Var <- MCVar
    Fn <- MCFn
    main = "main"
    Programs <- TerminationPrograms
PROPERTIES Ends FlaggedByGrowth
CHECK_DEADLOCK FALSE
