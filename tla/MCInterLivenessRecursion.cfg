SPECIFICATION Spec
CONSTANTS
    Var <- MCVar
    Fn <- MCFn
    main = "main"
    Programs <- Recursive
INVARIANT DoneMeansDone
CHECK_DEADLOCK FALSE
