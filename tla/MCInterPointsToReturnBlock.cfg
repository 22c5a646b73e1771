SPECIFICATION XSpec
CONSTANTS
    Var <- MCPtaVar
    Fn <- MCPtaFn
    main = "main"
    Programs <- NotFlagged
INVARIANTS UsesSound
