SPECIFICATION XSpec
CONSTANTS
    Var <- MCPtaVar
    Fn <- MCPtaFn
    main = "main"
    Programs <- Handovers
INVARIANTS HandedOver
