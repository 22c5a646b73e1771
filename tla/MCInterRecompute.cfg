SPECIFICATION AFairSpec
CONSTANTS
    Var <- MCPtaVar
    Fn <- MCPtaFn
    main = "main"
    Programs <- AllPrograms
INVARIANTS PtaTypeOK UsesSound ContextsDescend PtaNoStrandedBlock PcsmapPartitions PcsmapLhsCovers MatchesRecordedRun ExportSound NothingLeftForLiveness
PROPERTY PtaEnds
