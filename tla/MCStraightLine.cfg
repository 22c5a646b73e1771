SPECIFICATION Spec
CONSTANTS
    Var <- MCVar
    Families <- MCFamilies
INVARIANTS TypeOK Normal Sound MustIsDefinite JoinOrderIrrelevant
PROPERTY JoinLosesNothing
CHECK_DEADLOCK FALSE
