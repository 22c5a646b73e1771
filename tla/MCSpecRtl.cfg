CONSTANTS
    Names <- MCNames
    Programs <- MCPrograms
    BasisArity <- MCBasisArity
SPECIFICATION Spec
INVARIANT SrtlTypeOK
INVARIANT NumbersDistinct
PROPERTY ExpansionComposes
PROPERTY OverrideFollowsParent
