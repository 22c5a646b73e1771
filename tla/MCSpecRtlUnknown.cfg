CONSTANTS
    Names <- MCNames
    Programs <- UnknownOperator
    BasisArity <- MCBasisArity
SPECIFICATION Spec
PROPERTY OutputIsOwn
