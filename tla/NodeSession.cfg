CONSTANTS
    NumNodes = 2
    Probers = {p1}
    Builders = {b1, b2}
SPECIFICATION Spec
SYMMETRY Symm
CONSTRAINT NoneAstray
INVARIANTS PingsUncrossed
