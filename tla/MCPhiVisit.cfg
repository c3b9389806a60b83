\* Phis with one operand, with two, and with more than HighDegree.
CONSTANTS
    Ints <- MCInts
    Consts = {C, D}
    C = C  D = D
    Undef = Undef
    None = None
    Ranges <- MCRanges
    UnionWith <- MCUnionWith
    Degrees = {1, 2, 3}
    HighDegree = 2
    Operands <- MCOperands
SPECIFICATION Spec
INVARIANTS
    TypeOK
    PhiCovers
PROPERTIES
    PhiClimbs
    ChangesQueued
