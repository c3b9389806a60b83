SPECIFICATION FairSpec
CONSTANTS
    C = C
    D = D
    Undef = Undef
    None = None
    Ints <- MCInts
    Consts <- MCConsts
    Ranges <- MCRanges
    UnionWith <- MCUnionWith
    Hull <- MCHull
    Functions <- MCFunctions
    HighDegree = 3
    Eval <- MCEval
INVARIANTS
    PassTypeOK
    ExecutableByEdges
    Settled
    FoldedIsActual
    TakenIsFeasible
    GuessesMarked
PROPERTIES
    ValuesClimb
    SolverEnds
