\* Three programs with every choice of at most three hot paths, HPSSA and then
\* TDestruction.
CONSTANTS
    Blocks <- MCBlocks
    Programs <- MCPrograms
    MaxHot = 3
    X = X  Y = Y  Z = Z  W = W
    I1 = I1  I2 = I2  I3 = I3  I4 = I4
    K1 = K1  K2 = K2  K3 = K3  K4 = K4
SPECIFICATION PipelineSpec
INVARIANTS
    TypeOK
    InnermostTau
    NoSpuriousTau
    StackDiscipline
    HotArgsComplete
    RestoresOriginal
PROPERTY PipelineTerminates
CHECK_DEADLOCK FALSE
