\* The programs of MCHpssa and three more, with every choice of at most
\* three hot paths, the first HPSSA pass and then TDestruction.
CONSTANTS
    Blocks <- MCBlocks
    Programs <- FirstPrograms
    MaxHot = 3
    X = X  Y = Y  Z = Z  W = W
    I1 = I1  I2 = I2  I3 = I3  I4 = I4
    K1 = K1  K2 = K2  K3 = K3  K4 = K4
SPECIFICATION FirstSpec
INVARIANTS
    TypeOK
    InnermostTau
    ArgsAlive
    RestoresOriginal
    DefsFlow
CHECK_DEADLOCK FALSE
