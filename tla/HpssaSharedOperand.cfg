\* A phi with equal operands, two hot paths.
CONSTANTS
    Blocks <- MCBlocks
    Programs <- SharedOperand
    MaxHot = 2
    X = X  Y = Y  Z = Z  W = W
    I1 = I1  I2 = I2  I3 = I3  I4 = I4
    K1 = K1  K2 = K2  K3 = K3  K4 = K4
SPECIFICATION PipelineSpec
INVARIANT UsesDominated
CHECK_DEADLOCK FALSE
