\* One loop whose values are all on the tree or 0.
CONSTANTS
    Blocks <- MCBlocks
    Programs <- MCGuardedLoop
    MaxRuns = 1
    MaxRounds = 1
    Thresholds <- MCThresholds
SPECIFICATION Spec
INVARIANTS
    LoopsRegenerated
CHECK_DEADLOCK FALSE
