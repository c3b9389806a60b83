\* Ten functions, in the small ones with every order of the addresses, each run
\* twice with up to two back edges.  The program ends.
CONSTANTS
    Blocks <- MCBlocks
    Programs <- MCPrograms
    MaxRuns = 2
    MaxRounds = 2
    Thresholds <- MCThresholds
SPECIFICATION Spec
INVARIANTS
    TypeOK
    NumbersUnique
    RegeneratesNumbered
    HotPathsWellFormed
    TreeMaximal
    SplitsSucceed
    CountedAsExecuted
    HotPathsComplete
PROPERTIES
    InstrumentationEnds
CHECK_DEADLOCK FALSE
