\* Every order of the predecessors of every block, on six small functions with
\* every choice of at most three hot paths.
CONSTANTS
    Blocks <- MCBlocks
    Programs <- MCPrograms
    MaxHot = 3
SPECIFICATION Spec
INVARIANTS
    TypeOK
    BuddiesDisjoint
    HotPathsCarried
PROPERTIES
    SelfLoopHarmless
    ImplementsPartition
    Terminates
CHECK_DEADLOCK FALSE
