\* One hot path around a shortcut is enough.
CONSTANTS
    Blocks <- MCBlocks
    Programs <- MCPrograms
    MaxHot = 1
SPECIFICATION Spec
INVARIANT PathsFromParent
CHECK_DEADLOCK FALSE
