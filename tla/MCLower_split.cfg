CONSTANTS
    Threads = {t1, t2}
    WORD = 8
    ATOMIC_SIZE = 2
    FIELD_N = 2
    TREE_CHILDREN = 2
    FRAMES = 7
    RETRIES = 2
    Sizes = {1, 4}
    AtSizes = {1}
    Starts = {0}
    Split = TRUE
    FreeAll = {FALSE}
    MaxCrashes = 0
SPECIFICATION Spec
SYMMETRY Symmetry
INVARIANT Exclusive
PROPERTY PutRefusedOnlyInSplit
CHECK_DEADLOCK FALSE
