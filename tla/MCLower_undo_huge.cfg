CONSTANTS
    Threads = {t1}
    WORD = 8
    ATOMIC_SIZE = 1
    FIELD_N = 2
    TREE_CHILDREN = 2
    FRAMES = 4
    RETRIES = 2
    Sizes = {1, 2, 4}
    AtSizes = {}
    Starts = {0}
    Split = FALSE
    FreeAll = {TRUE}
    MaxCrashes = 0
SPECIFICATION Spec
INVARIANT Accounted
CHECK_DEADLOCK FALSE
