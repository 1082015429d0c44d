CONSTANTS
    Threads = {t1}
    WORD = 8
    ATOMIC_SIZE = 1
    FIELD_N = 4
    TREE_CHILDREN = 1
    FRAMES = 4
    RETRIES = 2
    Sizes = {1}
    AtSizes = {2}
    Starts = {0}
    Split = FALSE
    FreeAll = {TRUE}
    MaxCrashes = 0
SPECIFICATION Spec
INVARIANT NoAbort
CHECK_DEADLOCK FALSE
