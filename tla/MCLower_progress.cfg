CONSTANTS
    Threads = {t1, t2}
    WORD = 8
    ATOMIC_SIZE = 1
    FIELD_N = 2
    TREE_CHILDREN = 2
    FRAMES = 4
    RETRIES = 2
    Sizes = {1, 2, 4}
    AtSizes = {1, 4}
    Starts = {0}
    Split = TRUE
    FreeAll = {TRUE, FALSE}
    MaxCrashes = 0
SPECIFICATION ContendedSpec
PROPERTY SomeCallReturns
CHECK_DEADLOCK FALSE
