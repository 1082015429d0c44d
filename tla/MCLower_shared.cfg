CONSTANTS
    Threads = {t1, t2}
    WORD = 8
    ATOMIC_SIZE = 1
    FIELD_N = 4
    TREE_CHILDREN = 2
    FRAMES = 6
    RETRIES = 2
    Sizes = {1, 2, 4}
    AtSizes = {1}
    Starts = {2}
    Split = FALSE
    FreeAll = {TRUE}
    MaxCrashes = 1
SPECIFICATION Spec
SYMMETRY Symmetry
INVARIANTS TypeOK Exclusive Accounted CounterExact NoAbort
PROPERTY ImplementsOwnership
