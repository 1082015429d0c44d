CONSTANTS
    Threads = {t1}
    WORD = 16
    ATOMIC_SIZE = 2
    FIELD_N = 2
    TREE_CHILDREN = 2
    FRAMES = 9
    RETRIES = 2
    Sizes = {1, 2, 4}
    AtSizes = {1, 4}
    Starts = {0, 6, 8}
    Split = TRUE
    FreeAll = {TRUE, FALSE}
    MaxCrashes = 1
SPECIFICATION Spec
INVARIANTS
    Accounted CounterExact NoAbort GetComplete PutAccepted InTree
    StatsExact SearchExact MasksExact
