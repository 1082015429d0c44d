CONSTANTS
    Threads = {t1, t2}
    ATOMIC_SIZE = 2
    FIELD_N = 1
    TREE_CHILDREN = 1
    FRAMES = 3
    RETRIES = 1
    Starts = {0, 2}
    Split = TRUE
    FreeAll = {TRUE, FALSE}
    MaxCrashes = 1
    MAX_CLASSES = 1
    Classes = {0}
    DefaultClass = 0
    Policy <- OrderedPolicy
    SCARCE = 1
    LastResort = 0
    NEAR = 2
    ALIGN = 4
    SEARCH_BEST = 2
    Locals <- OneLocal
    Calls <- FewCalls
SPECIFICATION Spec
SYMMETRY Symmetry
INVARIANT ValidWhenQuiet
PROPERTY ImplementsUpper
CHECK_DEADLOCK FALSE
