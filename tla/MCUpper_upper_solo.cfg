CONSTANTS
    Threads = {t1}
    TREE_SIZE = 2
    MAX_CLASSES = 2
    Classes = {0, 1}
    DefaultClass = 1
    Policy <- OrderedPolicy
    SCARCE = 1
    LastResort = 0
    FRAMES = 5
    HUGE = 2
    NEAR = 2
    ALIGN = 4
    SEARCH_BEST = 2
    Locals <- TwoLocals
    Calls <- SoloCalls
    Careful = TRUE
    Full = {TRUE, FALSE}
    MaxRestarts = 1
SPECIFICATION Spec
INVARIANTS Conserved OutOfMemoryExact MemoryApart
PROPERTY ImplementsPool
