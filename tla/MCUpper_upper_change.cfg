CONSTANTS
    Threads = {t1, t2}
    TREE_SIZE = 2
    MAX_CLASSES = 2
    Classes = {0, 1}
    DefaultClass = 1
    Policy <- OrderedPolicy
    SCARCE = 1
    LastResort = 0
    FRAMES = 4
    HUGE = 2
    NEAR = 2
    ALIGN = 4
    SEARCH_BEST = 2
    Locals <- SomeLocals
    Calls <- ChangeCalls
    Careful = TRUE
    Full = {TRUE}
    MaxRestarts = 0
SPECIFICATION ContendedSpec
INVARIANTS Conserved OfflineUnused FastStatsExact
PROPERTIES SomeCallReturns ImplementsPool
