SPECIFICATION SchedSpec
CONSTANTS
    main = main
    t1 = t1
    t2 = t2
    idle_thread = idle
    initial_thread = main
    Threads = {main, t1, t2}
    NULL = NULL
    PRI_MIN = 0
    PRI_DEFAULT = 1
    PRI_MAX = 2
    TIME_SLICE = 2
INVARIANTS
    SchedTypeOK
    RunQueueOwnership
    RunQueueSorted
    HighestPriorityRuns
PROPERTIES
    NeverYieldsDown
    TopPriorityRuns
