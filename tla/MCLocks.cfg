SPECIFICATION SynchSpec
CONSTANTS
    main = main
    t1 = t1
    t2 = t2
    s1 = s1
    l1 = l1
    c1 = c1
    idle_thread = idle
    initial_thread = main
    Threads = {main, t1, t2}
    NULL = NULL
    PRI_MIN = 0
    PRI_DEFAULT = 1
    PRI_MAX = 2
    TIME_SLICE = 1
    Semas = {}
    InitValue = 0
    MaxValue = 0
    Locks = {l1}
    Conds = {}
    lockOf <- NoConds
INVARIANTS
    ElemOwnership
    HighestPriorityRuns
    LockExclusion
    OneOwner
PROPERTIES
    ReleaseHandsOver
    ImplementsMutex
