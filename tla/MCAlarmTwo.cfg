SPECIFICATION AlarmSpec
CONSTANTS
    main = main
    t1 = t1
    idle_thread = idle
    initial_thread = main
    Threads = {main, t1}
    NULL = NULL
    PRI_MIN = 0
    PRI_DEFAULT = 1
    PRI_MAX = 1
    TIME_SLICE = 1
    HEAD = HEAD
    TAIL = TAIL
    Sleepers = {main, t1}
    SleepTicks = {1, 2}
    MaxTicks = 6
PROPERTIES
    NeverEarly
CHECK_DEADLOCK FALSE
