SPECIFICATION FiniteThreadsSpec
CONSTANTS
    KernelTask = k
    Threads = {t1, t2, t3}
    UserTasks = {}
    NULL = NULL
    SCHEDULER_TIME_SLICE_MS = 1
    TickWrap = 4
    SleepMs = {1, 2}
PROPERTIES
    SleeperWakes
CHECK_DEADLOCK FALSE
