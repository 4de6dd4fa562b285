SPECIFICATION FairSpec
CONSTANTS
    KernelTask = k
    Threads = {t1, t2}
    UserTasks = {}
    NULL = NULL
    SCHEDULER_TIME_SLICE_MS = 1
    TickWrap = 4
    SleepMs = {1}
PROPERTIES
    TimerReturns
CHECK_DEADLOCK FALSE
