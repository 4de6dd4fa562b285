SPECIFICATION Spec
CONSTANTS
    KernelTask = k
    Threads = {}
    UserTasks = {u1}
    NULL = NULL
    SCHEDULER_TIME_SLICE_MS = 2
    TickWrap = 4
    SleepMs = {1}
INVARIANTS
    ContextSaved
CHECK_DEADLOCK FALSE
