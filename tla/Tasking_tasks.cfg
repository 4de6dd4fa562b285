SPECIFICATION Spec
CONSTANTS
    KernelTask = k
    Threads = {t1, t2}
    UserTasks = {u1}
    NULL = NULL
    SCHEDULER_TIME_SLICE_MS = 2
    TickWrap = 4
    SleepMs = {1}
SYMMETRY Symmetry
INVARIANTS
    TypeOK
    OneRunning
    PickStillValid
    EoiIsOwed
    InterruptsReachShell
    RingOpenOnlyInAdd
PROPERTIES
    ScheduleNotReentered
    DeadStaysDead
CHECK_DEADLOCK FALSE
