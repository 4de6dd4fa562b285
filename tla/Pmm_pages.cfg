SPECIFICATION Spec
CONSTANTS
    max_blocks = 5
    WordBits = 3
    Wrap = 16
    FreeStart = 1
    KernelStart = 2
    KernelBlocks = 1
    Shell = shell
    Others = {task}
INVARIANTS
    ReservedKept
    UsedMatchesBits
    ScanFinds
PROPERTY ImplementsAllocator
CHECK_DEADLOCK FALSE
