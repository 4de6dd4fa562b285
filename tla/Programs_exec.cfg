SPECIFICATION Spec
CONSTANTS
    FrameCount = 22
    KernelPages = 1
    TABLE = 1
    WINDOW = 3
    PAGE_SIZE = 2
    ADDRESSES = 8
    BUFFER = 6
    Programs <- MCPrograms
    Tasks = {u1, u2}
    Blocks = {b1, b2, b3}
    OtherPages = {6, 17}
    MaxExecs = 1
SYMMETRY Symmetry
CHECK_DEADLOCK FALSE
INVARIANTS
    ImageExact
    FramesExclusive
    ShellChildren
