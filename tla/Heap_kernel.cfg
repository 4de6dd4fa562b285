SPECIFICATION HeapSpec
CONSTANTS
    PAGE_SIZE = 16
    Frames = {1, 2, 3, 4, 5}
    HEAP_INITIAL_PAGES = 2
    HEAP_MAX_PAGES = 3
    Sizes = {1, 2, 4, 14}
    MaxLive = 5
CHECK_DEADLOCK FALSE
INVARIANTS
    BlocksTileHeap
    KindsDistinct
    PagesAccounted
