SPECIFICATION Spec
CONSTANTS
    total_clusters = 3
    RootSlots = 2
    DirSlots = 2
    SectorSlots = 1
    CLUSTER_SIZE = 2
    Names = {a, b}
    Texts <- MCTexts
    Garbage = "?"
    MaxOps = 3
SYMMETRY Symmetry
CHECK_DEADLOCK FALSE
INVARIANTS
    ChainsSound
    DirtyTracksDisk
    FilesKept
    SpaceReclaimed
