CONSTANTS
    NULL = NULL
    MaxPid = 3
    Frames = 16
    IMAGE = 1
    MMAP_BASE = 2
    Pages = 4
    Val = {0, 1}
    Scenes <- AllScenes
    MaxExecs = 1
    MaxRefs = 4
SPECIFICATION Spec
INVARIANTS RefsSound WritableIsPrivate
PROPERTIES MemorySpec ForkIsComplete
CHECK_DEADLOCK FALSE
