CONSTANTS
    NULL = NULL
    MaxPid = 3
    Frames = 16
    IMAGE = 1
    MMAP_BASE = 2
    Pages = 4
    Val = {0, 1}
    Scenes <- ThreadExecScenes
    MaxExecs = 1
    MaxRefs = 4
SPECIFICATION Spec
INVARIANT SiblingsKeepSpace
CHECK_DEADLOCK FALSE
