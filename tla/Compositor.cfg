CONSTANTS
    comp = comp
    x1 = x1
    x2 = x2
    x3 = x3
    x4 = x4
    NAME_MAX = 3
    Procs = {comp, x1, x2, x3, x4}
    PipeIds = {1, 2}
    MAX_FDS = 7
    PIPE_BUF_SIZE = 1
    Windows = {1, 2}
    MAX_WIN_W = 2
    MAX_WIN_H = 2
    Width = 3
    Height = 2
    Position <- Places
    CursorShape <- Arrow
    ClientPath <- Path
    WindowScenes <- AllWindowScenes
SPECIFICATION Spec
INVARIANTS ScreenSound FrameSync
PROPERTY WindowsClose
CHECK_DEADLOCK FALSE
