CONSTANTS
    p1 = p1  p2 = p2  p3 = p3  p4 = p4
    Proc = {p1, p2, p3, p4}
    NULL = NULL
    PIPE_BUF_SIZE = 1
    Byte = {0}
    MAX_FDS = 3
    MaxCount = 1
    Scenes <- CloserScenes
SPECIFICATION WaitsSpec
PROPERTY EveryReaderWoken
CHECK_DEADLOCK FALSE
