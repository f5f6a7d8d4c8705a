CONSTANTS
    p1 = p1  p2 = p2  p3 = p3  p4 = p4
    Proc = {p1, p2, p3, p4}
    NULL = NULL
    PIPE_BUF_SIZE = 2
    Byte = {0, 1}
    MAX_FDS = 3
    MaxCount = 2
    Scenes <- AllScenes
SPECIFICATION WaitsSpec
CONSTRAINT Uncrossed
INVARIANTS NoLostWakeup WaitersSound RefsExact
PROPERTIES FifoSpec HangupReaches
CHECK_DEADLOCK FALSE
