CONSTANTS
    sh = sh
    p1 = p1
    p2 = p2
    p3 = p3
    t1 = t1
    t2 = t2
    idle_process = idle_process
    NAME_MAX = 3
    Procs = {sh, p1, p2, p3}
    PipeIds = {1, 2, 3}
    MAX_FDS = 8
    PIPE_BUF_SIZE = 2
    ShellScenes <- AllShellScenes
    MAX_STAGES = 4
    MAX_ARGS = 2
    CatBuf = 2
    LsBuf = 5
    Bin <- B
    CatName <- C
    LsName <- L
    ShName <- S
    ExitName <- Exit
    Words <- AllWords
    Tasks = {t1, t2}
    MaxBytes = 2
SPECIFICATION Spec
INVARIANTS EndsSound PipelineOutput LookupExact OneCopyInFlight
PROPERTY PromptReturns
CHECK_DEADLOCK FALSE
