CONSTANTS
    idle = idle
    sh = sh
    p2 = p2
    p3 = p3
    Proc = {idle, sh, p2, p3}
    Idle = idle
    Shell = sh
    NULL = NULL
    NUM_QUEUES = 2
    PRIORITY_BOOST_INTERVAL = 2
    Syscalls = {"fork", "exit", "wait", "sleep", "read"}
    MaxSleep = 1
    MaxLines = 2
    MaxBytes = 2
    Scenes <- AllScenes
SPECIFICATION SceneSpec
INVARIANTS ResumeSound QueueSound NoLostKbdWakeup
PROPERTIES PicksHighest ReapSafe QueuedRuns
