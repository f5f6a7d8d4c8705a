CONSTANTS
    idle = idle
    sh = sh
    p2 = p2
    p3 = p3
    Proc = {idle, sh}
    Idle = idle
    Shell = sh
    NULL = NULL
    NUM_QUEUES = 4
    PRIORITY_BOOST_INTERVAL = 100
    Syscalls = {}
    MaxSleep = 0
    MaxLines = 0
    MaxBytes = 1
    Scenes <- Computing
SPECIFICATION SceneSpec
PROPERTY ReadyRuns
