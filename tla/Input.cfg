CONSTANTS
    r1 = r1
    Cols = 2
    Rows = 2
    Readers = {r1}
    KBD_BUF_SIZE = 4
    KbdScenes <- AllKbdScenes
    MOUSE_BUF_SIZE = 3
    Devices <- AllDevices
    MaxReports = 4
    MaxLost = 2
    ReadCalls <- MouseCalls
SPECIFICATION Spec
INVARIANTS EchoMatches LinesWhole MouseInSync NoInputWaits
CHECK_DEADLOCK FALSE
