SPECIFICATION ThreadsSpec
CONSTANTS
    FrameKinds = {"hold", "vberase"}
    VRAMValues = {0, 1}
    RegValues = {0, 1}
    MaxQueue = 2
    MaxLines = 1
    MaxPending = 2
    ProgramMay = {}
PROPERTIES
    DrawnAsSent
