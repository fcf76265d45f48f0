SPECIFICATION Spec
CONSTANTS
    Modes <- TwoModes
    ReadLead = 1
    Requests <- TwoRequests
    FrameKinds = {"hold", "cycle", "vberase"}
    VRAMValues = {0}
    RegValues = {0}
    MaxQueue = 2
    MaxLines = 1
    MaxPending = 2
    ProgramMay = {}
    BridgeFrames = 4
    RingFrames = 3
    FrameSamples = {1, 2}
    Quantum = 2
    BacklogLimit = 2
    MaxMade = 8
    MaxVersion = 3
    MaxTransactions = 2
PROPERTIES
    OncePerFrame
    DrawsOnErased
    RequestTakenUp
    CallsReturn
    SoundInOrder
    StoredNeverOlder
    SavesAreStored
