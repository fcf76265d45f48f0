SPECIFICATION AudioSpec
CONSTANTS
    BridgeFrames = 4
    RingFrames = 3
    FrameSamples = {1, 2}
    Quantum = 2
    BacklogLimit = 2
    MaxMade = 8
PROPERTIES
    BacklogThrottled
CHECK_DEADLOCK FALSE
