SPECIFICATION OrderlySpec
CONSTANTS
    NumFilters = 2
    NumBuffers = 2
    MaxFad = 2
    Conditions = {}
    CDConnectors = {0}
    FilterConnectors = {}
    Mode2 = {1, 2}
    Form2 = {2}
    Lengths = {1, 2}
    SectorLength = 1
    ExtLength = 2
    InfoLength = 1
    MaxCount = 2
    HostMay = {}
    MaxSaves = 0
    FrameKinds = {"hold", "cycle", "vberase"}
    VRAMValues = {0, 1}
    RegValues = {0, 1}
    MaxQueue = 2
    MaxLines = 1
    MaxPending = 2
    ProgramMay = {}
INVARIANTS
    TypeOK
    BuffersConserved
    ReservationBacked
    SectorsSentInFull
    ReservationOwned
    LinesAreCurrent
PROPERTIES
    DeletesWhatItSent
    SwapIsComplete
    ReadsAreCurrent
