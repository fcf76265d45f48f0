SPECIFICATION Spec
CONSTANTS
    NumFilters = 1
    NumBuffers = 2
    MaxFad = 2
    Conditions = {}
    CDConnectors = {0}
    FilterConnectors = {}
    Mode2 = {1, 2}
    Form2 = {1}
    Lengths = {4}
    SectorLength = 4
    ExtLength = 5
    InfoLength = 1
    MaxCount = 0
    HostMay = {}
    MaxSaves = 0
INVARIANTS
    WholeSectorsSent
