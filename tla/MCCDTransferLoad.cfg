SPECIFICATION Spec
CONSTANTS
    NumFilters = 1
    NumBuffers = 2
    MaxFad = 2
    Conditions = {}
    CDConnectors = {0}
    FilterConnectors = {}
    Mode2 = {}
    Form2 = {}
    Lengths = {2}
    SectorLength = 2
    ExtLength = 2
    InfoLength = 1
    MaxCount = 2
    HostMay = {"savestate"}
    MaxSaves = 1
PROPERTIES
    DeletesWhatItSent
