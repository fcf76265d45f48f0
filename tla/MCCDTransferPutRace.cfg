SPECIFICATION Spec
CONSTANTS
    NumFilters = 1
    NumBuffers = 2
    MaxFad = 1
    Conditions = {}
    CDConnectors = {}
    FilterConnectors = {}
    Mode2 = {}
    Form2 = {}
    Lengths = {2}
    SectorLength = 2
    ExtLength = 2
    InfoLength = 1
    MaxCount = 2
    HostMay = {}
    MaxSaves = 0
PROPERTIES
    StoresWhatWasPut
