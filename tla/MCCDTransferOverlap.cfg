SPECIFICATION Spec
CONSTANTS
    NumFilters = 1
    NumBuffers = 1
    MaxFad = 2
    Conditions = {}
    CDConnectors = {0}
    FilterConnectors = {}
    Mode2 = {}
    Form2 = {}
    Lengths = {1}
    SectorLength = 1
    ExtLength = 2
    InfoLength = 1
    MaxCount = 1
    HostMay = {"restart", "savestate"}
    MaxSaves = 1
INVARIANTS
    BuffersConserved
    ReservationBacked
