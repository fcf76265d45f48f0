SPECIFICATION ReadingSpec
CONSTANTS
    NumFilters = 3
    NumBuffers = 1
    MaxFad = 1
    Conditions <- AnyCondition
    CDConnectors = {0, 255}
    FilterConnectors = {1, 2, 255}
    Position <- MixedDisc
    AudioTracks = {2}
    Plays <- MixedPlays
    Files <- MixedFiles
    SeekTargets <- MixedTargets
    ScanPeriod = 2
    ScanSkip = 3
    SeekTicks = 3
    MaxRoom = 1
    Addresses = 1073741824
    MaxCommands = 3
INVARIANTS
    TypeOK
    FailInputsUnique
    RoutingComplete
PROPERTIES
    ImplementsStream
    AddressPlayEnds
