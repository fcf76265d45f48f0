SPECIFICATION Spec
CONSTANTS
    Position <- MixedDisc
    AudioTracks = {2}
    Plays <- TrackPlays
    Files <- OneFile
    SeekTargets = {}
    ScanPeriod = 2
    ScanSkip = 3
    SeekTicks = 5
    MaxRoom = 2
    Addresses = 1073741824
    MaxCommands = 2
PROPERTIES
    PlayEnds
