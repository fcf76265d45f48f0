SPECIFICATION Spec
CONSTANTS
    NumEvents = 2
    NoDeadline = 1000
    Factors <- TwoRatios
    Intervals = {2}
    CallbackIntervals = {1}
    Steps = {3}
    MaxCount = 3
    FactorPhases = {"callback"}
    Commands = {"INTBACK", "SYSRES", "SSHON"}
    MaxRequests = 2
    Internal = {0}
    Masks <- TwoMasks
    HirqMasks <- CommandFlags
    AcknowledgeFirst = TRUE
    Channels = {0, 1}
    Triggers = {"HBlankIN"}
    Kinds = {"list", "illegal", "illegalList"}
    Delays = {2}
    Cycles = {1}
    MaxStops = 1
    Names = {"a", "b"}
    Contents <- TwoContents
    TotalBlocks = 6
    BlockWords = 2
    Cards <- TwoCards
INVARIANTS
    ExecutesAnEvent
    MoreDataIsTrue
    LostOnlyToBreak
    InterruptsAsked
    NothingLeftBehind
    ResponseIntact
    AnswerIsOwn
    FlagInterrupts
    SelectedIsActive
    BlocksAccounted
    GivesBackFiles
PROPERTIES
    AdvanceFiresAllDue
    AdvanceReturns
    FlagReleased
    StartsAreServed
    EndsAreSignalled
    ImportsThatFit
