SPECIFICATION ShellSpec
CONSTANTS
    MaxVersion = 3
    MaxTransactions = 2
PROPERTIES
    ReloadsKeepState
