SPECIFICATION FairSpec
CONSTANTS
    w1 = w1
    w2 = w2
    null = null
    Windows <- TwoWindows
    NoWindow = null
    Unreadable <- NoWindows
    PluginLoaded = TRUE
    Patience <- Careful
    MaxSessions = 1
    MaxWrites = 1
    MaxSequences = 1
    MaxLength = 1
    MaxQueue = 1
PROPERTIES
    CloseReturns
    PollStarts
