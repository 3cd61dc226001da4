SPECIFICATION FairSpec
CONSTANTS
    w1 = w1
    w2 = w2
    null = null
    Windows <- OneWindow
    NoWindow = null
    Unreadable <- NoWindows
    PluginLoaded = TRUE
    Patience <- Careful
    MaxSessions = 1
    MaxWrites = 1
    MaxSequences = 0
    MaxLength = 1
    MaxQueue = 0
PROPERTY
    RequestsEnd
