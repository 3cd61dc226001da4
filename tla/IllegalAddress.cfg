SPECIFICATION Spec
CONSTANTS
    w1 = w1
    w2 = w2
    null = null
    Windows <- TwoWindows
    NoWindow = null
    Unreadable <- OneUnreadable
    PluginLoaded = TRUE
    Patience <- Careful
    MaxSessions = 1
    MaxWrites = 0
    MaxSequences = 0
    MaxLength = 1
    MaxQueue = 0
INVARIANT
    SingleRequestResponse
