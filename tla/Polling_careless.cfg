SPECIFICATION Spec
CONSTANTS
    w1 = w1
    w2 = w2
    null = null
    Windows <- TwoWindows
    NoWindow = null
    Unreadable <- OneUnreadable
    PluginLoaded = TRUE
    Patience <- Careless
    MaxSessions = 2
    MaxWrites = 1
    MaxSequences = 1
    MaxLength = 1
    MaxQueue = 0
CONSTRAINT ShortPosted
INVARIANTS
    WorkConserving
    NoDangling
