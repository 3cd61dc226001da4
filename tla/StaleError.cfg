SPECIFICATION Spec
CONSTANTS
    w1 = w1
    w2 = w2
    null = null
    Windows <- OneWindow
    NoWindow = null
    Unreadable <- NoWindows
    PluginLoaded = TRUE
    Patience <- WaitsForDeviceId
    MaxSessions = 1
    MaxWrites = 0
    MaxSequences = 1
    MaxLength = 1
    MaxQueue = 0
INVARIANT
    NoUndefinedBehaviour
