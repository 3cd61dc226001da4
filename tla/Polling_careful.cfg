SPECIFICATION Spec
CONSTANTS
    w1 = w1
    w2 = w2
    null = null
    Windows <- TwoWindows
    NoWindow = null
    Unreadable <- NoWindows
    PluginLoaded = TRUE
    Patience <- Careful
    MaxSessions = 2
    MaxWrites = 2
    MaxSequences = 1
    MaxLength = 2
    MaxQueue = 1
SYMMETRY WindowSymmetry
INVARIANTS
    TypeOK
    SingleRequestResponse
    ReplyAttribution
    DeviceIdAttribution
    WorkConserving
    NoDangling
    WritesFaithful
    RawPduOwned
    NoUndefinedBehaviour
    NoThreadAfterExit
