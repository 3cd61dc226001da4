SPECIFICATION Spec
CONSTANTS
    OpenedKinds = {"CoilsDisplay"}
    Applied <- AppliedSet
    SettingsOf <- SettingsSet
    Spoilt <- SpoiltSet
    MaxWindows = 2
    MaxTrends = 2
    MaxRestores = 2
INVARIANTS
    TypeOK
    LifeCycleKept
    NoOrphans
PROPERTIES
    RestoreExact
    SavedRestores
    FailureKeepsSettings
CHECK_DEADLOCK FALSE
