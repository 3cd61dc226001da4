SPECIFICATION Spec
CONSTANTS
    Byte = 4
    Kinds = {"coils", "inputs", "registers", "holding"}
    LastRegister = 2
    MaxCount = 2
    Nodes = {0, 1}
    DeviceWords = {0, 11}
    DeviceEncoding <- EncodingMap
    Node = 0
    TypedTexts <- TypedSet
    Starts = {2}
    Counts = {1, 2}
    MaxClicks = 2
    MaxSequences = 2
INVARIANTS
    TypeOK
    DeviceNeverWrites
    RefreshTracked
    LabelsMatch
    MetadataComplete
    EditedRowExists
    ReturnIsHarmless
PROPERTIES
    EditKept
