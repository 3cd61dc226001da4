SPECIFICATION Spec
CONSTANTS
    Byte = 256
    Kinds = {"holding"}
    LastRegister = 1
    MaxCount = 1
    Nodes = {3}
    Tables <- TableSet
    Windows <- WindowSet
    ImportNodes = {1, 255}
    MaxCoils = 3
    MaxHolding = 2
    MaxEdits = 1
INVARIANTS
    TypeOK
    RoundTrip
    WritesExact
    WritesFit
CHECK_DEADLOCK FALSE
