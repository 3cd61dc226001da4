SPECIFICATION Spec
CONSTANTS
    Byte = 4
    NumKeys = 2
    InitialPoints = 2
    MinPoints = 2
    PointChoices = {2, 3}
    LimitChoices <- LimitSet
    LineChoices <- LineSet
    MaxRounds = 4
    MaxClicks = 2
INVARIANTS
    TypeOK
    Redrawable
    OncePerRound
    Aged
    LimitsCover
PROPERTIES
    RestoresAlike
    Implements
CHECK_DEADLOCK FALSE
