CONSTANTS
    DevMaxFingers = 2
    DevMtIdx = 2
    Dev1b03Idx = 3
    IdMod <- MCIdMod
    IgnoreMouseButtons = FALSE
SPECIFICATION Spec
PROPERTY SinkStartedOnlyInRawMode
