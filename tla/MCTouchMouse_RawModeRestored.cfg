CONSTANTS
    DevMaxFingers = 1
    DevMtIdx = 2
    Dev1b03Idx = 3
    IdMod <- MCIdMod
    IgnoreMouseButtons = TRUE
SPECIFICATION FairSpec
PROPERTY RawModeRestored
