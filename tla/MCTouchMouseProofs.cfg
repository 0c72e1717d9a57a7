CONSTANTS
    DevMaxFingers = 2
    DevMtIdx = 2
    Dev1b03Idx = 3
    IdMod <- MCIdMod
    IgnoreMouseButtons = FALSE
SPECIFICATION Spec
INVARIANT TypeOK
INVARIANT IdInRange
INVARIANT NoStuckButton
INVARIANT TrackerInv
PROPERTY TrackingIdStable
PROPERTY ButtonOwnedBySetter
PROPERTY TrackerSpec
