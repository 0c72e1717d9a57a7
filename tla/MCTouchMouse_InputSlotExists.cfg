\* A three-finger mouse: input_mt_init_slots(MAX(2, max_fingers)) at probe
\* creates three slots only if the probe's negotiation succeeded.
CONSTANTS
    DevMaxFingers = 3
    DevMtIdx = 2
    Dev1b03Idx = 3
    IdMod <- MCIdMod
    IgnoreMouseButtons = TRUE
SPECIFICATION Spec
INVARIANT InputSlotExists
