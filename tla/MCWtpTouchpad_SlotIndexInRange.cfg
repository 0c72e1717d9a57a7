CONSTANTS
    MaxContacts <- MCMaxContacts
    FingerIds <- MCBadFingerIds
SPECIFICATION Spec
INVARIANT SlotIndexInRange
