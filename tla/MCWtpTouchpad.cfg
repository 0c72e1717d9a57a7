CONSTANTS
    MaxContacts <- MCMaxContacts
    FingerIds <- MCFingerIds
SPECIFICATION Spec
INVARIANT TypeOK
INVARIANT FrameContactsExact
