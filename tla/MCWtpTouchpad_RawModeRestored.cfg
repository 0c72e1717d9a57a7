\* Liveness of raw mode after a reconnect, under the fairness of FairSpec.
CONSTANTS
    MaxContacts <- MCMaxContacts
    FingerIds <- MCFingerIds
SPECIFICATION FairSpec
PROPERTY RawModeRestored
