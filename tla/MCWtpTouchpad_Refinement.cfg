\* WtpTouchpad implements the abstract tracker of ContactTracker under the
\* refinement mapping TrackedActive / TrackedFrame.
CONSTANTS
    MaxContacts <- MCMaxContacts
    FingerIds <- MCFingerIds
SPECIFICATION Spec
PROPERTY TrackerSpec
