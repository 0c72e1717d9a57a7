CONSTANTS
    ByteVals <- MCByteVals
    IntBits <- MCIntBits
SPECIFICATION Spec
\* Each decoder call handles one buffer and returns: a behaviour ends once
\* its input is decoded.
CHECK_DEADLOCK FALSE
INVARIANT FingerIdLowNibble
