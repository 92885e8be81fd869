CONSTANTS
    Byte <- MCByte
    After <- MCAfter
    MaxLen = 4
SPECIFICATION Spec
INVARIANTS Correct InBounds
PROPERTY Ends
CHECK_DEADLOCK FALSE
