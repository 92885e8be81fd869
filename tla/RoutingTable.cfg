CONSTANTS
    NCells = 2
    CELL_BYTES = 3
    NoBody <- MCNoBody
    NoChecksum <- MCNoChecksum
    ValidAddr <- MCValidAddr
    Announced <- MCAnnounced
    Byte = {0, 1, 2}
    BODY_LEN = 1
    SUM_LEN = 2
    Ip = {0, 1, 2}
    Port = {0, 1, 2}
    MaxCrashes = 2
SPECIFICATION Spec
INVARIANTS TypeOK Origin TornBound ScanComplete
