CONSTANTS
    Str <- MCStr
    MAX_NODES = 1
    MAX_PEERS = 1
    MaxKeys = 5
    Bit = {1}
    MSG_CLOSE_SID = TRUE
    GpTok = {0, 1}
    ForeignTok = {0, 1, 10, 32}
    ForeignQuery = {"Q_PG", "Q_FN", "Q_GP", "Q_AP"}
SPECIFICATION WireSpec
INVARIANTS TypeOK HandlerFields MethodAmongKinds WhatAborts Understood Attributable RepliesFit
