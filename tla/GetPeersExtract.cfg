CONSTANTS
    n1 = n1
    n2 = n2
    Node = {n1, n2}
    CHECKSUM <- MCChecksum
    Ih = {h1, h2}
    NoIh = NoIh
    N_BINS = 2
    GP_MAX_HOPS = 1
    CTL_GPM_TIMEOUT = 0
    MAX_GP_PNODES = 2
    MaxQueries = 4
    MaxNow = 1
SPECIFICATION Spec
PROPERTY ExtractDeletes
