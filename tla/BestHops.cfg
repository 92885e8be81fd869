CONSTANTS
    BYTE_BITS = 2
    NIH_LEN = 3
    MAX_GP_PNODES = 2
    BULLSHIT_DKAD = 2
    Target <- MCTarget
    Node <- MCNode
    MaxNodes = 4
SPECIFICATION HopsSpec
INVARIANTS BestIsSorted FillerIsFirst NearerByBytes
