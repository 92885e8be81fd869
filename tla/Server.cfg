CONSTANTS
    NCells = 2
    CELL_BYTES = 1
    NoBody = 0
    NoChecksum = 0
    ValidAddr <- MCValidAddr
    N_BINS = 2
    GP_MAX_HOPS = 1
    CTL_GPM_TIMEOUT = 0
    NoIh = NoIh
    BYTE_BITS = 2
    NIH_LEN = 2
    MAX_GP_PNODES = 2
    BULLSHIT_DKAD = 1
    Peer <- MCPeer
    Ih <- MCIh
    DKAD <- MCDKAD
    GPKEY <- MCGPKEY
    Rx <- MCRx
    BOOTSTRAP <- p2
    Tables <- MCTables
    Drops <- MCDrops
    RX <- MCRX
    PG <- MCPG
    GP <- MCGP
    MaxRx = 3
    MaxEpochs = 1
    MaxBoots = 1
    MaxNow = 1
SPECIFICATION Spec
INVARIANTS Accounts SpamBudgets FirstHand HandsOutHeard
CHECK_DEADLOCK FALSE
