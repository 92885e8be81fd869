CONSTANTS
    NCells = 2
    CELL_BYTES = 2
    NoBody = 0
    NoChecksum = 0
    ValidAddr <- MCValidAddr
    PeerNode <- MCPeerNode
    BOOTSTRAP <- MCBootstrapNode
    RX <- MCRX
    PG <- MCPG
SPECIFICATION Spec
PROPERTIES Bootstrapped KeepsPinging
