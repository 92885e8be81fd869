CONSTANTS
    Table = {"rx", "ping"}
    Key = {k1, k2}
    MAX_TOKENS <- MCMaxTokens
    WITHDRAW <- MCWithdraw
    REPLENISH <- MCReplenish
    NoAnswer = NoAnswer
    MaxEpochs = 4
SPECIFICATION Spec
INVARIANTS TypeOK Budget
PROPERTY ImplementsBuckets
