CONSTANTS
    Files <- MCFiles
    Trades <- MCTrades
    Prices = {20, 40, 80}
    MaxCopies = 0
SPECIFICATION Spec
INVARIANT DocumentedKeysRead
CHECK_DEADLOCK FALSE
