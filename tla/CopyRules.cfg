\* The bound on the trades of a behaviour stops it for good.
CONSTANTS
    Files <- MCFiles
    Trades <- MCTrades
    Prices = {20, 40, 80}
    MaxCopies = 2
SPECIFICATION Spec
INVARIANTS TypeOK LimitHolds TrackedMatchesPosted AverageBelowMax
CHECK_DEADLOCK FALSE
