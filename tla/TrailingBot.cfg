CONSTANTS
    Order <- MCOrder
    BTC = "btc"
    Elapsed = {0, 200, 880}
    Traded <- MCTraded
    Fallback = {"eth", "btc"}
    Asks <- MCAsks
    Stop = 3
SPECIFICATION FairSpec
INVARIANTS TypeOK SnapshotOfOnePeriod OnlyOverlapLeavesOldTokens OnePair
PROPERTY DiscoveryGoesOn
