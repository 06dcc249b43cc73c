CONSTANTS
    Keys = {k1}
    MaxLogs = 1
    Capacity = 1
    Sizes = {1}
    MaxPolls = 4
    MaxCopies = 1
    MaxRefreshes = 1
    MaxFaults = 1
SPECIFICATION FairSpec
INVARIANTS TypeOK LogWindow QuietMeansShown
PROPERTIES NeverForgotten EveryChangeShown
