CONSTANTS
    Keys = {k1}
    MaxLogs = 2
    Capacity = 1
    Sizes = {1, 2}
    MaxPolls = 4
    MaxCopies = 0
    MaxRefreshes = 0
    MaxFaults = 0
SPECIFICATION Spec
PROPERTY CloseMarked
