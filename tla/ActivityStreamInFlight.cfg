\* The feed may fall silent, the bounds stop it for good: a real end.
CONSTANTS
    Payloads <- MCPayloads
    Concurrency = 1
    MaxSeen = 2
    RevertTrade = TRUE
    AgeFilter = FALSE
    MaxConns = 2
    MaxTasks = 2
SPECIFICATION Spec
INVARIANT InFlightLimited
CHECK_DEADLOCK FALSE
