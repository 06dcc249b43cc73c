\* The feed may fall silent, the bounds stop it for good: a real end.
CONSTANTS
    Payloads <- MCPayloads
    Concurrency = 1
    MaxSeen = 2
    RevertTrade = TRUE
    AgeFilter = TRUE
    MaxConns = 2
    MaxTasks = 3
SPECIFICATION FairSpec
INVARIANTS TypeOK TakenUpOnce PermitsConserved
PROPERTIES EveryTradeReported ImplementsLifecycle
CHECK_DEADLOCK FALSE
