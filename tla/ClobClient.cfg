\* In a cold start a caller that is dropped while it creates the client, a
\* creation that panics, or a missed notification leaves the others waiting for
\* ever, so the system really can stop.
CONSTANTS
    Callers = {main, c1, c2, c3}
    Main = main
    Cancellable = {c1, c2}
SPECIFICATION FairSpec
INVARIANTS TypeOK OneClient WarmCallersNeverWait
PROPERTIES ImplementsOnceCell EveryCallEnds
CHECK_DEADLOCK FALSE
