CONSTANTS
    Assets = {a, b}
    Copies = {c1, c2}
    MaxHold = 2
    MaxRestarts = 1
SPECIFICATION FairSpec
INVARIANTS TypeOK ExitWithinRecorded
PROPERTY ChecksGoOn
PROPERTY ImplementsAtomicExit
