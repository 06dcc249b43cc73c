CONSTANTS
    Elapsed = {0, 60, 130, 300, 620, 880}
    Bids = {2, 41, 47, 52, 97}
SPECIFICATION Spec
INVARIANT HedgedLimitGone
