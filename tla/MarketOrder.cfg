\* BUY in thousandths of a dollar around the 1.00-1.02 cliff and below a cent;
\* SELL in thousandths of a share around the 0.01 lot; balances on both sides.
CONSTANTS
    BuyAmounts = {9, 10, 505, 999, 1000, 1019, 1020, 2001}
    SellAmounts = {9, 10, 25, 40}
    Balances = {0, 9, 10, 24, 600, 3000}
SPECIFICATION FairSpec
INVARIANTS TypeOK LoopNeverExhausted PostableAmount
PROPERTIES CallEnds ImplementsOneShot
