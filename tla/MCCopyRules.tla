---------------------------- MODULE MCCopyRules -----------------------------
(* Limits under a dollar, in the 1.00-1.02 band, over it, and none; a      *)
(* multiplier of 0.01, 1 and 0; every exit rule on its own; trades that    *)
(* are too small, too old, of unknown age, just at the band, and far above *)
(* the limit.                                                              *)
EXTENDS CopyRules

Off == [mult |-> 100, revert |-> FALSE, limit |-> 0, maxAge |-> 0,
        takeProfit |-> 0, stopLoss |-> 0, trailing |-> 0]

MCValues ==
    {[Off EXCEPT !.mult = m, !.limit = l, !.revert = (m = 1), !.trailing = 20] :
        m \in {0, 1, 100}, l \in {0, 5000, 10000, 10150, 25000}}
    \cup {[Off EXCEPT !.maxAge = 60, !.takeProfit = 10], [Off EXCEPT !.stopLoss = 10], Off}

MCFiles == [keys : {"kebab-case", "snake_case"}, values : MCValues]

MCTrades ==
    {[side |-> "BUY", size |-> s, price |-> p, known |-> TRUE, age |-> 1] :
        s \in {0, 1, 3, 100}, p \in {0, 34, 70}}
    \cup {[side |-> "BUY", size |-> 3, price |-> 50, known |-> k, age |-> 61] : k \in BOOLEAN}
    \cup {[side |-> "SELL", size |-> 3, price |-> 50, known |-> TRUE, age |-> 1]}
=============================================================================
