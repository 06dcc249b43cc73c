-------------------------- MODULE CopyRulesProofs ---------------------------
(* What is proved of CopyRules, for every trade.toml, every sequence of    *)
(* trades and every price.                                                 *)
EXTENDS CopyRules, TLAPS

LEMMA ProductNat == \A m, n \in Nat : m * n \in Nat
OBVIOUS

LEMMA QuotientNat == \A m \in Nat, n \in Nat \ {0} : m \div n \in Nat /\ n * (m \div n) <= m
OBVIOUS

\* The weighted average of prices that do not exceed m does not exceed m.
LEMMA AverageBounded ==
    ASSUME NEW cost \in Nat, NEW size \in Nat, NEW max \in Nat, NEW price \in Nat,
           NEW shares \in Nat, NEW m \in Nat,
           cost <= max * size, max <= m, price <= m
    PROVE  cost + price * shares <= m * (size + shares)
<1>1. max * size <= m * size
  OBVIOUS
<1>2. price * shares <= m * shares
  OBVIOUS
<1>3. m * (size + shares) = m * size + m * shares
  OBVIOUS
<1>4. /\ max * size \in Nat /\ m * size \in Nat /\ price * shares \in Nat /\ m * shares \in Nat
  BY ProductNat
<1> QED BY <1>1, <1>2, <1>3, <1>4

\* normalize_buy_usdc_amount rounds down to a cent, except in its band.
LEMMA NormalizeBound ==
    ASSUME NEW a \in Nat
    PROVE  LET n == (a \div Cent) * Cent
           IN  n \in Nat /\ n <= a /\ a < n + Cent
BY DEF Cent

LEMMA FileFacts ==
    ASSUME NEW f \in Files
    PROVE  Load(f) \in Values
<1>1. f \in FileType
  BY RulesAssumption
<1>2. f.values \in Values
  BY <1>1 DEF FileType
<1>3. Defaults \in Values
  BY DEF Defaults, Values
<1> QED BY <1>2, <1>3 DEF Load

LEMMA SizingNat ==
    ASSUME config \in Values, NEW t \in Trades, ~TooSmall(t)
    PROVE  Amount(t) \in Nat /\ Tracked(t) \in Nat /\ Posts(t) \subseteq Nat
<1>1. t \in TradeType
  BY RulesAssumption
<1>2. t.size \in Nat /\ t.price \in Nat /\ config.mult \in Nat /\ config.limit \in Nat
  BY <1>1 DEF TradeType, Values
<1>3. t.size * config.mult \in Nat /\ t.size * t.price * config.mult \in Nat
  BY <1>2, ProductNat
<1>4. Amount(t) \in Nat
  BY <1>2, <1>3 DEF Amount
<1>5. Tracked(t) \in Nat
  <2>1. CASE t.side = "BUY"
    <3>1. t.price \in Nat \ {0}
      BY <1>2, <2>1 DEF TooSmall
    <3>2. config.limit \div t.price \in Nat
      BY <1>2, <3>1, QuotientNat
    <3> QED BY <1>3, <3>2 DEF Tracked
  <2>2. CASE t.side # "BUY"
    BY <1>3, <2>2 DEF Tracked
  <2> QED BY <2>1, <2>2
<1>6. Normalized(t) \in Nat
  BY <1>4, NormalizeBound DEF Normalized, MinMarketable, Dollar, Cent
<1>7. Posts(t) \subseteq Nat
  BY <1>4, <1>6 DEF Posts, MinMarketable, Dollar, Cent
<1> QED BY <1>4, <1>5, <1>7

\* What a BUY may be executed for: its amount rounded down to a cent, 1.01 for
\* an amount in the band, or 1.01 where less was refused.
LEMMA PostsOfBuy ==
    ASSUME NEW t \in Trades, t.side = "BUY", Amount(t) \in Nat, NEW p \in Posts(t)
    PROVE  LET n == (Amount(t) \div Cent) * Cent
           IN  /\ n \in Nat /\ n <= Amount(t) /\ Amount(t) < n + Cent
               /\ \/ p = n
                  \/ p = MinMarketable /\ n <= p
<1> DEFINE n == (Amount(t) \div Cent) * Cent
<1>1. n \in Nat /\ n <= Amount(t) /\ Amount(t) < n + Cent
  BY NormalizeBound
<1>2. Normalized(t) = IF n >= Dollar /\ n < Dollar + 2 * Cent THEN MinMarketable ELSE n
  BY DEF Normalized
<1>3. p = Normalized(t) \/ (p = MinMarketable /\ Normalized(t) < MinMarketable)
  BY DEF Posts
<1>4. n % Cent = 0
  BY DEF Cent
<1> HIDE DEF n
<1>5. n >= Dollar /\ n < Dollar + 2 * Cent => n <= MinMarketable
  BY <1>1, <1>4 DEF MinMarketable, Dollar, Cent
<1> QED BY <1>1, <1>2, <1>3, <1>5 DEF MinMarketable, Dollar, Cent, n

Inv == TypeOK /\ AverageBelowMax

LEMMA InitInv == Init => Inv
<1> SUFFICES ASSUME Init PROVE Inv
  OBVIOUS
<1>1. config \in Values
  BY FileFacts DEF Init
<1>2. NoCopy \in [kind : {"none", "filtered", "skipped", "placed"},
                  amount : Nat, tracked : Nat, posted : Nat]
  BY DEF NoCopy
<1>3. NoEntry \in [size : Nat, cost : Nat, max : Nat] /\ NoEntry.cost <= NoEntry.max * NoEntry.size
  BY DEF NoEntry
<1> QED BY <1>1, <1>2, <1>3, RulesAssumption DEF Init, Inv, TypeOK, AverageBelowMax

LEMMA InvArrives ==
    ASSUME Inv, NEW t \in Trades, TradeArrives(t)
    PROVE  Inv'
<1> USE DEF Inv, TypeOK
<1> DEFINE Copy == [kind : {"none", "filtered", "skipped", "placed"},
                    amount : Nat, tracked : Nat, posted : Nat]
<1>1. copy' \in Copy
  <2>1. CASE ~ShouldCopy(t)
    BY <2>1 DEF TradeArrives, NoCopy
  <2>2. CASE ShouldCopy(t) /\ TooSmall(t)
    BY <2>2 DEF TradeArrives, NoCopy
  <2>3. CASE ShouldCopy(t) /\ ~TooSmall(t)
    <3>1. Amount(t) \in Nat /\ Tracked(t) \in Nat /\ Posts(t) \subseteq Nat
      BY <2>3, SizingNat
    <3>2. PICK p \in Posts(t) :
            copy' = [kind |-> "placed", amount |-> Amount(t), tracked |-> Tracked(t), posted |-> p]
      BY <2>3 DEF TradeArrives
    <3> QED BY <3>1, <3>2
  <2> QED BY <2>1, <2>2, <2>3
<1>2. copies' \in 0..MaxCopies
  BY RulesAssumption DEF TradeArrives
<1> QED BY <1>1, <1>2 DEF TradeArrives, AverageBelowMax

LEMMA InvRecord ==
    ASSUME Inv, RecordEntry
    PROVE  Inv'
<1> USE DEF Inv, TypeOK
<1>1. CASE ~(copy.kind = "placed" /\ trade.side = "BUY")
  BY <1>1 DEF RecordEntry, AverageBelowMax
<1>2. CASE copy.kind = "placed" /\ trade.side = "BUY"
  <2> DEFINE m == IF trade.price > entry.max THEN trade.price ELSE entry.max
  <2>1. trade.price \in Nat
    BY RulesAssumption DEF TradeType
  <2>2. /\ entry.size \in Nat /\ entry.cost \in Nat /\ entry.max \in Nat
        /\ copy.tracked \in Nat /\ m \in Nat /\ entry.max <= m /\ trade.price <= m
    BY <2>1
  <2>3. entry' = [size |-> entry.size + copy.tracked,
                  cost |-> entry.cost + trade.price * copy.tracked, max |-> m]
    BY <1>2 DEF RecordEntry
  <2>4. entry.cost + trade.price * copy.tracked <= m * (entry.size + copy.tracked)
    <3>1. entry.cost <= entry.max * entry.size
      BY DEF AverageBelowMax
    <3> HIDE DEF m
    <3> QED BY <2>1, <2>2, <3>1, AverageBounded
  <2>5. trade.price * copy.tracked \in Nat
    BY <2>1, <2>2, ProductNat
  <2>6. entry' \in [size : Nat, cost : Nat, max : Nat]
    <3> HIDE DEF m
    <3> QED BY <2>2, <2>3, <2>5
  <2>7. entry'.cost <= entry'.max * entry'.size
    <3> HIDE DEF m
    <3> QED BY <2>3, <2>4
  <2> QED BY <2>6, <2>7 DEF RecordEntry, AverageBelowMax
<1> QED BY <1>1, <1>2

LEMMA InvExit ==
    ASSUME Inv, NEW cur \in Prices, ExitCheck(cur)
    PROVE  Inv'
<1> USE DEF Inv, TypeOK
<1> DEFINE e == [entry EXCEPT !.max = IF cur > @ THEN cur ELSE @]
<1>1. cur \in Nat
  BY RulesAssumption
<1>2. entry' = e \/ entry' = NoEntry
  BY DEF ExitCheck
<1>3. e \in [size : Nat, cost : Nat, max : Nat] /\ e.cost <= e.max * e.size
  <2>1. /\ entry.size \in Nat /\ entry.cost \in Nat /\ entry.max \in Nat
        /\ e.size = entry.size /\ e.cost = entry.cost /\ e.max \in Nat /\ entry.max <= e.max
    BY <1>1
  <2>2. entry.cost <= entry.max * entry.size
    BY DEF AverageBelowMax
  <2>3. entry.cost + 0 * 0 <= e.max * (entry.size + 0)
    <3> HIDE DEF e
    <3> QED BY <2>1, <2>2, AverageBounded
  <2>4. e.cost <= e.max * e.size
    <3> HIDE DEF e
    <3> QED BY <2>1, <2>3
  <2> QED BY <1>1, <2>4
<1>4. NoEntry \in [size : Nat, cost : Nat, max : Nat] /\ NoEntry.cost <= NoEntry.max * NoEntry.size
  BY DEF NoEntry
<1>5. entry' \in [size : Nat, cost : Nat, max : Nat] /\ entry'.cost <= entry'.max * entry'.size
  <2> HIDE DEF e
  <2> QED BY <1>2, <1>3, <1>4
<1>6. exit' \in {"none", "profit", "loss", "trailing"}
  BY DEF ExitCheck
<1> QED BY <1>5, <1>6 DEF ExitCheck, AverageBelowMax

LEMMA InvInvariant == Spec => []Inv
<1>1. Inv /\ [Next]_vars => Inv'
  <2> SUFFICES ASSUME Inv, [Next]_vars PROVE Inv'
    OBVIOUS
  <2>1. CASE UNCHANGED vars
    BY <2>1 DEF vars, Inv, TypeOK, AverageBelowMax
  <2> QED BY <2>1, InvArrives, InvRecord, InvExit DEF Next
<1> QED BY InitInv, <1>1, PTL DEF Spec

\* Type correctness of the loaded rules, the copy and the entry.
THEOREM RulesTypeCorrect == Spec => []TypeOK
<1>1. Inv => TypeOK
  BY DEF Inv
<1> QED BY InvInvariant, <1>1, PTL

\* The entry price never exceeds max_price.
THEOREM RulesAverageBelowMax == Spec => []AverageBelowMax
<1>1. Inv => AverageBelowMax
  BY DEF Inv
<1> QED BY InvInvariant, <1>1, PTL

\* What becomes of a copied BUY in its step: it is placed for one of its posts.
LEMMA PlacedFor ==
    ASSUME NEW t \in Trades, TradeArrives(t), copy'.kind = "placed"
    PROVE  /\ ~TooSmall(t)
           /\ copy'.amount = Amount(t) /\ copy'.tracked = Tracked(t)
           /\ copy'.posted \in Posts(t)
BY DEF TradeArrives, NoCopy

\* A BUY is posted within the limit of the file, for every limit, multiplier,
\* size and price, but for the 1.01 that may take the place of a limit under it.
THEOREM RulesLimitHolds == Spec => []LimitHolds
<1>1. Init => LimitHolds
  BY DEF Init, LimitHolds, NoCopy
<1>2. Inv /\ LimitHolds /\ [Next]_vars => LimitHolds'
  <2> SUFFICES ASSUME Inv, LimitHolds, [Next]_vars PROVE LimitHolds'
    OBVIOUS
  <2>1. CASE UNCHANGED <<config, trade, copy>>
    BY <2>1 DEF LimitHolds
  <2>2. ASSUME NEW t \in Trades, TradeArrives(t) PROVE LimitHolds'
    <3> SUFFICES ASSUME copy'.kind = "placed", t.side = "BUY", config.limit > 0
                 PROVE  \/ copy'.posted <= config.limit
                        \/ copy'.posted = MinMarketable /\ config.limit < MinMarketable
      BY <2>2 DEF LimitHolds, TradeArrives
    <3>1. ~TooSmall(t) /\ copy'.posted \in Posts(t)
      BY <2>2, PlacedFor
    <3>2. Amount(t) \in Nat /\ config.limit \in Nat
      BY <3>1, SizingNat DEF Inv, TypeOK, Values
    <3>3. Amount(t) <= config.limit
      <4>1. t \in TradeType /\ config.mult \in Nat
        BY RulesAssumption DEF Inv, TypeOK, Values
      <4>2. t.size * t.price * config.mult \in Nat
        BY <4>1, ProductNat DEF TradeType
      <4> QED BY <3>2, <4>2 DEF Amount
    <3> DEFINE n == (Amount(t) \div Cent) * Cent
    <3>4. /\ n \in Nat /\ n <= Amount(t)
          /\ copy'.posted = n \/ copy'.posted = MinMarketable
      BY <3>1, <3>2, PostsOfBuy
    <3> HIDE DEF n
    <3> QED BY <3>2, <3>3, <3>4 DEF MinMarketable, Dollar, Cent
  <2> QED BY <2>1, <2>2 DEF Next, RecordEntry, ExitCheck, vars
<1> QED BY InvInvariant, <1>1, <1>2, PTL DEF Spec

\* What the division leaves is less than the divisor.
LEMMA RemainderBound == \A m \in Nat, n \in Nat \ {0} : m < n * (m \div n) + n
OBVIOUS

\* The order of two factors, for the products of the sizing.
LEMMA ProductOrder == \A a, b, c \in Nat : a * b * c = (a * c) * b /\ a * b = b * a
OBVIOUS

\* copy_trade: the tracked shares of a BUY are worth the amount of its order at
\* the leader's price, less than one share's price apart; to the digit when
\* the limit does not apply.
LEMMA TrackedWorthAmount ==
    ASSUME config \in Values, NEW t \in Trades, t.side = "BUY", ~TooSmall(t)
    PROVE  /\ Tracked(t) * t.price \in Nat
           /\ Tracked(t) * t.price <= Amount(t)
           /\ Amount(t) < Tracked(t) * t.price + t.price
<1> DEFINE usd == t.size * t.price * config.mult
           capped == config.limit > 0 /\ usd > config.limit
<1>1. t.size \in Nat /\ t.price \in Nat \ {0} /\ config.mult \in Nat /\ config.limit \in Nat
  BY RulesAssumption DEF TradeType, Values, TooSmall
<1>2. Tracked(t) \in Nat
  BY SizingNat
<1>3. Amount(t) = (IF capped THEN config.limit ELSE usd)
  BY DEF Amount
<1>4. Tracked(t) = (IF capped THEN config.limit \div t.price ELSE t.size * config.mult)
  BY DEF Tracked
<1>5. CASE capped
  <2> DEFINE q == config.limit \div t.price
  <2>1. q \in Nat /\ t.price * q <= config.limit /\ config.limit < t.price * q + t.price
    BY <1>1, QuotientNat, RemainderBound
  <2>2. Tracked(t) = q /\ Amount(t) = config.limit
    BY <1>3, <1>4, <1>5
  <2> HIDE DEF q
  <2>3. q * t.price = t.price * q /\ q * t.price \in Nat
    BY <1>1, <2>1, ProductOrder, ProductNat
  <2> QED BY <2>1, <2>2, <2>3
<1>6. CASE ~capped
  <2>1. Tracked(t) = t.size * config.mult /\ Amount(t) = usd
    BY <1>3, <1>4, <1>6
  <2>2. usd = (t.size * config.mult) * t.price
    BY <1>1, ProductOrder
  <2>3. usd \in Nat
    BY <1>1, ProductNat
  <2> HIDE DEF usd, capped
  <2> QED BY <1>1, <2>1, <2>2, <2>3
<1> QED BY <1>5, <1>6

\* For every trade.toml and every trade, through the multiplier, the limit, the
\* normalisation and the retry: an entry records no more than was ordered, to
\* a cent, and no less, to a cent and the price of a hundredth of a share, but
\* where a BUY under a dollar was raised to 1.01.
THEOREM RulesTrackedMatchesPosted == Spec => []TrackedMatchesPosted
<1>1. Init => TrackedMatchesPosted
  BY DEF Init, TrackedMatchesPosted, NoCopy
<1>2. Inv /\ TrackedMatchesPosted /\ [Next]_vars => TrackedMatchesPosted'
  <2> SUFFICES ASSUME Inv, TrackedMatchesPosted, [Next]_vars PROVE TrackedMatchesPosted'
    OBVIOUS
  <2>1. CASE UNCHANGED <<trade, copy>>
    BY <2>1 DEF TrackedMatchesPosted
  <2>2. ASSUME NEW t \in Trades, TradeArrives(t) PROVE TrackedMatchesPosted'
    <3> DEFINE p == copy'.posted
    <3> SUFFICES ASSUME copy'.kind = "placed", t.side = "BUY"
                 PROVE  /\ copy'.tracked * t.price - p < Cent
                        /\ \/ p - copy'.tracked * t.price < Cent + t.price
                           \/ p = MinMarketable /\ copy'.amount < Dollar
      BY <2>2 DEF TrackedMatchesPosted, TradeArrives
    <3>1. /\ ~TooSmall(t) /\ p \in Posts(t)
          /\ copy'.amount = Amount(t) /\ copy'.tracked = Tracked(t)
      BY <2>2, PlacedFor
    <3>2. t.price \in Nat \ {0}
      BY <3>1, RulesAssumption DEF TradeType, TooSmall
    <3>3. Amount(t) \in Nat
      BY <3>1, SizingNat DEF Inv, TypeOK
    <3> DEFINE value == Tracked(t) * t.price
               n == (Amount(t) \div Cent) * Cent
    <3>4. value \in Nat /\ value <= Amount(t) /\ Amount(t) < value + t.price
      BY <3>1, TrackedWorthAmount DEF Inv, TypeOK
    <3>5. /\ n \in Nat /\ n <= Amount(t) /\ Amount(t) < n + Cent
          /\ p = n \/ (p = MinMarketable /\ n <= p)
      BY <3>1, <3>3, PostsOfBuy
    <3> HIDE DEF value, n
    <3>6. value - p < Cent
      BY <3>3, <3>4, <3>5 DEF MinMarketable, Dollar, Cent
    <3>7. p - value < Cent + t.price \/ (p = MinMarketable /\ Amount(t) < Dollar)
      BY <3>2, <3>3, <3>4, <3>5 DEF MinMarketable, Dollar, Cent
    <3> QED BY <3>1, <3>6, <3>7 DEF value
  <2> QED BY <2>1, <2>2 DEF Next, RecordEntry, ExitCheck, vars
<1> QED BY InvInvariant, <1>1, <1>2, PTL DEF Spec
=============================================================================
