----------------------------- MODULE CopyRules ------------------------------
(***************************************************************************)
(* The arithmetic of copy_trading.rs, in the order a run of the bot meets  *)
(* it: trade.toml is loaded, should_copy_trade filters a leader's trade,   *)
(* copy_trade sizes the order, record_entry averages the bought shares     *)
(* into the entry of the asset, and the exit check compares its price.     *)
(*                                                                         *)
(* Integers: leaders' sizes in shares, prices in cents, multipliers in     *)
(* hundredths; so tracked sizes are hundredths of a share and amounts of a *)
(* BUY hundredths of a cent, and the products of the Decimals are exact.   *)
(* The quotient limit / price is rounded down where Decimal keeps 28       *)
(* digits.  Who runs when, and how much is filled, is in ActivityStream,   *)
(* MarketOrder and ExitLoop; here one asset, and every order is filled, at *)
(* the amount of its last attempt.                                         *)
(***************************************************************************)
EXTENDS Integers

CONSTANTS Files,      \* contents of trade.toml, see FileType
          Trades,     \* trades of leaders, see TradeType
          Prices,     \* current prices the Data API may show, in cents
          MaxCopies   \* bound: trades in one behaviour

Values == [mult : Nat, revert : BOOLEAN,         \* [copy]
           limit : Nat, maxAge : Nat,            \* [filter]
           takeProfit : Nat, stopLoss : Nat, trailing : Nat]   \* [exit], percent

\* keys: how the keys of several words are spelled.
FileType == [keys : {"kebab-case", "snake_case"}, values : Values]

\* age: seconds since the fill; unknown when match_time does not parse.
TradeType == [side : {"BUY", "SELL"}, size : Nat, price : Nat, known : BOOLEAN, age : Nat]

ASSUME RulesAssumption ==
    /\ Files \subseteq FileType /\ Trades \subseteq TradeType /\ Prices \subseteq Nat
    /\ MaxCopies \in Nat

VARIABLES file, config, pc,
          trade,    \* the trade being copied, and what became of it:
          copy,     \* [kind, amount, tracked, posted]
          entry,    \* [size, cost, max]: entry_price is cost / size
          copies,
          exit      \* the rule that the latest exit check found, or "none"

vars == <<file, config, pc, trade, copy, entry, copies, exit>>

Cent == 100              \* in hundredths of a cent
Dollar == 100 * Cent
MinMarketable == Dollar + Cent   \* the 1.01 of api.rs
NoCopy == [kind |-> "none", amount |-> 0, tracked |-> 0, posted |-> 0]
NoEntry == [size |-> 0, cost |-> 0, max |-> 0]

\* The serde defaults of keys that are not in the file.
Defaults == [mult |-> 100, revert |-> TRUE, limit |-> 0, maxAge |-> 0,
             takeProfit |-> 0, stopLoss |-> 0, trailing |-> 0]

\* rename_all = "kebab-case": a key in snake_case is unknown, and unknown keys
\* are ignored.  Only the addresses have an alias.
Load(f) == IF f.keys = "kebab-case" THEN f.values ELSE Defaults

Init ==
    /\ file \in Files /\ config = Load(file)
    /\ trade \in Trades /\ pc = "idle"
    /\ copy = NoCopy /\ entry = NoEntry /\ copies = 0 /\ exit = "none"

\* The comparison with the resolution time never applies: the stream leaves
\* end_date out.
ShouldCopy(t) ==
    /\ ~(t.side = "SELL" /\ ~config.revert)
    /\ ~(config.maxAge > 0 /\ t.known /\ t.age > config.maxAge)

Amount_Uncapped(t) == IF t.side = "BUY" THEN t.size * t.price * config.mult ELSE t.size * config.mult

\* What the order is placed for: dollars of a BUY, shares of a SELL.
Amount(t) ==
    IF t.side = "SELL" THEN t.size * config.mult
    ELSE LET usd == t.size * t.price * config.mult
         IN  IF config.limit > 0 /\ usd > config.limit THEN config.limit ELSE usd

Tracked_Uncapped(t) == t.size * config.mult

\* The shares an executed BUY is recorded with.
Tracked(t) ==
    IF t.side = "BUY" /\ config.limit > 0 /\ t.size * t.price * config.mult > config.limit
    THEN config.limit \div t.price ELSE t.size * config.mult

TooSmall(t) ==
    \/ t.size = 0 \/ config.mult = 0 \/ (t.side = "BUY" /\ t.price = 0)
    \/ Amount(t) = 0
    \/ (t.side = "BUY" /\ Amount(t) < Cent)

\* normalize_buy_usdc_amount, which place_market_order_fast applies to a BUY.
Normalized(t) ==
    LET n == (Amount(t) \div Cent) * Cent
    IN  IF n >= Dollar /\ n < Dollar + 2 * Cent THEN MinMarketable ELSE n

\* What the order may be posted for: a BUY that is refused for its size is
\* posted again for 1.01, a SELL after a refusal for what the wallet holds.
Posts(t) ==
    IF t.side = "SELL" THEN 1..Amount(t)
    ELSE {Normalized(t)} \cup {p \in {MinMarketable} : Normalized(t) < p}

TradeArrives(t) ==
    /\ pc = "idle" /\ copies < MaxCopies
    /\ copies' = copies + 1 /\ trade' = t /\ pc' = "copied"
    /\ IF ~ShouldCopy(t) THEN copy' = [NoCopy EXCEPT !.kind = "filtered"]
       ELSE IF TooSmall(t) THEN copy' = [NoCopy EXCEPT !.kind = "skipped"]
       ELSE \E p \in Posts(t) :
                copy' = [kind |-> "placed", amount |-> Amount(t), tracked |-> Tracked(t),
                         posted |-> p]
    /\ UNCHANGED <<file, config, entry, exit>>

RecordEntry_KeepMax ==
    /\ pc = "copied" /\ pc' = "idle"
    /\ entry' = IF copy.kind = "placed" /\ trade.side = "BUY"
                THEN [size |-> entry.size + copy.tracked,
                      cost |-> entry.cost + trade.price * copy.tracked,
                      max |-> IF entry.size = 0 THEN trade.price ELSE entry.max]
                ELSE entry
    /\ UNCHANGED <<file, config, trade, copy, copies, exit>>

RecordEntry_TakeOffSells ==
    /\ pc = "copied" /\ pc' = "idle"
    /\ entry' = IF copy.kind # "placed" THEN entry
                ELSE IF trade.side = "BUY"
                THEN [size |-> entry.size + copy.tracked,
                      cost |-> entry.cost + trade.price * copy.tracked,
                      max |-> IF trade.price > entry.max THEN trade.price ELSE entry.max]
                ELSE [entry EXCEPT !.size = @ - copy.tracked]
    /\ UNCHANGED <<file, config, trade, copy, copies, exit>>

\* record_entry, for an executed BUY: the weighted average of the prices.
RecordEntry ==
    /\ pc = "copied" /\ pc' = "idle"
    /\ entry' = IF copy.kind = "placed" /\ trade.side = "BUY"
                THEN [size |-> entry.size + copy.tracked,
                      cost |-> entry.cost + trade.price * copy.tracked,
                      max |-> IF trade.price > entry.max THEN trade.price ELSE entry.max]
                ELSE entry
    /\ UNCHANGED <<file, config, trade, copy, copies, exit>>

Profit(e, cur) == config.takeProfit > 0 /\ (cur * e.size - e.cost) * 100 >= config.takeProfit * e.cost
Loss(e, cur) == config.stopLoss > 0 /\ (e.cost - cur * e.size) * 100 >= config.stopLoss * e.cost
Trailing(e, cur) == config.trailing > 0 /\ (e.max - cur) * 100 >= config.trailing * e.max

\* spawn_exit_loop starts nothing when no rule is set.
ExitOn == config.takeProfit > 0 \/ config.stopLoss > 0 \/ config.trailing > 0

\* A position with an entry is compared with its price, after the price has
\* been taken into max_price; one that triggers is sold and its entry removed.
ExitCheck(cur) ==
    LET e == [entry EXCEPT !.max = IF cur > @ THEN cur ELSE @]
        rule == IF Profit(e, cur) THEN "profit" ELSE IF Loss(e, cur) THEN "loss"
                ELSE IF Trailing(e, cur) THEN "trailing" ELSE "none"
    IN  /\ pc = "idle" /\ ExitOn /\ entry.size > 0
        /\ exit' = rule
        /\ entry' = IF rule = "none" THEN e ELSE NoEntry
        /\ UNCHANGED <<file, config, pc, trade, copy, copies>>

Next ==
    \/ \E t \in Trades : TradeArrives(t)
    \/ RecordEntry
    \/ \E cur \in Prices : ExitCheck(cur)

Spec == Init /\ [][Next]_vars

-----------------------------------------------------------------------------
TypeOK ==
    /\ file \in Files /\ config \in Values /\ pc \in {"idle", "copied"}
    /\ trade \in Trades
    /\ copy \in [kind : {"none", "filtered", "skipped", "placed"},
                 amount : Nat, tracked : Nat, posted : Nat]
    /\ entry \in [size : Nat, cost : Nat, max : Nat]
    /\ copies \in 0..MaxCopies /\ exit \in {"none", "profit", "loss", "trailing"}

\* buy_amount_limit_in_usd bounds what a BUY is posted for, through sizing,
\* normalisation and the retry of a refused order.  A limit under 1.01 is not
\* such a bound: the smallest marketable BUY, 1.01, may take its place, and no
\* other amount may.
LimitHolds ==
    (copy.kind = "placed" /\ trade.side = "BUY" /\ config.limit > 0) =>
        \/ copy.posted <= config.limit
        \/ copy.posted = MinMarketable /\ config.limit < MinMarketable

\* An entry never records more than was ordered: the recorded shares, at the
\* leader's price, are worth what the order was posted for, to a cent and the
\* rounding of the quotient.  It records less only where a BUY under a dollar
\* was raised to 1.01 after a refusal: copy_trade does not learn of the raise,
\* and the exit loop leaves the difference in the wallet.  (How much of an
\* order fills is in ExitLoop.)
TrackedMatchesPosted ==
    (copy.kind = "placed" /\ trade.side = "BUY") =>
        LET value == copy.tracked * trade.price
        IN  /\ value - copy.posted < Cent
            /\ \/ copy.posted - value < Cent + trade.price
               \/ copy.posted = MinMarketable /\ copy.amount < Dollar

\* The average price of an entry never exceeds max_price, whatever is bought
\* on top of it and whatever the checks see: a trailing stop starts from a
\* price at least as high as the entry's.
AverageBelowMax == entry.cost <= entry.max * entry.size

\* "`trade.toml` - copy-trading behavior: ... size_multiplier, revert_trade,
\* buy_amount_limit_in_usd, entry_trade_sec, take_profit, ..." (README.md:
\* 253-258, and the trade.toml of README.md:153-168): the bot runs with the
\* values of the file.
DocumentedKeysRead == config = file.values
=============================================================================
