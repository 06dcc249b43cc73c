----------------------------- MODULE DualLimit ------------------------------
(***************************************************************************)
(* main_dual_limit_045_same_size.rs for one market in one period: limit    *)
(* buys of both sides at 0.45 in the first seconds; when one fills, the    *)
(* other is cancelled and bought on the market by the first of four rules  *)
(* that fires (early high price and trailing, 4 minutes, standard); after  *)
(* ten minutes a hedged pair may be offered for sale.  The callback runs   *)
(* once per snapshot, while DualTrader's check task and the exchange go on *)
(* between any two of its awaits.                                          *)
(*                                                                         *)
(* Prices are cents.  A snapshot is the bid of Up: a side's ask is a cent  *)
(* over its bid, and the ask of one side and the bid of the other add up   *)
(* to a dollar.  Settings have their defaults.                             *)
(***************************************************************************)
EXTENDS DualTrader

CONSTANTS Elapsed,   \* bound: the seconds into the period of a snapshot
          Bids       \* bound: the bids of Up

ASSUME DualAssumption == Elapsed \subseteq 0..899 /\ 0 \in Elapsed /\ Bids \subseteq 1..98

PlaceWithin == 5
TwoMin == 120          \* NINETY_SEC_AFTER_SECONDS
FourMin == 240         \* TWO_MIN_AFTER_SECONDS
TenMin == 600          \* hedge_after_seconds and LIMIT_SELL_AFTER_SECONDS
TwoMinMax == 50
FourMinMin == 50
FourMinMax == 65
BuyOver == 75
MaxHedge == 54
HedgePrice == 80
TrailingStop == 3      \* dual_limit_hedge_trailing_stop
ExitMinHedge == 60
LowPrice == 10
LowPriceUnder60 == 3
Attempts == 3

VARIABLES
    at,         \* seconds into the period at the last snapshot
    bid,        \* the bid of Up in it, 0 between callbacks
    pc,         \* where the callback is
    seen,       \* Up's trade as a section has read it, before it reads Down's
    side,       \* the unfilled side, or the cheap one in the exit
    path,       \* what is being cancelled or bought for
    tries,      \* attempts of an order or a cancellation, from 1
    want,       \* sides whose limit buy is still to be placed
    placed,     \* last_placed_period is this period
    cancelled,  \* opposite_limit_cancelled_for_market
    hedged,     \* hedge_executed_for_market: "no", "two" when also in
                \* two_min_hedge_markets, else how the price relates to 0.60
    lowest,     \* two_min_trailing_min_ask, 0 without an entry
    reset,      \* two_min_trailing_reset_at_4min
    exit,       \* the exit's sells placed: "none", "cheap" or "done"
    buys,       \* history: hedges answered Ok, at most 2
    lows,       \* history: the exit's low sells of a side answered Ok, at most 2
    highs,      \* history: and its high sells
    refused     \* history: a high sell has failed

orderVars == <<side, path, tries>>
memory == <<placed, cancelled, hedged, lowest, reset, exit>>
sells == <<lows, highs, refused>>
history == <<buys, sells>>
callbackVars == <<at, bid, pc, seen, orderVars, want>>
vars == <<traderVars, callbackVars, memory, history>>

Init ==
    /\ TraderInit
    /\ at = 0 /\ bid = 0 /\ pc = "idle" /\ seen = "unread"
    /\ side = "up" /\ path = "none" /\ tries = 0 /\ want = {}
    /\ placed = FALSE /\ cancelled = FALSE /\ hedged = "no" /\ lowest = 0 /\ reset = FALSE
    /\ exit = "none" /\ buys = 0
    /\ lows = [s \in Sides |-> 0] /\ highs = [s \in Sides |-> 0] /\ refused = FALSE

Bid(s) == IF s = "up" THEN bid ELSE 99 - bid
Ask(s) == Bid(s) + 1

-----------------------------------------------------------------------------
(* The sections of the callback, in order, each behind its own checks.     *)

Checks(section, t, c, h, x) ==
    /\ section = "exit" => h \in {"under", "over"} /\ x # "done"
    /\ section # "exit" => h = "no"
    /\ section = "one" => ~c
    /\ section = "four" => t >= FourMin
    /\ section \in {"standard", "exit"} => t >= TenMin

\* The first section from a given one on whose checks pass.
FromExit(t, c, h, x) == IF Checks("exit", t, c, h, x) THEN "exit" ELSE "idle"
FromStandard(t, c, h, x) ==
    IF Checks("standard", t, c, h, x) THEN "standard" ELSE FromExit(t, c, h, x)
FromFour(t, c, h, x) == IF Checks("four", t, c, h, x) THEN "four" ELSE FromStandard(t, c, h, x)
FromTwo(t, c, h, x) == IF Checks("two", t, c, h, x) THEN "two" ELSE FromFour(t, c, h, x)
FromOne(t, c, h, x) == IF Checks("one", t, c, h, x) THEN "one" ELSE FromTwo(t, c, h, x)

\* The callback goes on at a section or returns; t and b are its snapshot's.
GoesTo(section, t, b) ==
    /\ pc' = section
    /\ at' = t /\ bid' = IF section = "idle" THEN 0 ELSE b
    /\ seen' = "unread" /\ side' = "up" /\ path' = "none" /\ tries' = 0 /\ want' = {}

\* The section ends without having changed what the bot remembers of hedges.
Leaves(section) == GoesTo(section, at, bid)

ToOne == FromOne(at, cancelled, hedged, exit)
ToTwo == FromTwo(at, cancelled, hedged, exit)
ToFour == FromFour(at, cancelled, hedged, exit)
ToStandard == FromStandard(at, cancelled, hedged, exit)
ToExit == FromExit(at, cancelled, hedged, exit)

\* A trade of Up, then one of Down is read; each takes a lock of its own.
ReadUp ==
    /\ pc \in {"one", "two", "four", "standard", "exit"} /\ seen = "unread"
    /\ seen' = IF pc = "exit" THEN Tracked("up") ELSE trade["up"]
    /\ UNCHANGED <<traderVars, at, bid, pc, orderVars, want, memory, history>>

At(section) == pc = section /\ seen # "unread"

\* The side to cancel or to buy: both trades are there and one is confirmed.
IsUnfilled(s) ==
    LET up == seen down == trade["down"] IN
    IF s = "up" THEN up = "pending" /\ down = "confirmed"
                ELSE up = "confirmed" /\ down = "pending"

\* ... or its trade is gone because it has been cancelled.
IsGone(s) ==
    LET up == seen down == trade["down"] IN
    cancelled /\ IF s = "up" THEN up = "none" /\ down = "confirmed"
                             ELSE up = "confirmed" /\ down = "none"

-----------------------------------------------------------------------------
(* A snapshot, and the limit buys. *)

\* The simulated orders the asks of a snapshot with bid b reach.
Crossed(b) == {s \in open : (IF s = "up" THEN b + 1 ELSE 100 - b) <= LimitPrice}

\* The sides that may have a price: at least one.
Priced == (SUBSET Sides) \ {{}}

\* The simulation fills what the snapshot's asks reach.  The first snapshot of
\* the first seconds places a limit buy for each token that has a price; a
\* position of the period, which the code looks for first, there is none.
Begins(t, b) ==
    /\ pc = "idle" /\ t >= at
    /\ \/ /\ t <= PlaceWithin /\ ~placed /\ placed' = TRUE
          /\ \E W \in Priced :
                /\ pc' = "place" /\ want' = W
                /\ at' = t /\ bid' = b
                /\ UNCHANGED <<seen, orderVars>>
       \/ /\ t > PlaceWithin \/ placed
          /\ GoesTo(FromOne(t, cancelled, hedged, exit), t, b)
          /\ UNCHANGED placed
    /\ IF sim THEN SimFills(Crossed(b)) ELSE UNCHANGED traderVars
    /\ UNCHANGED <<cancelled, hedged, lowest, reset, exit, history>>

\* W is still to be placed.
Places(W) ==
    IF W = {} THEN Leaves(ToOne)
    ELSE pc' = "single" /\ want' = W /\ UNCHANGED <<at, bid, seen, orderVars>>

\* The batch: some orders are accepted, none when all three attempts fail.
PlaceBatch ==
    /\ pc = "place"
    /\ \E S, L \in SUBSET want : (sim => S = want) /\ LimitBuys(S, L) /\ Places(want \ S)
    /\ UNCHANGED <<memory, history>>

\* The others one by one, which may fail for good.
PlaceSingle(s) ==
    /\ pc = "single" /\ s \in want
    /\ LimitBuy(s)
    /\ Places(want \ {s})
    /\ UNCHANGED <<memory, history>>

-----------------------------------------------------------------------------
(* The steps the sections share: a cancellation, and a buy that is marked, *)
(* cancelled and recorded.                                                 *)

StartsCancel(s, p) ==
    /\ pc' = "cancel" /\ side' = s /\ path' = p /\ tries' = 1 /\ seen' = "unread"
    /\ UNCHANGED <<at, bid, want>>

StartsBuy(s, p) ==
    /\ pc' = "buy" /\ side' = s /\ path' = p /\ tries' = 1 /\ seen' = "unread"
    /\ UNCHANGED <<at, bid, want>>

Moves(where) == pc' = where /\ tries' = 1 /\ UNCHANGED <<at, bid, seen, side, path, want>>

MoreTries_OneTooMany == tries <= Attempts

MoreTries == tries < Attempts

\* Only an answer Ok puts the market among those cancelled; after a buy the
\* outcome is only logged.
Cancelled(ok) ==
    \/ /\ path = "one" /\ cancelled' = ok
       /\ Leaves(FromTwo(at, ok, hedged, exit))
    \/ path = "standard" /\ Leaves(ToExit) /\ UNCHANGED cancelled
    \/ path \in {"high", "two", "four"} /\ Moves("record") /\ UNCHANGED cancelled

\* The trade is read; the call to the exchange is still to be answered.
Cancel ==
    /\ pc = "cancel"
    /\ \/ NothingToCancel(side) /\ Cancelled(TRUE) /\ UNCHANGED traderVars
       \/ ~NothingToCancel(side) /\ sim /\ CancelOk(side) /\ Cancelled(TRUE)
       \/ /\ ~NothingToCancel(side) /\ ~sim
          /\ pc' = "cancelling"
          /\ UNCHANGED <<traderVars, at, bid, seen, orderVars, want, cancelled>>
    /\ UNCHANGED <<placed, hedged, lowest, reset, exit, history>>

CancelAnswered ==
    /\ pc = "cancelling"
    /\ \/ CancelOk(side) /\ Cancelled(TRUE)
       \/ CancelErr(side) /\ ~MoreTries /\ Cancelled(FALSE)
       \/ /\ CancelErr(side) /\ MoreTries
          /\ pc' = "cancel" /\ tries' = tries + 1
          /\ UNCHANGED <<at, bid, seen, side, path, want, cancelled>>
    /\ UNCHANGED <<placed, hedged, lowest, reset, exit, history>>

Lower(m, n) == IF m <= n THEN m ELSE n

BuyOk ==
    /\ pc = "buy" /\ MayBuy(at)
    /\ MarketBuy(side)
    /\ buys' = Lower(buys + 1, 2)
    /\ Moves("mark")
    /\ UNCHANGED <<memory, sells>>

\* The band's limit for the ask grows with the time.
Threshold == IF at < TwoMin THEN LimitPrice ELSE IF at < FourMin THEN TwoMinMax ELSE FourMinMax

\* The lowest ask of s, with a first one taken for it.
LowestBefore(s) == IF lowest = 0 THEN Ask(s) ELSE lowest

\* Over the band a buy is allowed only after a dip to well under it.
Bounced(s) == LowestBefore(s) <= Threshold - TrailingStop

\* After four minutes the trail starts anew, once.
Restarts(s) == at >= FourMin /\ ~reset /\ ~(Ask(s) >= Threshold /\ Bounced(s))
Trail(s) == Lower(IF Restarts(s) THEN Ask(s) ELSE LowestBefore(s), Ask(s))

\* Trailing on the ask: buy once it is TrailingStop over the lowest.  (The
\* later test for a dip before two minutes repeats Bounced.)
Trails(s) ==
    \/ /\ Ask(s) >= Threshold /\ ~Bounced(s)
       /\ lowest' = Ask(s) /\ UNCHANGED reset
       /\ Leaves(ToFour)
    \/ /\ Ask(s) < Threshold \/ Bounced(s)
       /\ lowest' = Trail(s) /\ reset' = (reset \/ Restarts(s))
       /\ IF Ask(s) < Trail(s) + TrailingStop THEN Leaves(ToFour) ELSE StartsBuy(s, "two")

\* A failed attempt; after the third the section ends, only the early high
\* price goes on to the trail.
BuyFails ==
    /\ pc = "buy"
    /\ MarketBuyFails(side, at)
    /\ \/ /\ MoreTries /\ tries' = tries + 1
          /\ UNCHANGED <<at, bid, pc, seen, side, path, want, lowest, reset>>
       \/ ~MoreTries /\ path = "high" /\ Trails(side)
       \/ ~MoreTries /\ path = "two" /\ Leaves(ToFour) /\ UNCHANGED <<lowest, reset>>
       \/ ~MoreTries /\ path = "four" /\ Leaves(ToStandard) /\ UNCHANGED <<lowest, reset>>
       \/ ~MoreTries /\ path = "standard" /\ Leaves(ToExit) /\ UNCHANGED <<lowest, reset>>
    /\ UNCHANGED <<placed, cancelled, hedged, exit, history>>

PriceClass == IF Ask(side) < ExitMinHedge THEN "under" ELSE "over"

\* The trade is marked before the order is cancelled.  The standard hedge is
\* recorded at once, the others at the end; what has been cancelled before is
\* not cancelled again by the first two.
Mark ==
    /\ pc = "mark"
    /\ MarkFilledByHedge(side)
    /\ hedged' = IF path = "standard" THEN PriceClass ELSE hedged
    /\ Moves(IF path \in {"high", "two"} /\ cancelled THEN "record" ELSE "cancel")
    /\ UNCHANGED <<placed, cancelled, lowest, reset, exit, history>>

Recorded_TwoOnly == IF path = "two" THEN "two" ELSE hedged

Recorded == IF path = "two" THEN "two" ELSE PriceClass

\* hedge_executed_for_market and the price of the hedge; the lowest ask of a
\* hedged market is not read again.
Record ==
    /\ pc = "record"
    /\ hedged' = Recorded /\ lowest' = 0
    /\ GoesTo(FromFour(at, cancelled, Recorded, exit), at, bid)
    /\ UNCHANGED <<traderVars, placed, cancelled, reset, exit, history>>

-----------------------------------------------------------------------------
(* The sections. *)

Sits == UNCHANGED <<traderVars, placed, cancelled, hedged, exit, history>>

\* One side is filled: the other is cancelled.
OneSide ==
    /\ At("one")
    /\ \/ \E s \in Sides : IsUnfilled(s) /\ StartsCancel(s, "one")
       \/ (\A s \in Sides : ~IsUnfilled(s)) /\ Leaves(ToTwo)
    /\ UNCHANGED <<lowest, reset>> /\ Sits

Unfilled(s) == IsUnfilled(s) \/ IsGone(s)

\* "2-min hedge": a high price is paid before four minutes, else the trail.
TwoMinHedge ==
    /\ At("two")
    /\ \/ \E s \in Sides :
            /\ Unfilled(s)
            /\ IF at < FourMin /\ Ask(s) >= BuyOver
               THEN StartsBuy(s, "high") /\ UNCHANGED <<lowest, reset>>
               ELSE Trails(s)
       \/ (\A s \in Sides : ~Unfilled(s)) /\ Leaves(ToFour) /\ UNCHANGED <<lowest, reset>>
    /\ Sits

\* The trail of the 4-minute band never waits: with the default tolerance of
\* two cents its bids, above 50 with an ask of at most 54, are all within it.
FourMinFires(s) ==
    \/ Bid(s) > BuyOver
    \/ Bid(s) > FourMinMin /\ Bid(s) < FourMinMax /\ Ask(s) <= MaxHedge

FourMinHedge ==
    /\ At("four")
    /\ \/ \E s \in Sides : Unfilled(s) /\ FourMinFires(s) /\ StartsBuy(s, "four")
       \/ (\A s \in Sides : Unfilled(s) => ~FourMinFires(s)) /\ Leaves(ToStandard)
    /\ UNCHANGED <<lowest, reset>> /\ Sits

\* maybe_hedge_pair: the limit price is under the hedge price, so a pair with
\* an unfilled side has not been hedged by raising it.
StandardHedge ==
    /\ At("standard")
    /\ \/ \E s \in Sides : IsUnfilled(s) /\ Bid(s) >= HedgePrice /\ StartsBuy(s, "standard")
       \/ (\A s \in Sides : IsUnfilled(s) => Bid(s) < HedgePrice) /\ Leaves(ToExit)
    /\ UNCHANGED <<lowest, reset>> /\ Sits

-----------------------------------------------------------------------------
(* The exit of a hedged pair. *)

ExitLow == IF hedged = "over" THEN LowPrice ELSE LowPriceUnder60
IsCheap(s) == Bid(s) < ExitLow /\ (s = "down" => Bid("up") >= ExitLow)
BothConfirmed == seen = "confirmed" /\ Tracked("down") = "confirmed"

Returns == GoesTo("idle", at, bid)

\* Both trades are confirmed, one bid is low, and both balances are read.  A
\* simulation only notes that it would have sold.
Exit ==
    /\ At("exit")
    /\ \/ Returns /\ UNCHANGED exit
       \/ /\ BothConfirmed /\ sim /\ \E s \in Sides : IsCheap(s)
          /\ exit' = "done" /\ Returns
       \/ /\ BothConfirmed /\ ~sim
          /\ \E s \in Sides :
                /\ IsCheap(s) /\ side' = s
                /\ pc' = IF exit = "cheap" THEN "sellHigh" ELSE "sellLow"
          /\ seen' = "unread" /\ UNCHANGED <<at, bid, path, tries, want, exit>>
    /\ UNCHANGED <<traderVars, placed, cancelled, hedged, lowest, reset, history>>

CheapPlaced_Never == exit

\* low_price_cheap_sell_placed_for_market, which the exit under 0.60 lacks.
CheapPlaced == IF hedged = "over" THEN "cheap" ELSE exit

\* The low side's limit sell; an error ends the section.
SellLow ==
    /\ pc = "sellLow"
    /\ \/ /\ lows' = [lows EXCEPT ![side] = Lower(@ + 1, 2)]
          /\ exit' = CheapPlaced
          /\ pc' = "sellHigh" /\ UNCHANGED <<at, bid, seen, orderVars, want>>
       \/ Returns /\ UNCHANGED <<exit, lows>>
    /\ UNCHANGED <<traderVars, placed, cancelled, hedged, lowest, reset, buys, highs, refused>>

\* The other side's at 0.99; an error leaves it to the next snapshot, which may
\* find the sides changed: "other" is the other of the one that is cheap then.
SellHigh ==
    /\ pc = "sellHigh"
    /\ \/ /\ highs' = [highs EXCEPT ![Other(side)] = Lower(@ + 1, 2)]
          /\ exit' = "done" /\ UNCHANGED refused
       \/ refused' = TRUE /\ UNCHANGED <<exit, highs>>
    /\ Returns
    /\ UNCHANGED <<traderVars, placed, cancelled, hedged, lowest, reset, buys, lows>>

Callback ==
    \/ \E t \in Elapsed, b \in Bids : Begins(t, b)
    \/ ReadUp \/ PlaceBatch \/ \E s \in Sides : PlaceSingle(s)
    \/ Cancel \/ CancelAnswered \/ BuyOk \/ BuyFails \/ Mark \/ Record
    \/ OneSide \/ TwoMinHedge \/ FourMinHedge \/ StandardHedge \/ Exit \/ SellLow \/ SellHigh

Outside == (CheckTask \/ \E s \in Sides : Fill(s)) /\ UNCHANGED <<callbackVars, memory, history>>

Next == Callback \/ Outside

Spec == Init /\ [][Next]_vars

-----------------------------------------------------------------------------
Sections == {"idle", "one", "two", "four", "standard", "exit"}

CallbackTypeOK ==
    /\ at \in Elapsed /\ bid \in Bids \cup {0}
    /\ pc \in Sections \cup {"place", "single", "cancel", "cancelling", "buy", "mark", "record",
                           "sellLow", "sellHigh"}
    /\ seen \in {"unread", "none", "pending", "confirmed"}
    /\ side \in Sides /\ path \in {"none", "one", "high", "two", "four", "standard"}
    /\ tries \in 0..Attempts /\ want \subseteq Sides

MemoryTypeOK ==
    /\ placed \in BOOLEAN /\ cancelled \in BOOLEAN /\ reset \in BOOLEAN
    /\ hedged \in {"no", "two", "under", "over"} /\ exit \in {"none", "cheap", "done"}
    /\ lowest \in 0..100

TypeOK ==
    /\ TraderTypeOK /\ CallbackTypeOK /\ MemoryTypeOK
    /\ buys \in 0..2 /\ refused \in BOOLEAN
    /\ lows \in [Sides -> 0..2] /\ highs \in [Sides -> 0..2]

\* No second hedge once one was answered Ok: from then on both sides are held,
\* and none of the four rules, whatever they remember, fill or fail to cancel,
\* comes to post another market buy in the period.  (A buy that was executed
\* but not answered is bought again: the bot does not ask what became of it.)
OneHedge == buys <= 1 /\ (buys = 1 => held = Sides /\ pc # "buy")

Pair == INSTANCE HedgedPair WITH
    simulated <- sim, bought <- buys, kind <- hedged, low <- lows, high <- highs,
    closed <- exit = "done"

\* The bot implements the hedged pair: between fills, lost answers and its own
\* retries one buy of the missing side is answered Ok, after which both sides
\* are held; a hedge of 0.60 or more offers one side low, once, and the bot is
\* done only after it has offered a side high: the other side, unless that was
\* refused once and the sides have changed places since.  The pairs of the
\* 2-minute hedge it does not sell, which is what its checks do.  (An offer
\* whose answer was lost counts as failed: the code makes it again.)
ImplementsHedgedPair == Pair!Spec

\* After a hedge the limit buy of the side it bought is gone ("Buy succeeded:
\* cancel unfilled limit to avoid double position", line 1836 of the bot).
HedgedLimitGone == ~sim /\ pc = "idle" /\ hedged # "no" => open = {}
=============================================================================
