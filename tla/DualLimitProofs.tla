-------------------------- MODULE DualLimitProofs ---------------------------
(* What is proved of DualLimit, for every set of times and of prices.      *)
EXTENDS DualLimit, TLAPS

\* Where a section leads to, and what its checks have told.
LEMMA FromSections ==
    ASSUME NEW t, NEW c, NEW h, NEW x
    PROVE  /\ FromOne(t, c, h, x) \in Sections /\ FromTwo(t, c, h, x) \in Sections
           /\ FromFour(t, c, h, x) \in Sections /\ FromStandard(t, c, h, x) \in Sections
           /\ FromExit(t, c, h, x) \in Sections
BY DEF FromOne, FromTwo, FromFour, FromStandard, FromExit, Sections

\* A section that asks for a hedge runs for a market without one, the exit for
\* a hedged one that is still to be sold.
RightSection(section, h, x) ==
    /\ section \in {"one", "two", "four", "standard"} => h = "no"
    /\ section = "exit" => h \in {"under", "over"} /\ x # "done"

LEMMA FromRight ==
    ASSUME NEW t, NEW c, NEW h, NEW x
    PROVE  /\ RightSection(FromOne(t, c, h, x), h, x)
           /\ RightSection(FromTwo(t, c, h, x), h, x)
           /\ RightSection(FromFour(t, c, h, x), h, x)
           /\ RightSection(FromStandard(t, c, h, x), h, x)
           /\ RightSection(FromExit(t, c, h, x), h, x)
<1>1. RightSection("idle", h, x)
  BY DEF RightSection
<1>2. Checks("exit", t, c, h, x) => RightSection("exit", h, x)
  BY DEF RightSection, Checks
<1>3. Checks("standard", t, c, h, x) => RightSection("standard", h, x)
  BY DEF RightSection, Checks
<1>4. Checks("four", t, c, h, x) => RightSection("four", h, x)
  BY DEF RightSection, Checks
<1>5. Checks("two", t, c, h, x) => RightSection("two", h, x)
  BY DEF RightSection, Checks
<1>6. Checks("one", t, c, h, x) => RightSection("one", h, x)
  BY DEF RightSection, Checks
<1>7. RightSection(FromExit(t, c, h, x), h, x)
  BY <1>1, <1>2 DEF FromExit
<1>8. RightSection(FromStandard(t, c, h, x), h, x)
  BY <1>7, <1>3 DEF FromStandard
<1>9. RightSection(FromFour(t, c, h, x), h, x)
  BY <1>8, <1>4 DEF FromFour
<1>10. RightSection(FromTwo(t, c, h, x), h, x)
  BY <1>9, <1>5 DEF FromTwo
<1>11. RightSection(FromOne(t, c, h, x), h, x)
  BY <1>10, <1>6 DEF FromOne
<1> QED BY <1>7, <1>8, <1>9, <1>10, <1>11

-----------------------------------------------------------------------------
(* Types. *)

\* A callback that goes on at a section, or returns.
LEMMA GoesToTyped ==
    ASSUME NEW section \in Sections, NEW t \in Elapsed, NEW b \in Bids \cup {0},
           GoesTo(section, t, b)
    PROVE  CallbackTypeOK'
BY DEF GoesTo, CallbackTypeOK, Sides, Attempts, Sections

LEMMA LeavesTyped ==
    ASSUME CallbackTypeOK, NEW section \in Sections, Leaves(section)
    PROVE  CallbackTypeOK'
BY GoesToTyped DEF Leaves, CallbackTypeOK

LEMMA ToSections ==
    /\ ToOne \in Sections /\ ToTwo \in Sections /\ ToFour \in Sections
    /\ ToStandard \in Sections /\ ToExit \in Sections
BY FromSections DEF ToOne, ToTwo, ToFour, ToStandard, ToExit

LEMMA StartsTyped ==
    ASSUME CallbackTypeOK, NEW s \in Sides, NEW p \in {"one", "high", "two", "four", "standard"},
           StartsCancel(s, p) \/ StartsBuy(s, p)
    PROVE  CallbackTypeOK'
BY DEF StartsCancel, StartsBuy, CallbackTypeOK, Attempts

\* Prices: an ask is a number of cents, and so is the trail.
LEMMA Prices ==
    ASSUME CallbackTypeOK, MemoryTypeOK, NEW s \in Sides
    PROVE  Ask(s) \in 0..100 /\ Trail(s) \in 0..100
<1>1. bid \in 0..98
  BY DualAssumption DEF CallbackTypeOK
<1>2. Ask(s) \in 0..100
  BY <1>1 DEF Ask, Bid
<1>3. LowestBefore(s) \in 0..100
  BY <1>2 DEF LowestBefore, MemoryTypeOK
<1> QED BY <1>2, <1>3 DEF Trail, Lower

LEMMA TrailsTyped ==
    ASSUME CallbackTypeOK, MemoryTypeOK, NEW s \in Sides, Trails(s)
    PROVE  CallbackTypeOK' /\ lowest' \in 0..100 /\ reset' \in BOOLEAN
<1>1. CASE Leaves(ToFour) /\ lowest' = Ask(s) /\ UNCHANGED reset
  BY <1>1, Prices, LeavesTyped, ToSections DEF MemoryTypeOK
<1>2. CASE /\ Leaves(ToFour) \/ StartsBuy(s, "two")
           /\ lowest' = Trail(s) /\ reset' = (reset \/ Restarts(s))
  <2>1. CallbackTypeOK'
    BY <1>2, StartsTyped, LeavesTyped, ToSections
  <2>2. lowest' \in 0..100
    BY <1>2, Prices
  <2>3. reset' \in BOOLEAN
    BY <1>2
  <2> QED BY <2>1, <2>2, <2>3
<1> QED BY <1>1, <1>2 DEF Trails

\* The trader's operations.
LEMMA TraderTyped ==
    ASSUME TraderTypeOK,
           \/ \E S, L \in SUBSET Sides : LimitBuys(S, L)
           \/ \E s \in Sides : \/ MarketBuy(s) \/ CancelOk(s) \/ CancelErr(s) \/ MarkFilledByHedge(s)
                               \/ MarketBuyFails(s, at) \/ Fill(s) \/ Confirm(s)
           \/ (\E F \in SUBSET Sides : SimFills(F)) \/ SimCheck
           \/ UNCHANGED traderVars
    PROVE  TraderTypeOK'
<1>1. ASSUME NEW S \in SUBSET Sides, NEW L \in SUBSET Sides, LimitBuys(S, L) PROVE TraderTypeOK'
  BY <1>1 DEF LimitBuys, Rest, TraderTypeOK
<1>2. ASSUME NEW s \in Sides, MarketBuy(s) \/ MarketBuyFails(s, at) PROVE TraderTypeOK'
  BY <1>2 DEF MarketBuy, Deliver, Book, MarketBuyFails, TraderTypeOK
<1>3. ASSUME NEW s \in Sides, CancelOk(s) \/ CancelErr(s) PROVE TraderTypeOK'
  BY <1>3 DEF CancelOk, Withdraw, CancelErr, TraderTypeOK
<1>4. ASSUME NEW s \in Sides, MarkFilledByHedge(s) PROVE TraderTypeOK'
  BY <1>4 DEF MarkFilledByHedge, TraderTypeOK
<1>5. ASSUME NEW s \in Sides, Fill(s) \/ Confirm(s) PROVE TraderTypeOK'
  BY <1>5 DEF Fill, Confirm, TraderTypeOK
<1>6. ASSUME NEW F \in SUBSET Sides, SimFills(F) PROVE TraderTypeOK'
  BY <1>6 DEF SimFills, Filled, Synced, TraderTypeOK
<1>7. ASSUME SimCheck PROVE TraderTypeOK'
  BY <1>7 DEF SimCheck, Filled, TraderTypeOK
<1>8. CASE UNCHANGED traderVars
  BY <1>8 DEF traderVars, TraderTypeOK
<1> QED BY <1>1, <1>2, <1>3, <1>4, <1>5, <1>6, <1>7, <1>8

LEMMA TypedInit == Init => TypeOK
<1> SUFFICES ASSUME Init PROVE TypeOK
  OBVIOUS
<1>1. TraderTypeOK
  BY DEF Init, TraderInit, NoTrades, TraderTypeOK
<1>2. CallbackTypeOK
  BY DualAssumption DEF Init, CallbackTypeOK, Attempts, Sides, Sections
<1>3. MemoryTypeOK
  <2>1. lowest \in 0..100
    BY DEF Init
  <2>2. placed \in BOOLEAN /\ cancelled \in BOOLEAN /\ reset \in BOOLEAN
    BY DEF Init
  <2> QED BY <2>1, <2>2 DEF Init, MemoryTypeOK
<1>4. buys \in 0..2 /\ refused \in BOOLEAN /\ lows \in [Sides -> 0..2] /\ highs \in [Sides -> 0..2]
  <2>1. buys = 0 /\ refused = FALSE /\ lows = [s \in Sides |-> 0] /\ highs = [s \in Sides |-> 0]
    BY DEF Init
  <2>2. [s \in Sides |-> 0] \in [Sides -> 0..2]
    OBVIOUS
  <2>3. 0 \in 0..2
    OBVIOUS
  <2>4. lows \in [Sides -> 0..2] /\ highs \in [Sides -> 0..2]
    BY <2>1, <2>2
  <2> QED BY <2>1, <2>3, <2>4
<1> QED BY <1>1, <1>2, <1>3, <1>4 DEF TypeOK

\* The steps that place the limit buys.
LEMMA PlacingTyped ==
    ASSUME TypeOK, PlaceBatch \/ \E s \in Sides : PlaceSingle(s)
    PROVE  TypeOK'
<1>1. ASSUME NEW W \in SUBSET Sides, Places(W) PROVE CallbackTypeOK'
  <2>1. CASE W = {}
    BY <1>1, <2>1, LeavesTyped, ToSections DEF Places, TypeOK
  <2>2. CASE W # {}
    BY <1>1, <2>2 DEF Places, TypeOK, CallbackTypeOK, orderVars
  <2> QED BY <2>1, <2>2
<1>2. PICK S \in SUBSET Sides, L \in SUBSET Sides, W \in SUBSET Sides :
          LimitBuys(S, L) /\ Places(W) /\ UNCHANGED <<memory, history>>
  <2>1. want \subseteq Sides
    BY DEF TypeOK, CallbackTypeOK
  <2>2. CASE PlaceBatch
    BY <2>1, <2>2 DEF PlaceBatch
  <2>3. ASSUME NEW s \in Sides, PlaceSingle(s)
        PROVE \E S, L, W \in SUBSET Sides :
                  LimitBuys(S, L) /\ Places(W) /\ UNCHANGED <<memory, history>>
    BY <2>1, <2>3 DEF PlaceSingle, LimitBuy
  <2> QED BY <2>2, <2>3
<1>3. TraderTypeOK'
  BY <1>2, TraderTyped DEF TypeOK
<1>4. CallbackTypeOK'
  BY <1>1, <1>2
<1> QED BY <1>2, <1>3, <1>4 DEF TypeOK, MemoryTypeOK, memory, history, sells

LEMMA BeginsTyped ==
    ASSUME TypeOK, NEW t \in Elapsed, NEW b \in Bids, Begins(t, b)
    PROVE  TypeOK'
<1>1. CallbackTypeOK'
  <2>1. CASE \E W \in Priced : /\ pc' = "place" /\ want' = W
                                              /\ at' = t /\ bid' = b
                                              /\ UNCHANGED <<seen, orderVars>>
    BY <2>1 DEF TypeOK, CallbackTypeOK, orderVars, Priced
  <2>2. CASE GoesTo(FromOne(t, cancelled, hedged, exit), t, b)
    BY <2>2, GoesToTyped, FromSections
  <2> QED BY <2>1, <2>2 DEF Begins
<1>2. TraderTypeOK'
  <2>1. CASE UNCHANGED traderVars
    BY <2>1, TraderTyped DEF TypeOK
  <2>2. CASE ~ UNCHANGED traderVars
    <3>1. PICK F \in SUBSET Sides : SimFills(F)
      BY <2>2 DEF Begins, Crossed, TypeOK, TraderTypeOK
    <3> QED BY <3>1, TraderTyped DEF TypeOK
  <2> QED BY <2>1, <2>2
<1> QED BY <1>1, <1>2 DEF Begins, TypeOK, MemoryTypeOK, history, sells

LEMMA ReadUpTyped == ASSUME TypeOK, ReadUp PROVE TypeOK'
BY DEF ReadUp, TypeOK, TraderTypeOK, CallbackTypeOK, MemoryTypeOK, traderVars, orderVars, memory,
   history, sells, Tracked, Sides

LEMMA CancelledTyped ==
    ASSUME CallbackTypeOK, NEW ok \in BOOLEAN, cancelled \in BOOLEAN, Cancelled(ok)
    PROVE  CallbackTypeOK' /\ cancelled' \in BOOLEAN
<1>1. CASE Leaves(FromTwo(at, ok, hedged, exit)) /\ cancelled' = ok
  BY <1>1, LeavesTyped, FromSections
<1>2. CASE Leaves(ToExit) /\ UNCHANGED cancelled
  BY <1>2, LeavesTyped, ToSections
<1>3. CASE Moves("record") /\ UNCHANGED cancelled
  BY <1>3 DEF Moves, CallbackTypeOK, Attempts
<1> QED BY <1>1, <1>2, <1>3 DEF Cancelled

LEMMA CancelTyped == ASSUME TypeOK, Cancel \/ CancelAnswered PROVE TypeOK'
<1>1. side \in Sides /\ cancelled \in BOOLEAN
  BY DEF TypeOK, CallbackTypeOK, MemoryTypeOK
<1>2. TraderTypeOK'
  BY <1>1, TraderTyped DEF Cancel, CancelAnswered, TypeOK
<1>3. CallbackTypeOK' /\ cancelled' \in BOOLEAN
  <2>1. CASE Cancelled(TRUE) \/ Cancelled(FALSE)
    BY <2>1, <1>1, CancelledTyped DEF TypeOK
  <2>2. CASE pc' = "cancelling" /\ UNCHANGED <<at, bid, seen, orderVars, want, cancelled>>
    BY <2>2, <1>1 DEF TypeOK, CallbackTypeOK, orderVars
  <2>3. CASE /\ MoreTries /\ pc' = "cancel" /\ tries' = tries + 1
             /\ UNCHANGED <<at, bid, seen, side, path, want, cancelled>>
    BY <2>3, <1>1 DEF TypeOK, CallbackTypeOK, MoreTries, Attempts
  <2> QED BY <2>1, <2>2, <2>3 DEF Cancel, CancelAnswered
<1> QED BY <1>2, <1>3 DEF Cancel, CancelAnswered, TypeOK, MemoryTypeOK, history, sells

LEMMA BuyTyped == ASSUME TypeOK, BuyOk \/ BuyFails PROVE TypeOK'
<1>1. side \in Sides
  BY DEF TypeOK, CallbackTypeOK
<1>2. TraderTypeOK'
  BY <1>1, TraderTyped DEF BuyOk, BuyFails, TypeOK
<1>3. CASE BuyOk
  <2>1. CallbackTypeOK'
    BY <1>3 DEF BuyOk, Moves, TypeOK, CallbackTypeOK, Attempts
  <2>2. MemoryTypeOK'
    BY <1>3 DEF BuyOk, memory, TypeOK, MemoryTypeOK
  <2>3. buys' \in 0..2 /\ UNCHANGED <<lows, highs, refused>>
    BY <1>3 DEF BuyOk, Lower, TypeOK, sells
  <2> QED BY <1>2, <2>1, <2>2, <2>3 DEF TypeOK
<1>4. CASE BuyFails
  <2>1. CallbackTypeOK' /\ lowest' \in 0..100 /\ reset' \in BOOLEAN
    <3>1. CASE Trails(side)
      BY <3>1, <1>1, TrailsTyped DEF TypeOK
    <3>2. CASE (Leaves(ToFour) \/ Leaves(ToStandard) \/ Leaves(ToExit)) /\ UNCHANGED <<lowest, reset>>
      BY <3>2, LeavesTyped, ToSections DEF TypeOK, MemoryTypeOK
    <3>3. CASE /\ MoreTries /\ tries' = tries + 1
               /\ UNCHANGED <<at, bid, pc, seen, side, path, want, lowest, reset>>
      BY <3>3 DEF TypeOK, CallbackTypeOK, MemoryTypeOK, MoreTries, Attempts
    <3> QED BY <1>4, <3>1, <3>2, <3>3 DEF BuyFails
  <2> QED BY <1>2, <1>4, <2>1 DEF BuyFails, TypeOK, MemoryTypeOK, history, sells
<1> QED BY <1>3, <1>4

LEMMA MarkTyped == ASSUME TypeOK, Mark PROVE TypeOK'
<1>1. side \in Sides
  BY DEF TypeOK, CallbackTypeOK
<1>2. TraderTypeOK'
  BY <1>1, TraderTyped DEF Mark, TypeOK
<1>3. CallbackTypeOK'
  BY DEF Mark, Moves, TypeOK, CallbackTypeOK, Attempts
<1> QED BY <1>2, <1>3 DEF Mark, PriceClass, TypeOK, MemoryTypeOK, history, sells

LEMMA RecordTyped == ASSUME TypeOK, Record PROVE TypeOK'
<1>1. TraderTypeOK'
  BY TraderTyped DEF Record, TypeOK
<1>2. CallbackTypeOK'
  BY GoesToTyped, FromSections DEF Record, TypeOK, CallbackTypeOK
<1> QED BY <1>1, <1>2 DEF Record, Recorded, PriceClass, TypeOK, MemoryTypeOK, history, sells

\* The sections that look for a side to cancel or to buy.
LEMMA SectionTyped ==
    ASSUME TypeOK, OneSide \/ TwoMinHedge \/ FourMinHedge \/ StandardHedge
    PROVE  TypeOK'
<1>1. Sits
  BY DEF OneSide, TwoMinHedge, FourMinHedge, StandardHedge
<1>2. TraderTypeOK'
  BY <1>1, TraderTyped DEF Sits, TypeOK
<1>3. CallbackTypeOK' /\ lowest' \in 0..100 /\ reset' \in BOOLEAN
  <2>1. ASSUME NEW s \in Sides, Trails(s)
        PROVE CallbackTypeOK' /\ lowest' \in 0..100 /\ reset' \in BOOLEAN
    BY <2>1, TrailsTyped DEF TypeOK
  <2>2. ASSUME NEW s \in Sides, UNCHANGED <<lowest, reset>>,
               StartsCancel(s, "one") \/ (\E p \in {"high", "four", "standard"} : StartsBuy(s, p))
        PROVE CallbackTypeOK' /\ lowest' \in 0..100 /\ reset' \in BOOLEAN
    BY <2>2, StartsTyped DEF TypeOK, MemoryTypeOK
  <2>3. CASE UNCHANGED <<lowest, reset>> /\ \E n \in {ToTwo, ToFour, ToStandard, ToExit} : Leaves(n)
    BY <2>3, LeavesTyped, ToSections DEF TypeOK, MemoryTypeOK
  <2>4. CASE OneSide
    BY <2>4, <2>2, <2>3 DEF OneSide
  <2>5. CASE TwoMinHedge
    BY <2>5, <2>1, <2>2, <2>3 DEF TwoMinHedge
  <2>6. CASE FourMinHedge
    BY <2>6, <2>2, <2>3 DEF FourMinHedge
  <2>7. CASE StandardHedge
    BY <2>7, <2>2, <2>3 DEF StandardHedge
  <2> QED BY <2>4, <2>5, <2>6, <2>7
<1> QED BY <1>1, <1>2, <1>3 DEF Sits, TypeOK, MemoryTypeOK, history, sells

LEMMA ExitTyped == ASSUME TypeOK, Exit \/ SellLow \/ SellHigh PROVE TypeOK'
<1>1. TraderTypeOK'
  BY TraderTyped DEF Exit, SellLow, SellHigh, TypeOK
<1>2. CASE Exit
  <2>1. CallbackTypeOK'
    <3>1. CASE Returns
      BY <3>1, GoesToTyped DEF Returns, Sections, TypeOK, CallbackTypeOK
    <3>2. CASE ~Returns
      BY <1>2, <3>2 DEF Exit, TypeOK, CallbackTypeOK
    <3> QED BY <3>1, <3>2
  <2>2. MemoryTypeOK' /\ UNCHANGED history
    BY <1>2 DEF Exit, TypeOK, MemoryTypeOK
  <2> QED BY <1>1, <2>1, <2>2 DEF TypeOK, history, sells
<1>3. CASE SellLow \/ SellHigh
  <2>1. CallbackTypeOK'
    <3>1. CASE Returns
      BY <3>1, GoesToTyped DEF Returns, Sections, TypeOK, CallbackTypeOK
    <3>2. CASE ~Returns
      BY <1>3, <3>2 DEF SellLow, SellHigh, TypeOK, CallbackTypeOK, orderVars
    <3> QED BY <3>1, <3>2
  <2>2. MemoryTypeOK'
    BY <1>3 DEF SellLow, SellHigh, CheapPlaced, TypeOK, MemoryTypeOK
  <2>3. /\ buys' \in 0..2 /\ refused' \in BOOLEAN
        /\ lows' \in [Sides -> 0..2] /\ highs' \in [Sides -> 0..2]
    <3>1. /\ \A n \in 0..2 : Lower(n + 1, 2) \in 0..2
          /\ buys \in 0..2 /\ refused \in BOOLEAN
          /\ lows \in [Sides -> 0..2] /\ highs \in [Sides -> 0..2]
      BY DEF Lower, TypeOK
    <3>2. side \in Sides /\ Other(side) \in Sides
      BY DEF TypeOK, CallbackTypeOK, Other, Sides
    <3>3. CASE SellLow
      <4>1. lows' \in [Sides -> 0..2]
        <5>1. lows' = lows \/ lows' = [lows EXCEPT ![side] = Lower(lows[side] + 1, 2)]
          BY <3>3 DEF SellLow
        <5> QED BY <3>1, <3>2, <5>1
      <4> QED BY <3>1, <3>3, <4>1 DEF SellLow
    <3>4. CASE SellHigh
      <4>1. highs' \in [Sides -> 0..2]
        <5>1. highs' = highs \/ highs' = [highs EXCEPT ![Other(side)] = Lower(highs[Other(side)] + 1, 2)]
          BY <3>4 DEF SellHigh
        <5> QED BY <3>1, <3>2, <5>1
      <4>2. refused' \in BOOLEAN
        BY <3>1, <3>4 DEF SellHigh
      <4> QED BY <3>1, <3>4, <4>1, <4>2 DEF SellHigh
    <3> QED BY <1>3, <3>3, <3>4
  <2> QED BY <1>1, <2>1, <2>2, <2>3 DEF TypeOK
<1> QED BY <1>2, <1>3

LEMMA OutsideTyped == ASSUME TypeOK, Outside \/ UNCHANGED vars PROVE TypeOK'
<1>1. TraderTypeOK'
  <2>1. CASE SimCheck
    BY <2>1, TraderTyped DEF TypeOK
  <2>2. CASE \E s \in Sides : Confirm(s) \/ Fill(s)
    BY <2>2, TraderTyped DEF TypeOK
  <2>3. CASE UNCHANGED vars
    BY <2>3, TraderTyped DEF TypeOK, vars
  <2> QED BY <2>1, <2>2, <2>3 DEF Outside, CheckTask
<1>2. UNCHANGED <<callbackVars, memory, history>>
  BY DEF Outside, vars
<1> QED BY <1>1, <1>2 DEF TypeOK, CallbackTypeOK, MemoryTypeOK, callbackVars, orderVars, memory, history, sells

-----------------------------------------------------------------------------
(* One hedge.  What the callback still has to do says how far the period's *)
(* hedge has come.                                                         *)

Hedging == {"high", "two", "four"}

Before == hedged = "no" /\ buys = 0
Between == hedged = "no" /\ buys = 1 /\ held = Sides
After == hedged # "no" /\ buys = 1 /\ held = Sides

\* A confirmed trade is one whose side is held.
TradesInv ==
    /\ \A s \in Sides : trade[s] = "confirmed" => s \in held
    /\ hedges \subseteq held

HeldInv == TradesInv /\ (seen = "confirmed" => "up" \in held)

HedgeInv ==
    /\ pc \in {"one", "two", "four", "standard"} => Before
    /\ pc = "buy" => Before /\ Other(side) \in held /\ path \in Hedging \cup {"standard"}
    /\ pc = "mark" => Between /\ path \in Hedging \cup {"standard"}
    /\ pc = "record" => Between /\ path \in Hedging
    /\ pc \in {"cancel", "cancelling"} =>
          /\ path \in Hedging \cup {"one", "standard"}
          /\ path = "one" => Before
          /\ path \in Hedging => Between
          /\ path = "standard" => After
    /\ pc \in {"idle", "place", "single", "exit", "sellLow", "sellHigh"} => Before \/ After

NoLow == \A s \in Sides : lows[s] = 0
NoHigh == \A s \in Sides : highs[s] = 0

\* The other side has been offered low, or this one and a high offer has
\* failed.
Followed(s) == \E t \in Sides : lows[t] > 0 /\ (t = s => hedged = "over" /\ refused)

\* One side, and it once.
OneLow == \A s, t \in Sides : lows[s] > 0 /\ lows[t] > 0 => s = t /\ lows[s] = 1

\* The sells the exit has placed, by what it remembers of them.
ExitInv ==
    /\ hedged \in {"no", "two"} => exit = "none" /\ NoLow
    /\ pc \in {"exit", "sellLow", "sellHigh"} => hedged \in {"under", "over"} /\ exit # "done"
    /\ pc \in {"sellLow", "sellHigh"} => ~sim
    /\ NoHigh <=> exit # "done" \/ sim
    /\ \A s \in Sides : highs[s] > 0 => Followed(s)
    /\ hedged = "over" =>
          /\ pc = "sellLow" => exit = "none"
          /\ pc = "sellHigh" => exit = "cheap"
          /\ exit = "none" => NoLow
          /\ OneLow
    /\ hedged = "under" => exit # "cheap"
    /\ exit = "cheap" => ~NoLow /\ (pc # "sellHigh" => refused)
    /\ pc = "sellHigh" => lows[side] > 0 \/ (hedged = "over" /\ refused /\ ~NoLow)

IInv == TypeOK /\ HeldInv /\ HedgeInv /\ ExitInv

LEMMA InitIInv == Init => IInv
<1> SUFFICES ASSUME Init PROVE IInv
  OBVIOUS
<1>1. HeldInv
  BY DEF Init, TraderInit, NoTrades, HeldInv, TradesInv
<1>2. HedgeInv
  BY DEF Init, HedgeInv, Before
<1>3. ExitInv
  BY DEF Init, ExitInv, NoLow, NoHigh
<1> QED BY <1>1, <1>2, <1>3, TypedInit DEF IInv

LEMMA TypeStep == TypeOK /\ [Next]_vars => TypeOK'
BY BeginsTyped, ReadUpTyped, PlacingTyped, CancelTyped, BuyTyped, MarkTyped, RecordTyped,
   SectionTyped, ExitTyped, OutsideTyped DEF Next, Callback

\* The trader's operations, all but the outcome of a buy: what is held stays
\* held, and a confirmation needs it.
TraderStep ==
    \/ \E S, L \in SUBSET Sides : LimitBuys(S, L)
    \/ \E s \in Sides : \/ MarketBuy(s) \/ CancelOk(s) \/ CancelErr(s) \/ MarketBuyFails(s, at)
                        \/ Fill(s) \/ Confirm(s)
    \/ (\E F \in SUBSET Sides : SimFills(F)) \/ SimCheck
    \/ UNCHANGED traderVars

LEMMA TraderHolds ==
    ASSUME TraderTypeOK, TradesInv,
           TraderStep \/ \E s \in held \cap Sides : MarkFilledByHedge(s)
    PROVE  TradesInv' /\ held \subseteq held' /\ sim' = sim
<1>1. ASSUME NEW S \in SUBSET Sides, NEW L \in SUBSET Sides, LimitBuys(S, L)
      PROVE TradesInv' /\ held \subseteq held' /\ sim' = sim
  BY <1>1 DEF LimitBuys, Rest, TradesInv
<1>2. ASSUME NEW s \in Sides, MarketBuy(s) \/ MarketBuyFails(s, at)
      PROVE TradesInv' /\ held \subseteq held' /\ sim' = sim
  BY <1>2 DEF MarketBuy, Deliver, Book, MarketBuyFails, TradesInv
<1>3. ASSUME NEW s \in Sides, CancelOk(s) \/ CancelErr(s)
      PROVE TradesInv' /\ held \subseteq held' /\ sim' = sim
  BY <1>3 DEF CancelOk, Withdraw, CancelErr, TradesInv, TraderTypeOK
<1>4. ASSUME NEW s \in Sides, Fill(s) \/ Confirm(s)
      PROVE TradesInv' /\ held \subseteq held' /\ sim' = sim
  BY <1>4 DEF Fill, Confirm, TradesInv, TraderTypeOK
<1>5. ASSUME NEW F \in SUBSET Sides, SimFills(F)
      PROVE TradesInv' /\ held \subseteq held' /\ sim' = sim
  BY <1>5 DEF SimFills, Filled, Synced, TradesInv, TraderTypeOK
<1>6. ASSUME NEW s \in held \cap Sides, MarkFilledByHedge(s)
      PROVE TradesInv' /\ held \subseteq held' /\ sim' = sim
  BY <1>6 DEF MarkFilledByHedge, TradesInv, TraderTypeOK
<1>7. ASSUME SimCheck PROVE TradesInv' /\ held \subseteq held' /\ sim' = sim
  BY <1>7 DEF SimCheck, Filled, TradesInv
<1>8. CASE UNCHANGED traderVars
  BY <1>8 DEF traderVars, TradesInv
<1> QED BY <1>1, <1>2, <1>3, <1>4, <1>5, <1>6, <1>7, <1>8 DEF TraderStep

\* Every step of the bot, of the check task and of the exchange is one of them.
LEMMA TraderSteps ==
    ASSUME IInv, [Next]_vars
    PROVE  /\ TradesInv' /\ held \subseteq held' /\ held' \subseteq Sides /\ sim' = sim
           /\ seen' \in {seen, "unread"} \/ ReadUp
<1>1. TypeOK /\ TypeOK' /\ TraderTypeOK /\ TradesInv /\ side \in Sides
  BY TypeStep DEF IInv, HeldInv, TypeOK, CallbackTypeOK
<1>2. held' \subseteq Sides
  BY <1>1 DEF TypeOK, TraderTypeOK
<1>3. TraderStep \/ \E s \in held \cap Sides : MarkFilledByHedge(s)
  <2>1. CASE \E t \in Elapsed, b \in Bids : Begins(t, b)
    <3>1. \/ UNCHANGED traderVars
          \/ \E F \in SUBSET open : SimFills(F)
      BY <2>1 DEF Begins, Crossed
    <3> QED BY <1>1, <3>1 DEF TraderStep, TraderTypeOK
  <2>2. CASE ReadUp \/ Record \/ OneSide \/ TwoMinHedge \/ FourMinHedge \/ StandardHedge
             \/ Exit \/ SellLow \/ SellHigh \/ UNCHANGED vars
    BY <2>2 DEF ReadUp, Record, OneSide, TwoMinHedge, FourMinHedge, StandardHedge, Sits, Exit,
       SellLow, SellHigh, vars, TraderStep
  <2>3. CASE PlaceBatch \/ \E s \in Sides : PlaceSingle(s)
    <3>1. want \subseteq Sides
      BY <1>1 DEF TypeOK, CallbackTypeOK
    <3> QED BY <2>3, <3>1 DEF PlaceBatch, PlaceSingle, LimitBuy, TraderStep
  <2>4. CASE Cancel \/ CancelAnswered
    BY <2>4, <1>1 DEF Cancel, CancelAnswered, TraderStep
  <2>5. CASE BuyOk \/ BuyFails
    BY <2>5, <1>1 DEF BuyOk, BuyFails, TraderStep
  <2>6. CASE Mark
    BY <2>6, <1>1 DEF Mark, IInv, HedgeInv, Between
  <2>7. CASE Outside
    <3>1. SimCheck \/ \E s \in Sides : Confirm(s) \/ Fill(s)
      BY <2>7 DEF Outside, CheckTask
    <3> QED BY <3>1 DEF TraderStep
  <2> QED BY <2>1, <2>2, <2>3, <2>4, <2>5, <2>6, <2>7 DEF Next, Callback
<1>4. TradesInv' /\ held \subseteq held' /\ sim' = sim
  BY <1>1, <1>3, TraderHolds
<1>5. seen' \in {seen, "unread"} \/ ReadUp
  <2>1. CASE \E t \in Elapsed, b \in Bids : Begins(t, b)
    BY <2>1 DEF Begins, GoesTo
  <2>2. CASE PlaceBatch \/ \E s \in Sides : PlaceSingle(s)
    BY <2>2 DEF PlaceBatch, PlaceSingle, Places, Leaves, GoesTo
  <2>3. CASE Cancel \/ CancelAnswered
    BY <2>3 DEF Cancel, CancelAnswered, Cancelled, Moves, Leaves, GoesTo
  <2>4. CASE BuyOk \/ BuyFails \/ Mark \/ Record
    BY <2>4 DEF BuyOk, BuyFails, Mark, Record, Moves, Leaves, GoesTo, Trails, StartsBuy
  <2>5. CASE OneSide \/ TwoMinHedge \/ FourMinHedge \/ StandardHedge
    BY <2>5 DEF OneSide, TwoMinHedge, FourMinHedge, StandardHedge, Leaves, GoesTo, Trails,
       StartsBuy, StartsCancel
  <2>6. CASE Exit \/ SellLow \/ SellHigh
    BY <2>6 DEF Exit, SellLow, SellHigh, Returns, GoesTo
  <2>7. CASE Outside \/ UNCHANGED vars
    BY <2>7 DEF Outside, vars, callbackVars
  <2> QED BY <2>1, <2>2, <2>3, <2>4, <2>5, <2>6, <2>7 DEF Next, Callback
<1> QED BY <1>2, <1>4, <1>5

LEMMA HeldStep == ASSUME IInv, [Next]_vars PROVE HeldInv'
<1>1. CASE seen' \in {seen, "unread"}
  BY <1>1, TraderSteps DEF IInv, HeldInv
<1>2. CASE ReadUp
  <2>1. seen' = "confirmed" => "up" \in held
    BY <1>2 DEF ReadUp, Tracked, IInv, HeldInv, TradesInv, Sides
  <2> QED BY <2>1, TraderSteps DEF HeldInv
<1> QED BY <1>1, <1>2, TraderSteps

\* What has been bought and hedged does not change while nothing is bought.
Hedged == UNCHANGED <<hedged, buys>>

LEMMA Grows ==
    ASSUME IInv, [Next]_vars, Hedged
    PROVE  (Before => Before') /\ (Between => Between') /\ (After => After')
BY TraderSteps DEF Hedged, Before, Between, After

\* A callback that goes on at the right section or returns, with nothing
\* half done.
LEMMA Lands ==
    ASSUME pc' \in Sections, RightSection(pc', hedged', exit'), Before' \/ After'
    PROVE  HedgeInv'
BY DEF Sections, RightSection, HedgeInv, Before, After

LEMMA LeavesLands ==
    ASSUME NEW ok, NEW n \in {ToOne, ToTwo, ToFour, ToStandard, ToExit, FromTwo(at, ok, hedged, exit)},
           Leaves(n), UNCHANGED <<hedged, exit>>
    PROVE  pc' \in Sections /\ RightSection(pc', hedged', exit')
<1>1. n \in Sections
  BY ToSections, FromSections
<1>2. RightSection(n, hedged, exit)
  BY FromRight DEF ToOne, ToTwo, ToFour, ToStandard, ToExit
<1> QED BY <1>1, <1>2 DEF Leaves, GoesTo

\* The trail leaves the section or starts to buy.
LEMMA TrailsHedge ==
    ASSUME IInv, [Next]_vars, Hedged, Before, UNCHANGED exit,
           NEW s \in Sides, Other(s) \in held, Trails(s)
    PROVE  HedgeInv'
<1>1. Before' /\ held \subseteq held'
  BY Grows, TraderSteps
<1>2. CASE Leaves(ToFour)
  BY <1>1, <1>2, LeavesLands, Lands DEF Before, Hedged
<1>3. CASE StartsBuy(s, "two")
  BY <1>1, <1>3 DEF StartsBuy, HedgeInv, Hedging
<1> QED BY <1>2, <1>3 DEF Trails

\* Who is bought for: the other side is held.
LEMMA OtherHeld ==
    ASSUME HeldInv, NEW s \in Sides, Unfilled(s)
    PROVE  Other(s) \in held
BY DEF Unfilled, IsUnfilled, IsGone, Other, HeldInv, TradesInv, Sides

LEMMA HedgeStep == ASSUME IInv, [Next]_vars PROVE HedgeInv'
<1>0. /\ HeldInv /\ HedgeInv /\ held \subseteq held' /\ held' \subseteq Sides /\ side \in Sides
  BY TraderSteps DEF IInv, TypeOK, CallbackTypeOK
<1>1. CASE \E t \in Elapsed, b \in Bids : Begins(t, b)
  <2>1. Before' \/ After'
    BY <1>0, <1>1, Grows DEF Begins, Hedged, history, HedgeInv
  <2>2. CASE pc' = "place"
    BY <2>1, <2>2 DEF HedgeInv
  <2>3. CASE pc' # "place"
    <3>1. pc' \in Sections /\ RightSection(pc', hedged', exit')
      BY <1>1, <2>3, FromSections, FromRight DEF Begins, GoesTo
    <3> QED BY <2>1, <3>1, Lands
  <2> QED BY <2>2, <2>3
<1>2. CASE ReadUp
  BY <1>0, <1>2, Grows DEF ReadUp, HedgeInv, Hedged, history, memory
<1>3. CASE PlaceBatch \/ \E s \in Sides : PlaceSingle(s)
  <2>1. (Before' \/ After') /\ UNCHANGED <<hedged, exit>>
    BY <1>0, <1>3, Grows DEF PlaceBatch, PlaceSingle, Hedged, history, memory, HedgeInv
  <2>2. CASE Leaves(ToOne)
    BY <2>1, <2>2, LeavesLands, Lands DEF Hedged
  <2>3. CASE pc' = "single"
    BY <2>1, <2>3 DEF HedgeInv
  <2> QED BY <1>3, <2>2, <2>3 DEF PlaceBatch, PlaceSingle, Places
<1>4. CASE Cancel \/ CancelAnswered
  <2>1. Hedged /\ UNCHANGED exit
    BY <1>4 DEF Cancel, CancelAnswered, Hedged, history
  <2>2. pc \in {"cancel", "cancelling"}
    BY <1>4 DEF Cancel, CancelAnswered
  <2>3. ASSUME NEW ok, Cancelled(ok) PROVE HedgeInv'
    <3>1. CASE path = "one" /\ Leaves(FromTwo(at, ok, hedged, exit))
      <4>1. Before'
        BY <1>0, <2>1, <2>2, <3>1, Grows DEF HedgeInv
      <4> QED BY <2>1, <3>1, <4>1, LeavesLands, Lands DEF Hedged
    <3>2. CASE path = "standard" /\ Leaves(ToExit)
      <4>1. After'
        BY <1>0, <2>1, <2>2, <3>2, Grows DEF HedgeInv
      <4> QED BY <2>1, <3>2, <4>1, LeavesLands, Lands DEF Hedged
    <3>3. CASE path \in Hedging /\ Moves("record")
      <4>1. Between'
        BY <1>0, <2>1, <2>2, <3>3, Grows DEF HedgeInv
      <4> QED BY <3>3, <4>1 DEF HedgeInv, Moves
    <3> QED BY <2>3, <3>1, <3>2, <3>3 DEF Cancelled, Hedging
  <2>4. CASE pc' \in {"cancel", "cancelling"} /\ path' = path
    BY <1>0, <2>1, <2>2, <2>4, Grows DEF HedgeInv
  <2> QED BY <1>4, <2>3, <2>4 DEF Cancel, CancelAnswered, orderVars
<1>5. CASE BuyOk
  <2>1. pc = "buy" /\ Before /\ Other(side) \in held /\ path \in Hedging \cup {"standard"}
    BY <1>0, <1>5 DEF BuyOk, HedgeInv
  <2>2. held' = Sides
    BY <1>0, <1>5, <2>1 DEF BuyOk, MarketBuy, Deliver, Book, Other, Sides
  <2>3. Between'
    BY <1>5, <2>1, <2>2 DEF BuyOk, Before, Between, Lower, memory
  <2> QED BY <1>5, <2>1, <2>3 DEF BuyOk, Moves, HedgeInv
<1>6. CASE BuyFails
  <2>1. pc = "buy" /\ Before /\ Other(side) \in held /\ path \in Hedging \cup {"standard"}
    BY <1>0, <1>6 DEF BuyFails, HedgeInv
  <2>2. Hedged /\ UNCHANGED exit
    BY <1>6 DEF BuyFails, Hedged, history
  <2>3. Before'
    BY <2>1, <2>2, Grows
  <2>4. CASE UNCHANGED <<pc, side, path>>
    BY <1>0, <2>1, <2>3, <2>4 DEF HedgeInv, Other
  <2>5. CASE Trails(side)
    BY <1>0, <2>1, <2>2, <2>5, TrailsHedge
  <2>6. CASE \E n \in {ToFour, ToStandard, ToExit} : Leaves(n)
    BY <2>2, <2>3, <2>6, LeavesLands, Lands DEF Hedged
  <2> QED BY <1>6, <2>4, <2>5, <2>6 DEF BuyFails
<1>7. CASE Mark
  <2>1. Between /\ path \in Hedging \cup {"standard"}
    BY <1>0, <1>7 DEF Mark, HedgeInv
  <2>2. buys' = 1 /\ held' = Sides
    BY <1>0, <1>7, <2>1 DEF Mark, Between, history
  <2>3. CASE path = "standard"
    <3>1. After'
      BY <1>7, <2>2, <2>3 DEF Mark, PriceClass, After
    <3>2. pc' = "cancel" /\ path' = "standard"
      BY <1>7, <2>3 DEF Mark, Moves
    <3> QED BY <3>1, <3>2 DEF HedgeInv, Hedging
  <2>4. CASE path \in Hedging
    <3>1. Between'
      BY <1>7, <2>1, <2>2, <2>4 DEF Mark, Between, Hedging
    <3>2. pc' \in {"cancel", "record"} /\ path' = path
      BY <1>7 DEF Mark, Moves
    <3> QED BY <2>4, <3>1, <3>2 DEF HedgeInv, Hedging
  <2> QED BY <2>1, <2>3, <2>4
<1>8. CASE Record
  <2>1. Between
    BY <1>0, <1>8 DEF Record, HedgeInv
  <2>2. After'
    BY <1>0, <1>8, <2>1 DEF Record, Recorded, PriceClass, Between, After, history
  <2>3. pc' \in Sections /\ RightSection(pc', hedged', exit')
    BY <1>8, FromSections, FromRight DEF Record, GoesTo
  <2> QED BY <2>2, <2>3, Lands
<1>9. CASE OneSide \/ TwoMinHedge \/ FourMinHedge \/ StandardHedge
  <2>1. Hedged /\ UNCHANGED exit /\ Before
    BY <1>0, <1>9 DEF OneSide, TwoMinHedge, FourMinHedge, StandardHedge, Sits, At, Hedged, history,
       HedgeInv
  <2>2. Before'
    BY <2>1, Grows
  <2>3. CASE \E n \in {ToTwo, ToFour, ToStandard, ToExit} : Leaves(n)
    BY <2>1, <2>2, <2>3, LeavesLands, Lands DEF Hedged
  <2>4. CASE \E s \in Sides : StartsCancel(s, "one")
    BY <2>2, <2>4 DEF StartsCancel, HedgeInv, Hedging
  <2>5. CASE \E s \in Sides : Unfilled(s) /\ \E p \in {"high", "four", "standard"} : StartsBuy(s, p)
    BY <1>0, <2>2, <2>5, OtherHeld DEF StartsBuy, HedgeInv, Hedging
  <2>6. CASE \E s \in Sides : Unfilled(s) /\ Trails(s)
    BY <1>0, <2>1, <2>6, OtherHeld, TrailsHedge
  <2>7. CASE OneSide
    BY <2>7, <2>3, <2>4 DEF OneSide
  <2>8. CASE TwoMinHedge
    BY <2>8, <2>3, <2>5, <2>6 DEF TwoMinHedge
  <2>9. CASE FourMinHedge
    BY <2>9, <2>3, <2>5 DEF FourMinHedge
  <2>10. CASE StandardHedge
    BY <2>10, <2>3, <2>5 DEF StandardHedge, Unfilled
  <2> QED BY <1>9, <2>7, <2>8, <2>9, <2>10
<1>10. CASE Exit \/ SellLow \/ SellHigh
  <2>1. (Before \/ After) /\ Hedged
    BY <1>0, <1>10 DEF Exit, SellLow, SellHigh, At, HedgeInv, Hedged, history
  <2>2. Before' \/ After'
    BY <2>1, Grows
  <2>3. pc' \in {"idle", "sellLow", "sellHigh"}
    BY <1>10 DEF Exit, SellLow, SellHigh, Returns, GoesTo
  <2> QED BY <2>2, <2>3 DEF HedgeInv
<1>11. CASE Outside \/ UNCHANGED vars
  <2>1. UNCHANGED <<pc, side, path, hedged, buys>>
    BY <1>11 DEF Outside, vars, callbackVars, orderVars, memory, history
  <2> QED BY <1>0, <2>1, Grows DEF HedgeInv, Hedged, Other
<1> QED BY <1>1, <1>2, <1>3, <1>4, <1>5, <1>6, <1>7, <1>8, <1>9, <1>10, <1>11 DEF Next, Callback

-----------------------------------------------------------------------------
(* The exit. *)

\* Steps outside the exit that record no hedge leave what it knows alone; they
\* reach it only by its checks.
Quiet ==
    /\ UNCHANGED <<hedged, exit, sells>>
    /\ pc # "sellHigh" \/ UNCHANGED <<pc, side>>
    /\ \/ UNCHANGED <<pc, side>>
       \/ pc' \notin {"exit", "sellLow", "sellHigh"}
       \/ pc' \in Sections /\ RightSection(pc', hedged', exit')

LEMMA QuietSteps ==
    ASSUME Next, ~Mark, ~Record, ~Exit, ~SellLow, ~SellHigh
    PROVE  Quiet
<1>1. CASE \E t \in Elapsed, b \in Bids : Begins(t, b)
  BY <1>1, FromSections, FromRight DEF Begins, GoesTo, history, Quiet
<1>2. CASE PlaceBatch \/ \E s \in Sides : PlaceSingle(s)
  <2>1. UNCHANGED <<hedged, exit, sells>> /\ pc # "sellHigh"
    BY <1>2 DEF PlaceBatch, PlaceSingle, memory, history
  <2>2. Leaves(ToOne) \/ pc' = "single"
    BY <1>2 DEF PlaceBatch, PlaceSingle, Places
  <2> QED BY <2>1, <2>2, LeavesLands DEF Quiet
<1>3. CASE Cancel \/ CancelAnswered
  <2>1. UNCHANGED <<hedged, exit, sells>> /\ pc # "sellHigh"
    BY <1>3 DEF Cancel, CancelAnswered, history
  <2>2. \/ pc' \in {"cancel", "cancelling", "record"}
        \/ \E ok : Leaves(FromTwo(at, ok, hedged, exit))
        \/ Leaves(ToExit)
    BY <1>3 DEF Cancel, CancelAnswered, Cancelled, Moves
  <2> QED BY <2>1, <2>2, LeavesLands DEF Quiet
<1>4. CASE BuyOk \/ BuyFails
  <2>1. UNCHANGED <<hedged, exit, sells>> /\ pc # "sellHigh"
    BY <1>4 DEF BuyOk, BuyFails, memory, history
  <2>2. \/ pc' \in {"mark", "buy"}
        \/ Leaves(ToFour) \/ Leaves(ToStandard) \/ Leaves(ToExit)
    BY <1>4 DEF BuyOk, BuyFails, Moves, Trails, StartsBuy
  <2> QED BY <2>1, <2>2, LeavesLands DEF Quiet
<1>5. CASE OneSide \/ TwoMinHedge \/ FourMinHedge \/ StandardHedge
  <2>1. UNCHANGED <<hedged, exit, sells>> /\ pc # "sellHigh"
    <3>1. Sits /\ pc \in {"one", "two", "four", "standard"}
      BY <1>5 DEF OneSide, TwoMinHedge, FourMinHedge, StandardHedge, At
    <3> QED BY <3>1 DEF Sits, history
  <2>2. \/ pc' \in {"cancel", "buy"}
        \/ Leaves(ToTwo) \/ Leaves(ToFour) \/ Leaves(ToStandard) \/ Leaves(ToExit)
    BY <1>5 DEF OneSide, TwoMinHedge, FourMinHedge, StandardHedge, Trails, StartsBuy, StartsCancel
  <2> QED BY <2>1, <2>2, LeavesLands DEF Quiet
<1>6. CASE ReadUp \/ Outside
  BY <1>6 DEF ReadUp, Outside, Quiet, callbackVars, orderVars, memory, history
<1> QED BY <1>1, <1>2, <1>3, <1>4, <1>5, <1>6 DEF Next, Callback

LEMMA ExitStep == ASSUME IInv, [Next]_vars PROVE ExitInv'
<1>0. /\ ExitInv /\ HedgeInv /\ sim' = sim /\ sim \in BOOLEAN /\ side \in Sides
      /\ lows \in [Sides -> 0..2] /\ highs \in [Sides -> 0..2]
      /\ exit \in {"none", "cheap", "done"} /\ hedged \in {"no", "two", "under", "over"}
  BY TraderSteps DEF IInv, TypeOK, TraderTypeOK, CallbackTypeOK, MemoryTypeOK
<1>1. CASE Quiet
  <2>1. UNCHANGED <<hedged, exit, lows, highs, refused>>
    BY <1>1 DEF Quiet, sells
  <2>2. \/ UNCHANGED <<pc, side>>
        \/ pc' \notin {"exit", "sellLow", "sellHigh"} /\ (exit = "cheap" => refused)
        \/ pc' \in Sections /\ RightSection(pc', hedged', exit') /\ (exit = "cheap" => refused)
    <3>1. exit = "cheap" => refused \/ pc = "sellHigh"
      BY <1>0 DEF ExitInv
    <3> QED BY <1>1, <3>1 DEF Quiet
  <2> QED BY <1>0, <2>1, <2>2 DEF RightSection, ExitInv, Sections, NoLow, NoHigh, OneLow, Followed
<1>2. CASE UNCHANGED vars
  BY <1>0, <1>2 DEF vars, callbackVars, orderVars, memory, history, sells, ExitInv, NoLow, NoHigh, OneLow,
     Followed
<1>3. CASE Mark \/ Record
  <2>1. hedged = "no" /\ UNCHANGED <<exit, lows, highs, refused>>
    BY <1>0, <1>3 DEF Mark, Record, HedgeInv, Between, history, sells
  <2>2. \/ pc' \in Sections /\ RightSection(pc', hedged', exit')
        \/ pc' \in {"record", "cancel"}
    BY <1>3, FromSections, FromRight DEF Mark, Moves, Record, GoesTo
  <2>3. exit = "none" /\ NoLow /\ NoHigh
    BY <1>0, <2>1 DEF ExitInv
  <2> QED BY <1>0, <2>1, <2>2, <2>3 DEF ExitInv, RightSection, Sections, NoLow, NoHigh, OneLow
<1>4. CASE Exit
  <2>1. hedged \in {"under", "over"} /\ exit # "done" /\ UNCHANGED <<hedged, lows, highs, refused>>
    BY <1>0, <1>4 DEF Exit, At, ExitInv, history, sells
  <2>2. \/ pc' = "idle" /\ exit' = exit
        \/ pc' = "idle" /\ sim /\ exit' = "done"
        \/ pc' = "sellHigh" /\ ~sim /\ exit = "cheap" /\ exit' = exit
        \/ pc' = "sellLow" /\ ~sim /\ exit # "cheap" /\ exit' = exit
    BY <1>4 DEF Exit, Returns, GoesTo
  <2>3. pc = "exit"
    BY <1>4 DEF Exit, At
  <2>4. exit = "cheap" => hedged = "over" /\ refused /\ ~NoLow
    BY <1>0, <2>1, <2>3 DEF ExitInv
  <2>5. NoHigh /\ (\A s \in Sides : highs[s] > 0 => Followed(s)) /\ (hedged = "over" => OneLow)
        /\ (hedged = "over" /\ exit = "none" => NoLow) /\ (hedged = "under" => exit # "cheap")
    BY <1>0, <2>1 DEF ExitInv
  <2> QED BY <1>0, <2>1, <2>2, <2>4, <2>5 DEF ExitInv, NoLow, NoHigh, OneLow, Followed
<1>5. CASE SellLow
  <2>1. /\ ~sim /\ hedged \in {"under", "over"} /\ exit # "done" /\ UNCHANGED <<hedged, highs, refused>>
        /\ hedged = "over" => exit = "none" /\ NoLow
        /\ hedged = "under" => exit = "none"
        /\ NoHigh
    BY <1>0, <1>5 DEF SellLow, ExitInv
  <2>2. CASE UNCHANGED <<exit, lows>> /\ pc' = "idle"
    BY <1>0, <2>1, <2>2 DEF ExitInv, NoLow, NoHigh, OneLow, Followed
  <2>3. CASE /\ lows' = [lows EXCEPT ![side] = Lower(lows[side] + 1, 2)]
             /\ exit' = CheapPlaced /\ pc' = "sellHigh" /\ side' = side
    <3>1. /\ \A s \in Sides : s # side => lows'[s] = lows[s]
          /\ lows'[side] > 0 /\ (lows[side] = 0 => lows'[side] = 1)
      BY <1>0, <2>3 DEF Lower
    <3>2. NoHigh' /\ ~NoLow'
      BY <1>0, <2>1, <3>1 DEF NoHigh, NoLow
    <3>3. hedged = "over" => exit' = "cheap" /\ OneLow'
      BY <1>0, <2>1, <2>3, <3>1 DEF CheapPlaced, OneLow, NoLow
    <3>4. hedged = "under" => exit' = "none"
      BY <2>1, <2>3 DEF CheapPlaced
    <3>5. \A s \in Sides : highs'[s] = 0
      BY <3>2 DEF NoHigh
    <3> QED BY <1>0, <2>1, <2>3, <3>1, <3>2, <3>3, <3>4, <3>5 DEF ExitInv
  <2> QED BY <1>5, <2>2, <2>3 DEF SellLow, Returns, GoesTo, orderVars
<1>6. CASE SellHigh
  <2>1. /\ pc = "sellHigh" /\ pc' = "idle" /\ UNCHANGED <<hedged, lows>>
        /\ ~sim /\ hedged \in {"under", "over"} /\ exit # "done" /\ NoHigh /\ ~NoLow
        /\ hedged = "over" => exit = "cheap" /\ OneLow
        /\ hedged = "under" => exit = "none"
        /\ lows[side] > 0 \/ (hedged = "over" /\ refused /\ ~NoLow)
    <3>1. pc = "sellHigh" /\ pc' = "idle" /\ UNCHANGED <<hedged, lows>>
      BY <1>6 DEF SellHigh, Returns, GoesTo
    <3>2. lows[side] > 0 => ~NoLow
      BY <1>0 DEF NoLow
    <3> QED BY <1>0, <3>1, <3>2 DEF ExitInv
  <2>2. NoLow' <=> NoLow
    BY <2>1 DEF NoLow
  <2>3. OneLow' <=> OneLow
    BY <2>1 DEF OneLow
  <2>4. CASE refused' = TRUE /\ UNCHANGED <<exit, highs>>
    BY <1>0, <2>1, <2>2, <2>3, <2>4 DEF ExitInv, NoHigh
  <2>5. CASE /\ highs' = [highs EXCEPT ![Other(side)] = Lower(highs[Other(side)] + 1, 2)]
             /\ exit' = "done" /\ UNCHANGED refused
    <3>1. Other(side) \in Sides /\ Other(side) # side
      BY <1>0 DEF Other, Sides
    <3>2. /\ highs'[Other(side)] > 0
          /\ \A s \in Sides : s # Other(side) => highs'[s] = 0
      BY <1>0, <2>1, <2>5, <3>1 DEF NoHigh, Lower
    <3>3. \E t \in Sides : lows[t] > 0 /\ (t = Other(side) => hedged = "over" /\ refused)
      <4>1. CASE lows[side] > 0
        BY <1>0, <3>1, <4>1
      <4>2. CASE hedged = "over" /\ refused /\ ~NoLow
        BY <1>0, <4>2 DEF NoLow
      <4> QED BY <2>1, <4>1, <4>2
    <3>4. \A s \in Sides : highs'[s] > 0 =>
              \E t \in Sides : lows'[t] > 0 /\ (t = s => hedged' = "over" /\ refused')
      BY <2>1, <2>5, <3>2, <3>3
    <3>5. ~NoHigh'
      BY <3>1, <3>2 DEF NoHigh
    <3> QED BY <1>0, <2>1, <2>2, <2>3, <2>5, <3>4, <3>5 DEF ExitInv, Followed
  <2> QED BY <1>6, <2>4, <2>5 DEF SellHigh
<1> QED BY <1>1, <1>2, <1>3, <1>4, <1>5, <1>6, QuietSteps

-----------------------------------------------------------------------------
\* The state has its type: three attempts at most, a trail of prices, and what
\* is remembered of a hedge one of four things.
THEOREM Typed == Spec => []TypeOK
BY TypedInit, TypeStep, PTL DEF Spec

LEMMA Inductive == Spec => []IInv
<1>1. IInv /\ [Next]_vars => IInv'
  BY TypeStep, HeldStep, HedgeStep, ExitStep DEF IInv
<1> QED BY <1>1, InitIInv, PTL DEF Spec

\* No second hedge once one was answered Ok: both sides are held from then on,
\* and no rule of the callback comes to post another market buy in the period,
\* whatever fails or fills meanwhile.  (Buys whose answer was lost are not
\* counted: the code tries those again.)
THEOREM HedgedOnce == Spec => []OneHedge
<1>1. IInv => OneHedge
  BY DEF IInv, TypeOK, CallbackTypeOK, Sections, HedgeInv, Hedging, Before, Between, After, OneHedge
<1> QED BY <1>1, Inductive, PTL

-----------------------------------------------------------------------------
(* The refinement. *)

LEMMA PairInit == Init => Pair!Init
BY DEF Init, TraderInit, Pair!Init

\* Only an answered buy counts as a hedge.
LEMMA BuysStay == ASSUME Next, ~BuyOk PROVE buys' = buys
<1>1. CASE PlaceBatch \/ \E s \in Sides : PlaceSingle(s)
  BY <1>1 DEF PlaceBatch, PlaceSingle, history
<1>2. CASE OneSide \/ TwoMinHedge \/ FourMinHedge \/ StandardHedge
  BY <1>2 DEF OneSide, TwoMinHedge, FourMinHedge, StandardHedge, Sits, history
<1>3. CASE ReadUp \/ Cancel \/ CancelAnswered \/ BuyFails \/ Mark \/ Record
  BY <1>3 DEF ReadUp, Cancel, CancelAnswered, BuyFails, Mark, Record, history
<1>4. CASE Exit \/ SellLow \/ SellHigh \/ Outside
  BY <1>4 DEF Exit, SellLow, SellHigh, Outside, history
<1>5. CASE \E t \in Elapsed, b \in Bids : Begins(t, b)
  BY <1>5 DEF Begins, history
<1> QED BY <1>1, <1>2, <1>3, <1>4, <1>5 DEF Next, Callback

\* Steps that sell nothing and record no hedge acquire at most.
LEMMA Acquires ==
    ASSUME IInv, [Next]_vars, UNCHANGED <<buys, hedged, exit, sells>>
    PROVE  Pair!Acquire
BY TraderSteps DEF Pair!Acquire, Pair!offers, sells

LEMMA PairStep == ASSUME IInv, [Next]_vars PROVE [Pair!Next]_(Pair!vars)
<1>0. /\ ExitInv /\ HedgeInv /\ held \subseteq Sides /\ side \in Sides
      /\ lows \in [Sides -> 0..2] /\ highs \in [Sides -> 0..2]
      /\ held' \subseteq Sides /\ sim' = sim /\ sim \in BOOLEAN
  BY TraderSteps DEF IInv, TypeOK, TraderTypeOK, CallbackTypeOK
<1>1. CASE BuyOk
  <2>1. Before /\ Other(side) \in held /\ side \in Sides
    BY <1>0, <1>1 DEF BuyOk, HedgeInv, IInv, TypeOK, CallbackTypeOK
  <2>2. held' = Sides /\ buys' = 1 /\ held # {}
    <3>1. held' = held \cup {side}
      BY <1>1 DEF BuyOk, MarketBuy, Deliver
    <3>2. buys' = 1
      BY <1>1, <2>1 DEF BuyOk, Before, Lower
    <3> QED BY <1>0, <2>1, <3>1, <3>2 DEF Other, Sides
  <2>3. UNCHANGED <<hedged, exit, sells>>
    BY <1>1 DEF BuyOk, memory
  <2>4. Pair!Hedge
    BY <1>0, <2>1, <2>2, <2>3 DEF Before, Pair!Hedge, Pair!offers, sells
  <2> QED BY <2>4 DEF Pair!Next
<1>2. CASE Mark \/ Record
  <2>1. Between /\ held' = held /\ UNCHANGED <<buys, exit, sells>>
    BY <1>0, <1>2 DEF Mark, Record, HedgeInv, MarkFilledByHedge, traderVars, history
  <2>2. hedged' = hedged \/ hedged' \in {"two", "under", "over"}
    BY <1>2 DEF Mark, Record, Recorded, PriceClass
  <2>3. CASE hedged' = hedged
    BY <2>1, <2>3, Acquires DEF Pair!Next
  <2>4. CASE hedged' \in {"two", "under", "over"}
    <3>1. Pair!RecordHedge
      BY <1>0, <2>1, <2>4 DEF Between, Pair!RecordHedge, Pair!Kinds, Pair!offers, sells
    <3> QED BY <3>1 DEF Pair!Next
  <2> QED BY <2>2, <2>3, <2>4
<1>3. CASE Exit
  <2>1. /\ hedged \in {"under", "over"} /\ exit # "done"
        /\ held' = held /\ UNCHANGED <<hedged, buys, sells>>
        /\ exit' = exit \/ (sim /\ exit' = "done")
    BY <1>0, <1>3 DEF Exit, At, ExitInv, history, traderVars
  <2>2. CASE exit' = exit
    BY <2>1, <2>2, Acquires DEF Pair!Next
  <2>3. CASE sim /\ exit' = "done"
    <3>1. Pair!Note
      BY <1>0, <2>1, <2>3 DEF Pair!Note, Pair!offers, sells
    <3> QED BY <3>1 DEF Pair!Next
  <2> QED BY <2>1, <2>2, <2>3
<1>4. CASE SellLow
  <2>1. /\ ~sim /\ hedged \in {"under", "over"} /\ exit # "done"
        /\ hedged = "over" => NoLow
        /\ held' = held /\ UNCHANGED <<hedged, buys, highs, refused>>
    BY <1>0, <1>4 DEF SellLow, ExitInv, traderVars
  <2>2. CASE UNCHANGED <<exit, lows>>
    BY <2>1, <2>2, Acquires DEF Pair!Next, sells
  <2>3. CASE lows' = [lows EXCEPT ![side] = Lower(lows[side] + 1, 2)] /\ exit' = CheapPlaced
    <3>1. CASE lows[side] = 2
      <4>1. hedged = "under" /\ exit' = exit
        BY <1>0, <2>1, <2>3, <3>1 DEF NoLow, CheapPlaced
      <4>2. lows' = lows
        BY <1>0, <2>3, <3>1 DEF Lower
      <4> QED BY <2>1, <4>1, <4>2, Acquires DEF Pair!Next, sells
    <3>2. CASE lows[side] # 2
      <4>1. exit' # "done"
        BY <2>1, <2>3 DEF CheapPlaced
      <4>2. Lower(lows[side] + 1, 2) = lows[side] + 1
        BY <1>0, <3>2 DEF Lower
      <4>3. lows' = [lows EXCEPT ![side] = lows[side] + 1]
        BY <2>3, <4>2
      <4>4. \E s \in Sides : lows' = [lows EXCEPT ![s] = lows[s] + 1]
        BY <1>0, <4>3
      <4>5. Pair!SellLow
        BY <1>0, <2>1, <4>1, <4>4 DEF Pair!SellLow, Pair!ForSale, Pair!NoLow, NoLow
      <4> QED BY <4>5 DEF Pair!Next
    <3> QED BY <3>1, <3>2
  <2> QED BY <1>4, <2>2, <2>3 DEF SellLow
<1>5. CASE SellHigh
  <2>1. /\ ~sim /\ hedged \in {"under", "over"} /\ exit # "done" /\ NoHigh
        /\ lows[side] > 0 \/ (hedged = "over" /\ refused /\ ~NoLow)
        /\ held' = held /\ UNCHANGED <<hedged, buys, lows>>
    BY <1>0, <1>5 DEF SellHigh, ExitInv, traderVars
  <2>2. Other(side) \in Sides /\ Other(side) # side
    BY <1>0 DEF Other, Sides
  <2>3. CASE refused' = TRUE /\ UNCHANGED <<exit, highs>>
    <3>1. ~NoLow
      BY <1>0, <2>1 DEF NoLow
    <3>2. Pair!Refuse
      BY <1>0, <2>1, <2>3, <3>1 DEF Pair!Refuse, Pair!ForSale, Pair!NoLow, NoLow, Pair!offers
    <3> QED BY <3>2 DEF Pair!Next
  <2>4. CASE /\ highs' = [highs EXCEPT ![Other(side)] = Lower(highs[Other(side)] + 1, 2)]
             /\ exit' = "done" /\ UNCHANGED refused
    <3>1. highs' = [highs EXCEPT ![Other(side)] = 1]
      <4>1. Lower(highs[Other(side)] + 1, 2) = 1
        BY <2>1, <2>2 DEF NoHigh, Lower
      <4> QED BY <2>4, <4>1
    <3>2. Other(side) \in Pair!Paired
      <4>1. CASE lows[side] > 0
        BY <1>0, <2>2, <4>1 DEF Pair!Paired
      <4>2. CASE hedged = "over" /\ refused /\ ~NoLow
        BY <1>0, <2>2, <4>2 DEF Pair!Paired, NoLow
      <4> QED BY <2>1, <4>1, <4>2
    <3>3. Pair!SellHigh
      BY <1>0, <2>1, <2>4, <3>1, <3>2 DEF Pair!SellHigh, Pair!ForSale
    <3> QED BY <3>3 DEF Pair!Next
  <2> QED BY <1>5, <2>3, <2>4 DEF SellHigh
<1>6. CASE UNCHANGED vars
  BY <1>6 DEF vars, traderVars, memory, history, sells, Pair!vars, Pair!offers
<1>7. CASE Next /\ ~BuyOk /\ ~Mark /\ ~Record /\ ~Exit /\ ~SellLow /\ ~SellHigh
  BY <1>7, QuietSteps, BuysStay, Acquires DEF Quiet, Pair!Next
<1> QED BY <1>1, <1>2, <1>3, <1>4, <1>5, <1>6, <1>7

\* The bot implements the hedged pair: every behaviour of its callback, of the
\* check task and of the exchange is one that HedgedPair allows.
THEOREM BotImplementsPair == Spec => ImplementsHedgedPair
<1>1. Init => Pair!Init
  BY PairInit
<1>2. IInv /\ [Next]_vars => [Pair!Next]_(Pair!vars)
  BY PairStep
<1> QED BY <1>1, <1>2, Inductive, PTL DEF Spec, Pair!Spec, ImplementsHedgedPair

\* What was acquired and hedged stays so; nothing but a hedged pair is offered
\* for sale; the bot is done with a pair only when one side was accepted high,
\* after the other low, or, at 0.60 or more and after a high offer has failed,
\* after itself; at 0.60 or more one side was accepted low, once; and it leaves
\* the pair alone from then on.
THEOREM SoldOnce == Spec => []Pair!Outcome /\ Pair!Kept
<1>1. IInv => Pair!Outcome
  <2> SUFFICES ASSUME IInv PROVE Pair!Outcome
    OBVIOUS
  <2>1. /\ ExitInv /\ sim \in BOOLEAN /\ lows \in [Sides -> 0..2] /\ highs \in [Sides -> 0..2]
        /\ hedged \in {"no", "two", "under", "over"} /\ exit \in {"none", "cheap", "done"}
        /\ held \subseteq Sides
        /\ Before \/ Between \/ After
    BY DEF IInv, TypeOK, TraderTypeOK, CallbackTypeOK, MemoryTypeOK, Sections, HedgeInv, Hedging
  <2>2. buys \in 0..1 /\ (buys = 1 => held = Sides) /\ (hedged # "no" => buys = 1)
    BY <2>1 DEF Before, Between, After
  <2>3. exit = "done" \/ ~Pair!NoLow => hedged \in {"under", "over"}
    BY <2>1 DEF ExitInv, NoLow, Pair!NoLow
  <2>4. ~Pair!NoHigh <=> exit = "done" /\ ~sim
    BY <2>1 DEF ExitInv, NoHigh, Pair!NoHigh
  <2>5. \A s \in Sides : highs[s] > 0 => s \in Pair!Paired
    BY <2>1 DEF ExitInv, Followed, Pair!Paired
  <2>6. hedged = "over" => \A s, t \in Sides : lows[s] > 0 /\ lows[t] > 0 => s = t /\ lows[s] = 1
    BY <2>1 DEF ExitInv, OneLow
  <2> QED BY <2>1, <2>2, <2>3, <2>4, <2>5, <2>6 DEF Pair!Outcome
<1>2. Pair!Outcome /\ [Pair!Next]_(Pair!vars) => [Pair!Keeps]_(Pair!vars)
  <2> SUFFICES ASSUME Pair!Outcome, Pair!Next PROVE Pair!Keeps
    OBVIOUS
  <2>1. CASE Pair!Acquire \/ Pair!RecordHedge \/ Pair!Note \/ Pair!Refuse
    BY <2>1 DEF Pair!Acquire, Pair!RecordHedge, Pair!Note, Pair!Refuse, Pair!ForSale, Pair!Keeps,
       Pair!Outcome
  <2>2. CASE Pair!Hedge
    BY <2>2 DEF Pair!Hedge, Pair!Keeps, Pair!Outcome
  <2>3. CASE Pair!SellLow \/ Pair!SellHigh
    BY <2>3 DEF Pair!SellLow, Pair!SellHigh, Pair!ForSale, Pair!Keeps, Pair!Outcome
  <2> QED BY <2>1, <2>2, <2>3 DEF Pair!Next
<1>3. IInv /\ [Next]_vars => [Pair!Next]_(Pair!vars)
  BY PairStep
<1> QED BY <1>1, <1>2, <1>3, Inductive, PTL DEF Spec, Pair!Kept

-----------------------------------------------------------------------------
(* The callback ends: how many steps it can still take.                    *)

SectionRank ==
    [idle |-> 0, exit |-> 4, standard |-> 17, four |-> 22, two |-> 30, one |-> 38]

BuyRank == [standard |-> 13, four |-> 18, two |-> 23, high |-> 26]

TriesLeft == Attempts - tries
ForOne == IF path = "one" THEN 25 ELSE 0

Rank ==
    CASE pc = "idle" -> 0
      [] pc \in DOMAIN SectionRank \ {"idle"} ->
            IF seen = "unread" THEN SectionRank[pc] ELSE SectionRank[pc] - 1
      [] pc = "place" -> 41
      [] pc = "single" -> IF want = Sides THEN 40 ELSE 39
      [] pc = "cancel" -> 7 + 2 * TriesLeft + ForOne
      [] pc = "cancelling" -> 6 + 2 * TriesLeft + ForOne
      [] pc = "buy" -> BuyRank[path] + TriesLeft
      [] pc = "mark" -> 12
      [] pc = "record" -> 5
      [] pc = "sellLow" -> 2
      [] pc = "sellHigh" -> 1

\* Tries are counted from one.
StageInv == pc \in {"buy", "cancel", "cancelling"} => tries \in 1..Attempts

Falls == pc = "idle" \/ Rank' < Rank \/ (Outside /\ Rank' = Rank)

LEMMA FromRank ==
    ASSUME NEW t, NEW c, NEW h, NEW x
    PROVE  /\ FromExit(t, c, h, x) \in {"exit", "idle"}
           /\ FromStandard(t, c, h, x) \in {"standard", "exit", "idle"}
           /\ FromFour(t, c, h, x) \in {"four", "standard", "exit", "idle"}
           /\ FromTwo(t, c, h, x) \in {"two", "four", "standard", "exit", "idle"}
           /\ FromOne(t, c, h, x) \in Sections
BY DEF FromOne, FromTwo, FromFour, FromStandard, FromExit, Sections

LEMMA LandsRank ==
    ASSUME NEW n \in Sections, NEW t, NEW b, GoesTo(n, t, b)
    PROVE  StageInv' /\ Rank' = SectionRank[n] /\ pc' = n
<1>1. pc' = n /\ seen' = "unread" /\ n \in DOMAIN SectionRank
  BY DEF GoesTo, Sections, SectionRank
<1>2. StageInv'
  BY <1>1 DEF StageInv, Sections
<1>3. Rank' = SectionRank[pc']
  <2>1. DOMAIN SectionRank = {"idle", "exit", "standard", "four", "two", "one"} /\ SectionRank["idle"] = 0
    BY DEF SectionRank
  <2> QED BY <1>1, <2>1 DEF Rank, Sections
<1> QED BY <1>1, <1>2, <1>3

\* The rank of every place the callback can be at.
Ranked ==
    /\ pc = "idle" => Rank = 0
    /\ pc = "exit" => Rank = IF seen = "unread" THEN 4 ELSE 3
    /\ pc = "standard" => Rank = IF seen = "unread" THEN 17 ELSE 16
    /\ pc = "four" => Rank = IF seen = "unread" THEN 22 ELSE 21
    /\ pc = "two" => Rank = IF seen = "unread" THEN 30 ELSE 29
    /\ pc = "one" => Rank = IF seen = "unread" THEN 38 ELSE 37
    /\ pc = "place" => Rank = 41
    /\ pc = "single" => Rank = IF want = Sides THEN 40 ELSE 39
    /\ pc = "cancel" => Rank = (IF path = "one" THEN 32 ELSE 7) + 2 * (3 - tries)
    /\ pc = "cancelling" => Rank = (IF path = "one" THEN 31 ELSE 6) + 2 * (3 - tries)
    /\ pc = "buy" /\ path = "standard" => Rank = 13 + (3 - tries)
    /\ pc = "buy" /\ path = "four" => Rank = 18 + (3 - tries)
    /\ pc = "buy" /\ path = "two" => Rank = 23 + (3 - tries)
    /\ pc = "buy" /\ path = "high" => Rank = 26 + (3 - tries)
    /\ pc = "mark" => Rank = 12
    /\ pc = "record" => Rank = 5
    /\ pc = "sellLow" => Rank = 2
    /\ pc = "sellHigh" => Rank = 1

LEMMA RankValues ==
    ASSUME IInv
    PROVE  Ranked
<1>1. tries \in 0..3 /\ TriesLeft = 3 - tries
  BY DEF IInv, TypeOK, CallbackTypeOK, Attempts, TriesLeft
<1>2. DOMAIN SectionRank = {"idle", "exit", "standard", "four", "two", "one"}
  BY DEF SectionRank
<1>3. /\ SectionRank["idle"] = 0 /\ SectionRank["exit"] = 4 /\ SectionRank["standard"] = 17
      /\ SectionRank["four"] = 22 /\ SectionRank["two"] = 30 /\ SectionRank["one"] = 38
  BY DEF SectionRank
<1>4. /\ BuyRank["standard"] = 13 /\ BuyRank["four"] = 18 /\ BuyRank["two"] = 23
      /\ BuyRank["high"] = 26
  BY DEF BuyRank
<1>5. CASE pc \in {"idle", "exit", "standard", "four", "two", "one"}
  <2>1. pc # "idle" => Rank = IF seen = "unread" THEN SectionRank[pc] ELSE SectionRank[pc] - 1
    BY <1>2, <1>5 DEF Rank
  <2>2. pc = "idle" => Rank = 0
    BY DEF Rank
  <2> QED BY <1>3, <1>5, <2>1, <2>2 DEF Ranked
<1>6. CASE pc \in {"cancel", "cancelling"}
  <2>1. Rank = IF pc = "cancel" THEN 7 + 2 * TriesLeft + ForOne ELSE 6 + 2 * TriesLeft + ForOne
    BY <1>2, <1>6 DEF Rank
  <2> QED BY <1>1, <1>6, <2>1 DEF ForOne, Ranked
<1>7. CASE pc = "buy"
  <2>1. Rank = BuyRank[path] + TriesLeft
    BY <1>2, <1>7 DEF Rank
  <2> QED BY <1>1, <1>4, <1>7, <2>1 DEF Ranked
<1>8. CASE pc \in {"place", "single", "mark", "record", "sellLow", "sellHigh"}
  BY <1>2, <1>8 DEF Rank, Ranked
<1> QED BY <1>5, <1>6, <1>7, <1>8 DEF IInv, TypeOK, CallbackTypeOK, Sections

\* At most 41 steps are left, and none when it has returned.
LEMMA RankBounds ==
    ASSUME IInv, StageInv
    PROVE  Rank \in 0..41 /\ (pc # "idle" => Rank > 0)
<1>1. tries \in 0..3 /\ (pc \in {"buy", "cancel", "cancelling"} => tries \in 1..3)
  BY DEF IInv, TypeOK, CallbackTypeOK, Attempts, StageInv
<1>2. CASE pc \in {"cancel", "cancelling"}
  <2>1. Rank = (IF path = "one" THEN IF pc = "cancel" THEN 32 ELSE 31 ELSE IF pc = "cancel" THEN 7 ELSE 6)
               + 2 * (3 - tries)
    BY <1>2, RankValues DEF Ranked
  <2> QED BY <1>1, <1>2, <2>1
<1>3. CASE pc = "buy"
  <2>1. path \in {"standard", "four", "two", "high"}
    BY <1>3 DEF IInv, HedgeInv, Hedging
  <2> QED BY <1>1, <1>3, <2>1, RankValues DEF Ranked
<1>4. CASE pc \notin {"cancel", "cancelling", "buy"}
  BY <1>4, RankValues DEF Ranked, IInv, TypeOK, CallbackTypeOK, Sections
<1> QED BY <1>2, <1>3, <1>4

\* A section that leaves lands under its own rank.
LEMMA LeavesFalls ==
    ASSUME NEW n \in Sections, Leaves(n)
    PROVE  StageInv' /\ Rank' = SectionRank[n] /\ pc' = n
BY LandsRank DEF Leaves

LEMMA ToRank ==
    /\ SectionRank[ToExit] \in 0..4 /\ SectionRank[ToStandard] \in 0..17 /\ SectionRank[ToFour] \in 0..22
    /\ SectionRank[ToTwo] \in 0..30 /\ SectionRank[ToOne] \in 0..38
    /\ \A c : SectionRank[FromTwo(at, c, hedged, exit)] \in 0..30
<1>1. /\ SectionRank["idle"] = 0 /\ SectionRank["exit"] = 4 /\ SectionRank["standard"] = 17
      /\ SectionRank["four"] = 22 /\ SectionRank["two"] = 30 /\ SectionRank["one"] = 38
  BY DEF SectionRank
<1>2. /\ ToExit \in {"exit", "idle"} /\ ToStandard \in {"standard", "exit", "idle"}
      /\ ToFour \in {"four", "standard", "exit", "idle"}
      /\ ToTwo \in {"two", "four", "standard", "exit", "idle"} /\ ToOne \in Sections
      /\ \A c : FromTwo(at, c, hedged, exit) \in {"two", "four", "standard", "exit", "idle"}
  BY FromRank DEF ToExit, ToStandard, ToFour, ToTwo, ToOne
<1> QED BY <1>1, <1>2 DEF Sections

\* An order or a cancellation that starts, has another try or moves on.
LEMMA StartsRank ==
    ASSUME Ranked', NEW s, NEW p, StartsCancel(s, p) \/ StartsBuy(s, p)
    PROVE  /\ StageInv'
           /\ StartsCancel(s, p) => Rank' = IF p = "one" THEN 36 ELSE 11
           /\ StartsBuy(s, p) => /\ p = "standard" => Rank' = 15
                                 /\ p = "four" => Rank' = 20
                                 /\ p = "two" => Rank' = 25
                                 /\ p = "high" => Rank' = 28
BY DEF StartsCancel, StartsBuy, Ranked, StageInv, Attempts

LEMMA TrailsRank ==
    ASSUME Ranked', NEW s, Trails(s)
    PROVE  StageInv' /\ Rank' \in 0..25
<1>1. CASE Leaves(ToFour)
  BY <1>1, LeavesFalls, ToSections, ToRank
<1>2. CASE StartsBuy(s, "two")
  BY <1>2, StartsRank
<1> QED BY <1>1, <1>2 DEF Trails

LEMMA SectionFalls ==
    ASSUME IInv, StageInv, Ranked, Ranked',
           ReadUp \/ OneSide \/ TwoMinHedge \/ FourMinHedge \/ StandardHedge
    PROVE  StageInv' /\ Rank' < Rank
<1>1. CASE ReadUp
  <2>1. seen = "unread" /\ seen' # "unread" /\ pc' = pc /\ pc \in {"one", "two", "four", "standard", "exit"}
    BY <1>1 DEF ReadUp, Tracked, IInv, TypeOK, TraderTypeOK, Sides
  <2>2. Rank' < Rank
    BY <2>1 DEF Ranked
  <2> QED BY <2>1, <2>2 DEF StageInv
<1>2. CASE OneSide
  <2>1. Rank = 37
    BY <1>2 DEF OneSide, At, Ranked
  <2>2. CASE \E s \in Sides : StartsCancel(s, "one")
    BY <2>1, <2>2, StartsRank
  <2>3. CASE Leaves(ToTwo)
    BY <2>1, <2>3, LeavesFalls, ToSections, ToRank
  <2> QED BY <1>2, <2>2, <2>3 DEF OneSide
<1>3. CASE TwoMinHedge
  <2>1. Rank = 29
    BY <1>3 DEF TwoMinHedge, At, Ranked
  <2>2. CASE \E s \in Sides : StartsBuy(s, "high")
    BY <2>1, <2>2, StartsRank
  <2>3. ASSUME NEW s \in Sides, Trails(s) PROVE StageInv' /\ Rank' < Rank
    BY <2>1, <2>3, TrailsRank
  <2>4. CASE Leaves(ToFour)
    BY <2>1, <2>4, LeavesFalls, ToSections, ToRank
  <2> QED BY <1>3, <2>2, <2>3, <2>4 DEF TwoMinHedge
<1>4. CASE FourMinHedge
  <2>1. Rank = 21
    BY <1>4 DEF FourMinHedge, At, Ranked
  <2>2. CASE \E s \in Sides : StartsBuy(s, "four")
    BY <2>1, <2>2, StartsRank
  <2>3. CASE Leaves(ToStandard)
    BY <2>1, <2>3, LeavesFalls, ToSections, ToRank
  <2> QED BY <1>4, <2>2, <2>3 DEF FourMinHedge
<1>5. CASE StandardHedge
  <2>1. Rank = 16
    BY <1>5 DEF StandardHedge, At, Ranked
  <2>2. CASE \E s \in Sides : StartsBuy(s, "standard")
    BY <2>1, <2>2, StartsRank
  <2>3. CASE Leaves(ToExit)
    BY <2>1, <2>3, LeavesFalls, ToSections, ToRank
  <2> QED BY <1>5, <2>2, <2>3 DEF StandardHedge
<1> QED BY <1>1, <1>2, <1>3, <1>4, <1>5

LEMMA PlacingFalls ==
    ASSUME IInv, StageInv, Ranked, Ranked', PlaceBatch \/ \E s \in Sides : PlaceSingle(s)
    PROVE  StageInv' /\ Rank' < Rank
<1>1. want \subseteq Sides /\ (pc \in {"place", "single"} => Rank \in 39..41)
  BY DEF IInv, TypeOK, CallbackTypeOK, Ranked
<1>2. ASSUME NEW W, W \subseteq Sides, Places(W), pc = "place" \/ (pc = "single" /\ W # want /\ W \subseteq want)
      PROVE  StageInv' /\ Rank' < Rank
  <2>1. CASE W = {}
    <3>1. Leaves(ToOne)
      BY <1>2, <2>1 DEF Places
    <3> QED BY <1>1, <1>2, <3>1, LeavesFalls, ToSections, ToRank
  <2>2. CASE W # {}
    <3>1. pc' = "single" /\ want' = W
      BY <1>2, <2>2 DEF Places
    <3>2. pc = "single" => want = Sides /\ W # Sides
      BY <1>1, <1>2, <2>2 DEF Sides
    <3>3. Rank' < Rank
      BY <1>2, <3>1, <3>2 DEF Ranked
    <3> QED BY <2>2, <3>1, <3>3 DEF StageInv
  <2> QED BY <2>1, <2>2
<1>3. CASE PlaceBatch
  <2>1. PICK S \in SUBSET want : Places(want \ S)
    BY <1>3 DEF PlaceBatch
  <2> QED BY <1>1, <1>2, <1>3, <2>1 DEF PlaceBatch
<1>4. ASSUME NEW s \in Sides, PlaceSingle(s) PROVE StageInv' /\ Rank' < Rank
  <2>1. pc = "single" /\ s \in want /\ Places(want \ {s})
    BY <1>4 DEF PlaceSingle
  <2> QED BY <1>1, <1>2, <2>1
<1> QED BY <1>3, <1>4

LEMMA CancelledFalls ==
    ASSUME IInv, StageInv, Ranked, Ranked', NEW ok, Cancelled(ok), pc \in {"cancel", "cancelling"}
    PROVE  StageInv' /\ Rank' < Rank
<1>1. /\ tries \in 1..3
      /\ path = "one" => Rank \in 31..36
      /\ path # "one" => Rank \in 6..11
  BY DEF StageInv, Attempts, Ranked
<1>2. CASE path = "one"
  <2>1. Leaves(FromTwo(at, ok, hedged, exit))
    BY <1>2 DEF Cancelled
  <2>2. StageInv' /\ Rank' = SectionRank[FromTwo(at, ok, hedged, exit)]
    BY <2>1, FromSections, LeavesFalls
  <2> QED BY <1>1, <1>2, <2>2, ToRank
<1>3. CASE path = "standard"
  <2>1. Leaves(ToExit)
    BY <1>3 DEF Cancelled
  <2> QED BY <1>1, <1>3, <2>1, LeavesFalls, ToSections, ToRank
<1>4. CASE path \in {"high", "two", "four"}
  <2>1. pc' = "record"
    BY <1>4 DEF Cancelled, Moves
  <2>2. Rank' = 5 /\ StageInv'
    BY <2>1 DEF Ranked, StageInv
  <2> QED BY <1>1, <1>4, <2>2
<1> QED BY <1>2, <1>3, <1>4 DEF Cancelled

LEMMA CancelFalls ==
    ASSUME IInv, StageInv, Ranked, Ranked', Cancel \/ CancelAnswered
    PROVE  StageInv' /\ Rank' < Rank
<1>1. pc \in {"cancel", "cancelling"}
  BY DEF Cancel, CancelAnswered
<1>2. tries \in 1..3 /\ Rank = (IF path = "one" THEN 31 ELSE 6) + (IF pc = "cancel" THEN 1 ELSE 0) + 2 * (3 - tries)
  BY <1>1 DEF StageInv, Attempts, Ranked
<1>3. CASE Cancelled(TRUE) \/ Cancelled(FALSE)
  BY <1>1, <1>3, CancelledFalls
<1>4. CASE pc = "cancel" /\ pc' = "cancelling" /\ UNCHANGED <<path, tries>>
  <2>1. Rank' = (IF path = "one" THEN 31 ELSE 6) + 2 * (3 - tries)
    BY <1>4 DEF Ranked
  <2> QED BY <1>2, <1>4, <2>1 DEF StageInv, Attempts
<1>5. CASE pc = "cancelling" /\ pc' = "cancel" /\ MoreTries /\ tries' = tries + 1 /\ path' = path
  <2>1. Rank' = (IF path = "one" THEN 32 ELSE 7) + 2 * (3 - tries')
    BY <1>5 DEF Ranked
  <2>2. tries' \in 2..3
    BY <1>2, <1>5 DEF MoreTries, Attempts
  <2> QED BY <1>2, <1>5, <2>1, <2>2 DEF StageInv, Attempts
<1>6. CASE Cancel
  BY <1>3, <1>4, <1>6 DEF Cancel, orderVars
<1>7. CASE CancelAnswered
  BY <1>3, <1>5, <1>7 DEF CancelAnswered
<1> QED BY <1>6, <1>7

LEMMA BuyFalls ==
    ASSUME IInv, StageInv, Ranked, Ranked', BuyOk \/ BuyFails
    PROVE  StageInv' /\ Rank' < Rank
<1>1. pc = "buy" /\ tries \in 1..3 /\ path \in {"standard", "four", "two", "high"}
  BY DEF BuyOk, BuyFails, StageInv, Attempts, IInv, HedgeInv, Hedging
<1>2. /\ path = "standard" => Rank = 13 + (3 - tries)
      /\ path = "four" => Rank = 18 + (3 - tries)
      /\ path = "two" => Rank = 23 + (3 - tries)
      /\ path = "high" => Rank = 26 + (3 - tries)
  BY <1>1 DEF Ranked
<1>3. CASE BuyOk
  <2>1. pc' = "mark"
    BY <1>3 DEF BuyOk, Moves
  <2>2. Rank' = 12 /\ StageInv'
    BY <2>1 DEF Ranked, StageInv
  <2> QED BY <1>1, <1>2, <2>2
<1>4. CASE MoreTries /\ tries' = tries + 1 /\ UNCHANGED <<pc, path>>
  <2>1. tries' \in 2..3
    BY <1>1, <1>4 DEF MoreTries, Attempts
  <2>2. /\ path = "standard" => Rank' = 13 + (3 - tries')
        /\ path = "four" => Rank' = 18 + (3 - tries')
        /\ path = "two" => Rank' = 23 + (3 - tries')
        /\ path = "high" => Rank' = 26 + (3 - tries')
    BY <1>1, <1>4 DEF Ranked
  <2>3. Rank' < Rank
    BY <1>1, <1>2, <1>4, <2>1, <2>2
  <2> QED BY <1>1, <1>4, <2>1, <2>3 DEF StageInv, Attempts
<1>5. CASE path = "high" /\ Trails(side)
  BY <1>1, <1>2, <1>5, TrailsRank
<1>6. CASE path = "two" /\ Leaves(ToFour)
  BY <1>1, <1>2, <1>6, LeavesFalls, ToSections, ToRank
<1>7. CASE path = "four" /\ Leaves(ToStandard)
  BY <1>1, <1>2, <1>7, LeavesFalls, ToSections, ToRank
<1>8. CASE path = "standard" /\ Leaves(ToExit)
  BY <1>1, <1>2, <1>8, LeavesFalls, ToSections, ToRank
<1> QED BY <1>3, <1>4, <1>5, <1>6, <1>7, <1>8 DEF BuyFails

LEMMA HedgedFalls ==
    ASSUME IInv, StageInv, Ranked, Ranked', Mark \/ Record
    PROVE  StageInv' /\ Rank' < Rank
<1>1. CASE Mark
  <2>1. Rank = 12 /\ path # "one"
    BY <1>1 DEF Mark, Ranked, IInv, HedgeInv, Hedging
  <2>2. pc' \in {"record", "cancel"} /\ tries' = 1 /\ path' = path
    BY <1>1 DEF Mark, Moves
  <2>3. Rank' \in {5, 11}
    BY <2>1, <2>2 DEF Ranked
  <2> QED BY <2>1, <2>2, <2>3 DEF StageInv, Attempts
<1>2. CASE Record
  <2> DEFINE n == FromFour(at, cancelled, Recorded, exit)
  <2>1. Rank = 5 /\ GoesTo(n, at, bid) /\ Recorded # "no"
    BY <1>2 DEF Record, Ranked, Recorded, PriceClass
  <2>2. n \in {"four", "standard", "exit", "idle"} /\ RightSection(n, Recorded, exit)
    BY FromRank, FromRight
  <2>3. n \in {"exit", "idle"} /\ n \in Sections
    BY <2>1, <2>2 DEF RightSection, Sections
  <2> HIDE DEF n
  <2>4. StageInv' /\ Rank' = SectionRank[n]
    BY <2>1, <2>3, LandsRank
  <2> QED BY <2>1, <2>3, <2>4 DEF SectionRank
<1> QED BY <1>1, <1>2

LEMMA ExitFalls ==
    ASSUME IInv, StageInv, Ranked, Ranked', Exit \/ SellLow \/ SellHigh
    PROVE  StageInv' /\ Rank' < Rank
<1>1. Rank \in 1..3 /\ (Exit => Rank = 3) /\ (SellLow => Rank = 2)
  BY DEF Exit, SellLow, SellHigh, At, Ranked
<1>2. CASE Returns
  <2>1. StageInv' /\ pc' = "idle"
    BY <1>2, LandsRank DEF Returns, Sections
  <2>2. Rank' = 0
    BY <2>1 DEF Ranked
  <2> QED BY <1>1, <2>1, <2>2
<1>3. CASE Exit /\ pc' \in {"sellHigh", "sellLow"}
  BY <1>1, <1>3 DEF Ranked, StageInv
<1>4. CASE SellLow /\ pc' = "sellHigh"
  BY <1>1, <1>4 DEF Ranked, StageInv
<1> QED BY <1>2, <1>3, <1>4 DEF Exit, SellLow, SellHigh

LEMMA OutsideFalls ==
    ASSUME StageInv, Outside \/ UNCHANGED vars
    PROVE  StageInv' /\ UNCHANGED Rank
<1>1. UNCHANGED <<pc, seen, path, tries, want>>
  BY DEF Outside, vars, callbackVars, orderVars
<1> QED BY <1>1 DEF StageInv, Rank, TriesLeft, ForOne

LEMMA BeginsStage ==
    ASSUME StageInv, Ranked', NEW t, NEW b, Begins(t, b)
    PROVE  StageInv'
<1>1. CASE pc' = "place"
  BY <1>1 DEF StageInv
<1>2. CASE pc' # "place"
  <2>1. GoesTo(FromOne(t, cancelled, hedged, exit), t, b)
    BY <1>2 DEF Begins
  <2> QED BY <2>1, LandsRank, FromSections
<1> QED BY <1>1, <1>2

LEMMA StageStep ==
    ASSUME IInv, StageInv, Ranked, Ranked', [Next]_vars
    PROVE  StageInv' /\ [Falls]_vars
<1>1. ASSUME Callback PROVE StageInv' /\ (pc = "idle" \/ Rank' < Rank)
  <2>1. ASSUME NEW t \in Elapsed, NEW b \in Bids, Begins(t, b)
        PROVE StageInv' /\ (pc = "idle" \/ Rank' < Rank)
    <3>1. pc = "idle"
      BY <2>1 DEF Begins
    <3> QED BY <2>1, <3>1, BeginsStage
  <2>2. CASE ReadUp \/ OneSide \/ TwoMinHedge \/ FourMinHedge \/ StandardHedge
    BY <2>2, SectionFalls
  <2>3. CASE PlaceBatch \/ \E s \in Sides : PlaceSingle(s)
    BY <2>3, PlacingFalls
  <2>4. CASE Cancel \/ CancelAnswered \/ BuyOk \/ BuyFails \/ Mark \/ Record
    BY <2>4, CancelFalls, BuyFalls, HedgedFalls
  <2>5. CASE Exit \/ SellLow \/ SellHigh
    BY <2>5, ExitFalls
  <2> QED BY <1>1, <2>1, <2>2, <2>3, <2>4, <2>5 DEF Callback
<1>2. ASSUME Outside \/ UNCHANGED vars PROVE StageInv' /\ UNCHANGED Rank
  BY <1>2, OutsideFalls
<1> QED BY <1>1, <1>2 DEF Next, Falls

\* A callback always comes to its end: whatever is answered, each of its steps
\* lowers the rank, which is 41 at most and 0 when it has returned, and what
\* the check task and the exchange do meanwhile does not raise it.  So it takes
\* at most 41 steps, with all the retries and all five sections in it.
THEOREM CallbackEnds == Spec => [](Rank \in 0..41 /\ (pc # "idle" => Rank > 0)) /\ [][Falls]_vars
<1>1. Init => StageInv
  BY DEF Init, StageInv
<1>2. IInv => Ranked
  BY RankValues
<1>3. IInv /\ StageInv /\ Ranked /\ Ranked' /\ [Next]_vars => StageInv' /\ [Falls]_vars
  BY StageStep
<1>4. IInv /\ StageInv => Rank \in 0..41 /\ (pc # "idle" => Rank > 0)
  BY RankBounds
<1> QED BY <1>1, <1>2, <1>3, <1>4, Inductive, PTL DEF Spec
=============================================================================
