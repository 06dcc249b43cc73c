---------------------------- MODULE TrailingBot ----------------------------
(***************************************************************************)
(* main_trailing.rs on top of MarketMonitor: a task that looks for the     *)
(* markets of the next period when BTC's has ended, and the callback that  *)
(* buys one side of each traded market after a dip under 0.45 and later    *)
(* the other side.                                                         *)
(*                                                                         *)
(* Prices are cents, the asks of the two sides of a market one of the      *)
(* pairs in Asks.  The state map is keyed by period and condition id; as   *)
(* periods only grow it is enough to keep the entries of the running one,  *)
(* and those of an ended one for a callback that still handles its         *)
(* snapshot.  Sizes are abstracted:                                        *)
(* the first buy and the second are for the same number of shares.  A buy  *)
(* is Trader::execute_buy: refused when less than 30 seconds are left in   *)
(* the snapshot, otherwise an order that is executed or not, and whose     *)
(* answer may be lost; a simulation executes every one.                    *)
(***************************************************************************)
EXTENDS MarketMonitor, FiniteSets

CONSTANTS Traded,    \* the enabled markets, in the order of markets_full
          Fallback,  \* the markets discovered with include_previous
          Asks,      \* bound: the asks of a market, [up |-> cents, down |-> cents]
          Stop       \* trailing_stop_point, in cents

Sides == {"up", "down"}
Other(side) == IF side = "up" THEN "down" ELSE "up"

ASSUME TrailingAssumption ==
    /\ Traded \in Seq(Assets)
    /\ BTC \in Fallback /\ Fallback \subseteq Assets
    /\ \A i, j \in 1..Len(Order) : Order[i] = BTC /\ i < j => Order[j] \notin Fallback
    /\ Asks \subseteq [Sides -> 1..99] /\ Stop \in 1..99

NearHalfMin == 48
NearHalfMax == 52
EntryMax == 45
StopLossBuffer == 10
MinTimeRemaining == 30

VARIABLES task,     \* of the period task: "check", "sleep" or "update"
          state,    \* TrailingState of each market, "none" without an entry
          turn,     \* the market of the snapshot the callback is at
          known     \* history of that period: sides whose buy was answered Ok

botVars == <<task, state, turn, known>>
vars == <<monitorVars, botVars>>

NoState == [st |-> "none", side |-> "up", low |-> 0, high |-> 0, price |-> 0, opp |-> 0, at |-> 0]
NoneKnown == [a \in Assets |-> {}]

\* What get_or_discover_markets can find: the market of the running period,
\* the one before when it is still active and not closed, or a dummy.
Findings == {f \in [Assets -> Markets] : \A a \in Assets : f[a] = Old => a \in Fallback}

Init ==
    /\ \E f \in Findings : MonitorInit(f)
    /\ task = "check"
    /\ state = [a \in Assets |-> NoState]
    /\ turn = 1 /\ known = NoneKnown

-----------------------------------------------------------------------------
(* The period task. *)

BtcPeriod_AlwaysNow == Cur

\* get_current_market_timestamp: a slug without a time counts as running now.
BtcPeriod == IF market[BTC] = Dummy THEN Cur ELSE market[BTC]

\* Until the end of the market's period.
Sleep ==
    /\ task = "check" /\ BtcPeriod = Cur
    /\ task' = "sleep"
    /\ UNCHANGED <<monitorVars, state, turn, known>>

\* The market has ended: at once, and again until a running one is found.
Discover ==
    /\ task = "check" /\ BtcPeriod = Old
    /\ \E f \in Findings : StartUpdate(f)
    /\ task' = "update"
    /\ UNCHANGED <<clock, market, token, refreshed, fetch, overlap, state, turn, known>>

Update ==
    \/ (ReplaceMarket \/ ResetTokens) /\ UNCHANGED botVars
    \/ UpdateEnds /\ task' = "check" /\ UNCHANGED <<state, turn, known>>

\* The entries of a period that has ended matter to a running callback only.
Drop == /\ state' = [a \in Assets |-> NoState] /\ known' = NoneKnown

NextPeriod ==
    /\ Tick
    /\ task' = IF task = "sleep" THEN "check" ELSE task
    /\ IF fetch.pc \in {"prices", "callback"} THEN UNCHANGED <<state, known>> ELSE Drop
    /\ UNCHANGED turn

Ageing == BecomesDue /\ UNCHANGED botVars

-----------------------------------------------------------------------------
(* The callback. *)

Fetch == FetchStep /\ UNCHANGED botVars

\* time_remaining_seconds # 0
TimeLeft == fetch.left # {}

At(a) == fetch.pc = "callback" /\ TimeLeft /\ turn <= Len(Traded) /\ a = Traded[turn]

\* The rest of a turn that ends with entry s for market a.
Ends(a, s) ==
    /\ state' = [state EXCEPT ![a] = s]
    /\ turn' = turn + 1
    /\ UNCHANGED <<monitorVars, task, known>>

\* No time is left, or every market has had its turn.
Return ==
    /\ fetch.pc = "callback" /\ (~TimeLeft \/ turn > Len(Traded))
    /\ FetchEnds
    /\ turn' = 1
    /\ IF fetch.slug[BTC] = Cur THEN UNCHANGED <<state, known>> ELSE Drop
    /\ UNCHANGED <<clock, market, token, refreshed, update, overlap, task>>

\* A price is missing, or the pair is complete.
Skip(a) ==
    /\ At(a) /\ state[a].st \notin {"first", "second"}
    /\ \/ fetch.token[a] = None
       \/ state[a].st = "done"
    /\ Ends(a, state[a])

\* None: one side has to be seen near 0.5.
SeesHalf(a, q) ==
    /\ At(a) /\ fetch.token[a] # None /\ state[a].st = "none"
    /\ Ends(a, IF \E s \in Sides : q[s] \in NearHalfMin..NearHalfMax
               THEN [NoState EXCEPT !.st = "waiting"] ELSE NoState)

\* WaitingForUnder45: the side under 0.45, the lower one of two, Up of equals.
StartsTrailing(a, q) ==
    LET side == IF q["up"] < EntryMax /\ (q["down"] >= EntryMax \/ q["up"] <= q["down"])
                THEN "up" ELSE "down" IN
    /\ At(a) /\ fetch.token[a] # None /\ state[a].st = "waiting"
    /\ Ends(a, IF q[side] < EntryMax
               THEN [NoState EXCEPT !.st = "trailing", !.side = side, !.low = q[side], !.high = q[side]]
               ELSE state[a])

Lower(m, n) == IF m <= n THEN m ELSE n
Upper(m, n) == IF m >= n THEN m ELSE n

\* MonitoringFirst with the ask of a snapshot taken in.
Trailed(s, ask) == [s EXCEPT !.low = Lower(@, ask), !.high = Upper(@, ask)]

\* Over 0.45 without a trigger: the entry is removed.
TrailingReset(a, q) ==
    /\ At(a) /\ fetch.token[a] # None /\ state[a].st = "trailing"
    /\ q[state[a].side] > EntryMax
    /\ Ends(a, NoState)

\* No trigger yet, or one at a new high, which restarts the trail.  (A trigger
\* above 0.45, the next test of the code, cannot be reached: the ask is not.)
TrailingGoesOn(a, q) ==
    LET s == state[a] ask == q[s.side] t == Trailed(s, ask) IN
    /\ At(a) /\ fetch.token[a] # None /\ s.st = "trailing" /\ ask <= EntryMax
    /\ \/ ask < t.low + Stop /\ Ends(a, t)
       \/ ask >= t.low + Stop /\ ask > s.high /\ Ends(a, [t EXCEPT !.low = ask])

\* FirstBuyPending is written, the lock released and execute_buy awaited.
FirstBuy(a, q) ==
    LET s == state[a] ask == q[s.side] t == Trailed(s, ask) IN
    /\ At(a) /\ fetch.token[a] # None /\ s.st = "trailing" /\ ask <= EntryMax
    /\ ask >= t.low + Stop /\ ask <= s.high
    /\ state' = [state EXCEPT ![a] = [t EXCEPT !.st = "first", !.price = ask,
                                               !.opp = q[Other(s.side)], !.at = fetch.at]]
    /\ UNCHANGED <<monitorVars, task, turn, known>>

\* second_token_meets_price_ceiling
MeetsCeiling(s, at, price) == price < 100 - s.price - (IF at - s.at < 120 THEN 5 ELSE 0)

StopLoss(s, price) == price >= 100 - s.price + StopLossBuffer

\* FirstBought: the opposite side is trailed; no trigger, or not under the ceiling.
SecondWaits(a, q) ==
    LET p == q[Other(state[a].side)] t == [state[a] EXCEPT !.opp = Lower(@, p)] IN
    /\ At(a) /\ fetch.token[a] # None /\ state[a].st = "bought"
    /\ ~StopLoss(t, p) /\ (p < t.opp + Stop \/ ~MeetsCeiling(t, fetch.at, p))
    /\ Ends(a, t)

\* The entry stays FirstBought while execute_buy is awaited ("second" here).
SecondBuy(a, q) ==
    LET p == q[Other(state[a].side)] t == [state[a] EXCEPT !.opp = Lower(@, p)] IN
    /\ At(a) /\ fetch.token[a] # None /\ state[a].st = "bought"
    /\ StopLoss(t, p) \/ (p >= t.opp + Stop /\ MeetsCeiling(t, fetch.at, p))
    /\ state' = [state EXCEPT ![a] = [t EXCEPT !.st = "second", !.high = p]]
    /\ UNCHANGED <<monitorVars, task, turn, known>>

Buying(a) == At(a) /\ state[a].st \in {"first", "second"}
BuyingSide(a) == IF state[a].st = "first" THEN state[a].side ELSE Other(state[a].side)

\* execute_buy's safety check, on the time left when the snapshot was taken.
MayBuy(f) == 900 - f.at >= MinTimeRemaining

FirstBought(s) == [s EXCEPT !.st = "bought", !.low = 0, !.high = 0]

OnOk_NotDone(s) == FirstBought(s)

\* FirstBought after the first buy; Done after the second, whose price "high"
\* now is.
OnOk(s) == IF s.st = "first" THEN FirstBought(s)
           ELSE [s EXCEPT !.st = "done", !.opp = 0, !.at = 0]

OnErr_Pending(s) == IF s.st = "first" THEN s ELSE FirstBought(s)

\* Back to MonitoringFirst with the lowest and highest, or still FirstBought.
OnErr(s) == IF s.st = "first"
            THEN [s EXCEPT !.st = "trailing", !.price = 0, !.opp = 0, !.at = 0]
            ELSE FirstBought(s)

BuyOk(a) ==
    /\ Buying(a) /\ MayBuy(fetch)
    /\ known' = [known EXCEPT ![a] = @ \cup {BuyingSide(a)}]
    /\ state' = [state EXCEPT ![a] = OnOk(@)]
    /\ turn' = turn + 1
    /\ UNCHANGED <<monitorVars, task>>

\* Refused, or executed with the answer lost: the bot cannot tell.
BuyFails(a) ==
    /\ Buying(a)
    /\ Ends(a, OnErr(state[a]))

Callback ==
    \/ Return
    \/ \E a \in Assets :
          \/ Skip(a) \/ BuyOk(a) \/ BuyFails(a)
          \/ \E q \in Asks :
                \/ SeesHalf(a, q) \/ StartsTrailing(a, q) \/ TrailingReset(a, q)
                \/ TrailingGoesOn(a, q) \/ FirstBuy(a, q) \/ SecondWaits(a, q) \/ SecondBuy(a, q)

PeriodTask == Sleep \/ Discover \/ Update

Next == NextPeriod \/ Ageing \/ PeriodTask \/ Fetch \/ Callback

Spec == Init /\ [][Next]_vars

\* Time passes, and the runtime polls the period task.
FairSpec == Spec /\ WF_vars(NextPeriod) /\ WF_vars(PeriodTask)

-----------------------------------------------------------------------------
Entry == [st : {"none", "waiting", "trailing", "first", "bought", "second", "done"}, side : Sides,
          low : 0..99, high : 0..99, price : 0..99, opp : 0..99, at : Elapsed]

TypeOK ==
    /\ MonitorTypeOK
    /\ task \in {"check", "sleep", "update"}
    /\ state \in [Assets -> Entry]
    /\ turn \in 1..Len(Traded)+1
    /\ known \in [Assets -> SUBSET Sides]
    /\ (update.i > 0) = (task = "update")
    /\ \A a \in Assets : state[a].st \in {"first", "second"} => At(a)

\* fetch_market_data copies the slugs, the condition ids and the clock at
\* different moments while the period task may be replacing the markets.  A
\* snapshot with time left is nevertheless of one period: each market in it is
\* the one whose slug was read, and it is BTC's period unless it is a dummy.
SnapshotOfOnePeriod ==
    fetch.pc = "callback" /\ TimeLeft =>
        \A a \in Assets : fetch.cond[a] \in {fetch.slug[BTC], Dummy}

\* The token ids a market keeps after update_markets are its own ("refreshed
\* once per period"), except when a refresh that had read the condition id of
\* the market before overlapped the update.
OnlyOverlapLeavesOldTokens ==
    update.i = 0 => \A a \in Assets : market[a] = Cur /\ token[a] = Old => a \in overlap

\* A market is bought at most once on each side in a period: no order goes out
\* for a side whose buy is known to have succeeded, whatever fails and in
\* whatever order the prices come.  A finished pair costs under a dollar or was
\* closed by the stop loss.
OnePair ==
    \A a \in Assets :
        /\ state[a].st \in {"first", "second"} => BuyingSide(a) \notin known[a]
        /\ state[a].st = "done" =>
              LET cost == state[a].price + state[a].high IN
              known[a] = Sides /\ (cost < 100 \/ cost >= 100 + StopLossBuffer)

\* The period task goes on discovering markets, whatever discovery answers,
\* until the day it is given the dummy for BTC.
DiscoveryGoesOn == []<>(task = "update") \/ <>[](market[BTC] = Dummy)
=============================================================================
