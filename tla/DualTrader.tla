----------------------------- MODULE DualTrader -----------------------------
(***************************************************************************)
(* trader.rs and simulation.rs as the dual limit bot uses them, for the Up *)
(* and the Down token of one market in one period: a limit buy for each    *)
(* and market buys that hedge.                                             *)
(*                                                                         *)
(* A run trades for real or simulates.  "open" and "held" stand for the    *)
(* exchange's book and the wallet in a real run, for the tracker's orders  *)
(* and positions in a simulation.  Amounts are abstracted: a side is held  *)
(* or not, so the top-up of a partly filled hedge, which buys more of a    *)
(* side that is held, and the units a trade records leave no trace.  A     *)
(* balance read can fail; otherwise it tells whether the side is held.     *)
(* (Nobody else puts these tokens into the wallet: in a simulation it has  *)
(* none, and the check of the balances confirms nothing.)                  *)
(***************************************************************************)
EXTENDS Naturals

Sides == {"up", "down"}
Other(s) == IF s = "up" THEN "down" ELSE "up"

LimitPrice == 45
MinTimeRemaining == 30

VARIABLES sim,      \* simulation_mode
          open,     \* sides with an open limit buy
          stray,    \* sides with an open limit buy whose answer was lost
          held,     \* sides of which there are tokens
          trade,    \* pending_trades under "_limit": none, pending or confirmed
          hedges,   \* sides with a trade of a hedge
          check     \* of a simulation: reads books, then fills, then syncs

traderVars == <<sim, open, stray, held, trade, hedges, check>>

NoTrades == [s \in Sides |-> "none"]

TraderInit ==
    /\ sim \in BOOLEAN
    /\ open = {} /\ stray = {} /\ held = {} /\ trade = NoTrades /\ hedges = {}
    /\ check = "none"

-----------------------------------------------------------------------------
(* Orders of the bot. *)

\* add_limit_order, cancel_limit_order and add_market_buy_position, or the
\* exchange's part in a real run.
Rest(S) == open' = open \cup S
Withdraw(s) == open' = open \ {s}
Deliver(s) == held' = held \cup {s}

\* The trade of a hedge: "_individual_hedge", in a simulation "_market".
Book(s) == hedges' = hedges \cup {s}

\* execute_limit_buy_batch, up to three times: the orders S are accepted;
\* those of L, in an attempt that failed, were accepted with the answer lost.
LimitBuys(S, L) ==
    /\ sim => L = {}
    /\ Rest(S)
    /\ stray' = stray \cup L
    /\ trade' = [s \in Sides |-> IF s \in S THEN "pending" ELSE trade[s]]
    /\ UNCHANGED <<sim, held, hedges, check>>

\* execute_limit_buy, up to three times: accepted, refused or lost.
LimitBuy(s) == \E S, L \in SUBSET {s} : LimitBuys(S, L)

\* execute_buy's safety check, on the time the snapshot had left.
MayBuy(at) == 900 - at >= MinTimeRemaining

\* execute_buy of a market order that is answered: a confirmed trade.
MarketBuy(s) ==
    /\ Deliver(s) /\ Book(s)
    /\ UNCHANGED <<sim, open, stray, trade, check>>

\* execute_buy that fails: refused, or executed with the answer lost.  The
\* tracker executes every order.
MarketBuyFails(s, at) ==
    /\ ~sim \/ ~MayBuy(at)
    /\ held' \in {held} \cup (IF MayBuy(at) THEN {held \cup {s}} ELSE {})
    /\ UNCHANGED <<sim, open, stray, trade, hedges, check>>

\* mark_limit_trade_filled_by_hedge: nothing without a balance.
MarkFilledByHedge(s) ==
    /\ \/ trade[s] = "pending" /\ trade' = [trade EXCEPT ![s] = "confirmed"]
       \/ UNCHANGED trade
    /\ UNCHANGED <<sim, open, stray, held, hedges, check>>

\* cancel_pending_limit_buy returns Ok at once without a trade and for a
\* confirmed one.
NothingToCancel(s) == trade[s] # "pending"

\* The order is cancelled, unless it has filled meanwhile, which the exchange
\* answers with Ok too; the trade is removed in either case.
CancelOk(s) ==
    /\ Withdraw(s)
    /\ trade' = [trade EXCEPT ![s] = "none"]
    /\ UNCHANGED <<sim, stray, held, hedges, check>>

\* The exchange could not be asked, or its answer was lost.
CancelErr(s) ==
    /\ ~sim
    /\ open' \in {open, open \ {s}}
    /\ UNCHANGED <<sim, stray, held, trade, hedges, check>>

\* get_pending_trade_for_period_token.  A simulated hedge is kept under
\* "_market", a suffix it does not try.
Tracked(s) == IF trade[s] = "none" /\ s \in hedges /\ ~sim THEN "confirmed" ELSE trade[s]

-----------------------------------------------------------------------------
(* Fills, and check_pending_trades, which a task of its own calls every    *)
(* second.  It works on a copy of the trades, but all it writes for a      *)
(* trade is the confirmation, to the entry that is there then.             *)

\* The exchange fills a limit buy, wholly or in part.
Fill(s) ==
    /\ ~sim /\ s \in open \cup stray
    /\ held' = held \cup {s}
    /\ open' \in {open, open \ {s}} /\ stray' \in {stray, stray \ {s}}
    /\ UNCHANGED <<sim, trade, hedges, check>>

\* The balance of a pending trade's token has grown from nothing, be it by the
\* limit order or by a hedge; in a simulation, its token has a position.
Confirm(s) ==
    /\ sim => check = "sync"
    /\ trade[s] = "pending" /\ s \in held
    /\ trade' = [trade EXCEPT ![s] = "confirmed"]
    /\ UNCHANGED <<sim, open, stray, held, hedges, check>>

\* check_limit_orders: an order that fills is gone, its token has a position.
Filled(F) == open' = open \ F /\ held' = held \cup F

\* check_pending_trades of a simulation: without open orders it returns, else
\* it reads their books, fills, and goes on to sync one trade at a time.
SimCheck ==
    /\ sim
    /\ \/ check = "none" /\ open # {} /\ check' = "books" /\ UNCHANGED <<open, held>>
       \/ check = "books" /\ check' = "sync" /\ \E F \in SUBSET open : Filled(F)
       \/ check = "sync" /\ check' = "none" /\ UNCHANGED <<open, held>>
    /\ UNCHANGED <<sim, stray, trade, hedges>>

\* sync_pending_trades_from_simulation: a trade whose token has a position.
Synced(h) == [s \in Sides |-> IF trade[s] = "pending" /\ s \in h THEN "confirmed" ELSE trade[s]]

\* The callback's own fills and the sync that follows them, before it reads a
\* trade: a step of the check in between comes to the same before or after.
SimFills(F) ==
    /\ sim
    /\ Filled(F)
    /\ trade' = Synced(held \cup F)
    /\ UNCHANGED <<sim, stray, hedges, check>>

CheckTask == SimCheck \/ \E s \in Sides : Confirm(s)

TraderTypeOK ==
    /\ sim \in BOOLEAN /\ check \in {"none", "books", "sync"}
    /\ open \subseteq Sides /\ stray \subseteq Sides /\ held \subseteq Sides /\ hedges \subseteq Sides
    /\ trade \in [Sides -> {"none", "pending", "confirmed"}]
=============================================================================
