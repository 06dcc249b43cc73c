# A TLA+ model of the Polymarket trading bot

This directory holds a verification project for the Rust program in `src/`: TLA+
modules translated from the source, configurations that model-check them with
TLC, and proofs checked by TLAPS. Paths below are those of the repository
(`api.rs` is `src/src/api.rs`, `main_copytrading.rs` is
`src/src/bin/main_copytrading.rs`, and so on); `PROJECT.json` names the lines
each definition stands for.

    tlc -workers 2 -config ExitLoop.cfg ExitLoop.tla      # a run
    tlapm ExitLoopProofs.tla                              # its proofs

## 1. Inventory of the system

The main program, `main_copytrading`, follows the trades of chosen wallets
("leaders") on Polymarket and repeats them. It is one process with many tokio
tasks that share four things: the CLOB client, the entries, the web state and a
broadcast channel. The rest of the repository is a family of other bots that
trade on their own (dual limit orders, trailing buys) in the 15-minute Up-or-Down
markets, with the monitor, the trader and the simulation tracker they share.

| Component | State it keeps | Operations | Hard parts |
|---|---|---|---|
| shared CLOB client (`api.rs`, `clob_sdk.rs`) | `clob_client_state`: Empty, Creating, Ready(h); a `Notify` | `ensure_clob_client`, `authenticate` | creation shared by concurrent callers; notification lost between unlock and wait; failure, panic and cancellation of the creator |
| market orders (`api.rs`) | locals of one call: amount, attempt | `place_market_order`, `place_market_order_fast` | retries after ambiguous errors; clamping to a balance that moves; minimum sizes |
| activity stream (`activity_stream.rs`) | connection, `seen` ids, semaphore, spawned tasks | the read loop, the copy task | reconnects, repeated fills, eviction, timeouts against answers, tasks outliving connections |
| copy rules and configuration (`copy_trading.rs`) | `CopyTradingConfig` | `load`, `should_copy_trade`, `copy_trade` sizing, `record_entry`, exit triggers | decimals, limits, averages, spelling of keys |
| entries and exit loop (`copy_trading.rs`) | `entries` (asset to size, price, maximum) behind an async mutex | `record_entry`, `run_exit_check` every 15 s | decision and settlement in two critical sections, orders between them; failing halfway; lagging Data API; memory only |
| web state (`web_state.rs`) | log of the last 50 entries, position rows per user, balances | `push_trade`, `set_positions`, `get_state`, ... | rows that close and reopen, the window at its limit |
| dashboard updates (`main_copytrading.rs`, `frontend/src/lib.rs`) | broadcast channel of 64, SSE streams, the page's state | poll loop, SSE handler, `/api/state`, fetches of the page | lagging receivers, dropped streams, lost and reordered answers |
| trader (`trader.rs`) | `pending_trades` by period and token | limit buys, market buys, cancellation, marking by a hedge, `check_pending_trades` | a task that confirms trades between the awaits of the callback; failed buys and lost answers; orders that fill while they are cancelled |
| simulation tracker (`simulation.rs`) | simulated orders, positions, totals | add, fill and cancel orders, market buys | the same trades as in a real run, kept under other keys |
| market monitor (`monitor.rs`) | the four markets, their token ids, the time of the last refresh, each behind a mutex | `update_markets`, `fetch_market_data`, `start_monitoring` | a fetch and an update that interleave lock by lock; the end of a period in the middle of either |
| trailing bot (`main_trailing.rs`) | a state per market and period | the period task, the callback | discovery that finds an old market or none; a buy awaited with the lock dropped |
| dual limit bot (`main_dual_limit_045_same_size.rs`) | a dozen maps of markets placed, cancelled, hedged, sold | the callback: limit buys, four hedges, exit | four rules of which none may buy again after another has, with fills in between |
| 5-minute and sports bots, detector (`main_dual_limit_045_5m_btc.rs`, `main_sports_trailing.rs`, `detector.rs`) | like the two above | one loop each | not modelled, see section 6 |
| backtest, merge, prices (`backtest.rs`, `merge.rs`, `rtds.rs`) | locals; one price cell | replay, merging of complete sets, a feed | little; stale price after a reconnect |
| other calls of `api.rs`, agent and leaderboard endpoints, manual test programs | none | HTTP and RPC requests | none that the code handles |

How they interact in `main_copytrading`: main warms the CLOB client
(`authenticate`), then spawns the web server, the exit loop (if a rule is set
and the run is live) and the activity stream, and becomes the poll loop. The
stream spawns a task per trade of a leader; the task takes a permit, calls
`copy_trade` under a timeout, which calls `place_market_order_fast`, which calls
`ensure_clob_client`; then it records an entry and pushes a log line. The exit
loop reads positions from the Data API, compares with the entries, and sells
through `place_market_order`. Tasks and poll loop change the web state, then
send `()` on the channel; each SSE stream turns that into an event; the page
fetches `/api/state` on each event.

In the other bots, main discovers the markets of the period and gives them to the
monitor; a period task replaces them when they end; `start_monitoring` fetches a
snapshot of prices, awaits the bot's callback with it, and sleeps. The callback
decides and calls the trader, which calls `api.rs` in a real run and the tracker
in a simulation, and notes the trade in `pending_trades`. A task of its own calls
`check_pending_trades` every second and confirms the trades whose tokens have
arrived.

What makes each part correct is stated with its module below; the hazards, each
at its line and with the properties that watch it, are in `PROJECT.json`.

## 2. Modules

    ClobClient ──────── ClobClientProofs         implements  OnceCell
    MarketOrder ─────── MarketOrderProofs        implements  OneShotOrder
    ActivityStream ──── ActivityStreamProofs     implements  TradeLifecycle
        MCActivityStream
    ExitLoop ────────── ExitLoopProofs           implements  AtomicExit
    WebState
        Dashboard ───── DashboardProofs
    CopyRules ───────── CopyRulesProofs
        MCCopyRules
    DualTrader
        DualLimit ───── DualLimitProofs          implements  HedgedPair
    MarketMonitor
        TrailingBot ─── TrailingProofs
            MCTrailingBot

A component's state and actions are in the module of its name, parameterised by
constants with a named assumption; its theorems are in `...Proofs`; an `MC...`
module defines the constants of a run that are no plain sets. An operator with
a suffix, such as `FindEmpty_NoClaim`, is a mutated form of the definition after
it: a plausible bug, with which the run of the module fails. They play no part in
the specification.

Where one component calls another, the caller's module contains what the other
is shown to promise: `ActivityStream` takes an order to be executed at most once
and to be answered, failed or lost, which is `OneShotOrder`, and `MarketOrder`
takes `ensure_clob_client` to return a handle or fail, which are the properties
of `ClobClient` after a warm start.

### ClobClient and OnceCell

One caller's walk through `ensure_clob_client` is the value of `pc`: `lock`
(about to take the mutex), `sawCreating` (mutex dropped, `notified()` not yet
created), `waiting`, `awaitJob`, `notify`. A critical section without an await is
one action (`FindReady`, `FindCreating`, `FindEmptyBadConfig`, `FindEmpty`,
`ResetOnError`, `Publish`). `JobCreates` and `JobFails` are the blocking FFI job,
which runs on when its caller is cancelled; a job may also panic, and then
`FailOnPanic` leaves `Creating` behind, as the code does. `Cancel` drops a
caller at an await. `warm` says whether main authenticates first, as
`main_copytrading` does; the library allows a cold start too. `OnceCell` is what
the callers are promised: a cell that is empty or holds the one client, filled
once for good, and calls that end with what is in it, with an error, or dropped.

- `ImplementsOnceCell`: the mutex, the job, the notifications and all that can go
  wrong with them implement that cell, in warm and cold starts. `OneClient`: the FFI
  library is asked for a client successfully once.
- `WarmCallersNeverWait`: after a warm start no caller meets `Creating`. This
  is what keeps the bot clear of the three ways to wait for ever that a cold
  start has (the window before `notified()`, errors and panics that notify
  nobody, a cancelled creator), and it is why a deadlock is allowed in this run:
  a cold start really can stop.
- `EveryCallEnds` (liveness): after a warm start every call ends.

### MarketOrder and OneShotOrder

Both functions, told apart by `req.fast`: only the slow one checks the balance of
dollars and clamps a SELL before the first post. Amounts are integers,
thousandths of a dollar or of a share. A balance read returns any of `Balances`,
because other orders fill meanwhile. A post is executed (`PostExecuted`),
executed with its answer lost (`PostAnswerLost`), or refused with any set of the
words the code looks for (`PostRefused`); `HandleError` is the classification, in
the code's order. `OneShotOrder` says of a call: it is begun, and ends as
executed once for an allowed amount, as failed with nothing or one allowed amount
executed, or dropped with nothing executed.

- `ImplementsOneShot`: the retry loop refines it. The mapping reads an executed
  amount as the abstract one only when the loop has left the error branch; the
  proof shows that a lost answer is never followed by another post.
- `LoopNeverExhausted`: `unreachable!()` is unreachable. `PostableAmount`: no
  clamp or retry leads to an amount the exchange would reject. `CallEnds`.

A partial fill of a FAK order is an execution of the amount here: what part is
filled matters to the entries only and is in `ExitLoop`.

### ActivityStream and TradeLifecycle

`Connect` starts `run_activity_stream_loop` (empty `seen`, new semaphore),
`Disconnect` ends it, `Deliver` is one payload of a target through `seen`,
eviction, `should_copy_trade` and the spawn. A task is `queued` for a permit,
`running` in `copy_trade`, `filled` (executed BUY, entry to be recorded),
`reporting` (log line, still with its permit) or `logging` (a filtered or simulated
trade, without one). `TradeLifecycle` says of a trade that it is taken up, may
be executed once, and gets a fate that agrees with what was executed: `timeout`,
`filtered` and `skipped` trades never executed an order, `ok` trades did.

- `TakenUpOnce`, `PermitsConserved`, `EveryTradeReported` (liveness),
  `ImplementsLifecycle`.
- `InFlightLimited`, the comment's promise, fails: see the findings.

### ExitLoop and AtomicExit

`wallet` is what the bot holds, `view` what the Data API shows, which lags. Copy
tasks buy (a part of the order may fill, while the size asked for is recorded),
lose the answer, or sell. A check fetches (`Fetch`), decides under the lock
(`Decide`), sells asset by asset (`Sell`, `SellFails`), and settles under the lock
(`Settle`). Which positions trigger is any choice: the rules depend on prices,
and their arithmetic is in `CopyRules`. `Restart` loses entries and tasks.
`recorded`, `reduced`, `exitSold` and `unsettled` are history variables.
`AtomicExit` is the loop a reader has in mind: entries grow when a copy is
recorded, and a check sells and takes off in one step, sells without taking
off when it fails halfway, or does nothing.

- `ImplementsAtomicExit`: the loop is as good as that one, although a check decides and
  settles in two critical sections and copies record between them. (That
  entry and shares taken off add up to what was recorded follows.)
- `ExitWithinRecorded`: the loop never sells more than copies have recorded,
  even if the wallet holds more, except that a check that failed halfway (its
  `?`) leaves entries behind and may sell as much again. What is recorded is the
  size *asked for*, so this is not a bound by what the bot bought: after a partial fill,
  or a copied SELL, which takes nothing off, the loop may sell shares of the same
  token that were bought by hand.
- `ChecksGoOn` (liveness): a failed check is followed by another.

### WebState and Dashboard

`WebState` has the functions of `web_state.rs` as operators on the log and on the
rows of one user, keyed as the code keys them; `Dashboard` has their callers, the
channel, the SSE handler and one page. `Stamp` numbers the announced changes; a
fetched state is the stamp it was read at. `unread` counts messages the page's
receiver has not taken; more than `Capacity` of them is `Lagged`.

- `LogWindow`: the log is the last `MaxLogs` entries, in order.
- `QuietMeansShown`, `EveryChangeShown` (liveness): after every announced change
  the page shows a state that was read at or after it, though messages are dropped by
  the channel and fetches overlap. That state need not have the log entry itself: when
  more than `MAX_LOGS` entries follow before the page reads, it has left the
  window and is never shown. Excepted is what was announced while no stream was up
  and what a failed fetch would have shown: the page has no other refresh, since its
  five-second timer is dropped where it is made (`frontend/src/lib.rs:1588`).
- `NeverForgotten`: a position once shown stays shown, open or closed.
- `CloseMarked`, the comments' promise, fails: see the findings.

Two things the properties do not claim, because the code does not ensure them:
that the page ends on the latest state (answers may arrive out of order), and
that a new position is announced (`set_positions` is followed by no send).

### CopyRules

The arithmetic in exact integers (see the module's header for the units): the
file, the filter, the size of the order, the recorded size, the entry's
average and maximum, the exit triggers.

- `LimitHolds`: the posted dollars respect `buy_amount_limit_in_usd` through
  sizing, normalisation and the retry of a BUY that is refused for its size
  (`api.rs:1839`), but for a limit under 1.01, which the 1.01 of the last two may exceed.
- `TrackedMatchesPosted`: the recorded shares are worth no more than the posted
  dollars, and no less, but where that retry has raised an order of less than a dollar:
  the entry keeps what was asked for at first.
- `AverageBelowMax`: an entry's average price never exceeds its maximum.
- `DocumentedKeysRead` fails: see the findings.

### MarketMonitor and TrailingBot

`MarketMonitor` has the mutexes of `monitor.rs` as variables and one action per
critical section: `update_markets` replaces one market after another, then the
token ids, then the time of the refresh; `fetch_market_data` reads the ids, awaits
`get_market`, writes the token ids, copies the slugs (the one place where four
locks are held), reads the ids again, the clock and the prices. What matters of a
market is its period, so a market, slug or token id *is* its period, relative to
the clock: `Tick` turns every current one into an earlier one. A dummy stands for a
market that was not found.

`TrailingBot` is the period task (`Sleep`, `Discover`, `Update`), which runs
between any two steps of the fetch, and the callback, whose match on
`TrailingState` is one action per arm and outcome. The entry `second` is a
`FirstBought` whose second buy is being awaited; `known` is a history variable.

- `SnapshotOfOnePeriod`: slugs, condition ids and clock are read at different
  moments, and yet the markets of a snapshot with time left belong together.
- `OnlyOverlapLeavesOldTokens`: old token ids remain only after a refresh that
  overlapped the update, a state the code can reach and then keeps for the period.
- `OnePair`: no side is bought twice in a period once a buy was answered Ok, and a
  complete pair cost under a dollar or was closed by the stop loss.
- `DiscoveryGoesOn` (liveness): the bot goes on to the next period, for ever,
  unless discovery has given it the dummy for BTC: its slug has no time in it,
  `get_current_market_timestamp` takes it for the running period, and the task
  sleeps until the end of a period that never ends.

### DualTrader, DualLimit and HedgedPair

`DualTrader` has the operations of `trader.rs` and `simulation.rs` as the dual
limit bot uses them on the two tokens of a market: `open` orders, `held` tokens,
the `trade` of each limit buy (`pending`, `confirmed`) and the trades of `hedges`.
`sim` chooses between a real run, where calls are refused, answered or lost, and a
simulation, where they always succeed and orders fill when a price reaches them.
`Confirm` and `SimCheck` are `check_pending_trades`, which in a simulation reads the
books of the open orders, fills them and then confirms trade by trade (`check` says how
far it is), with awaits in between; in a real run it confirms by the balances, one by
one. `Fill` is the exchange. Nobody else is taken to put the two tokens into the
wallet, so a simulation, which reads the balances too, finds none.

`DualLimit` is one market through one period: `Begins` takes a snapshot, and the
callback goes through its sections in order (`one`: cancel the other side after a
fill; `two`: trailing on the ask; `four`: the band; `standard`; `exit`), each
behind the checks of the code (`Checks`). `ReadUp` and the action of the section
are the two reads of `pending_trades`, between which a trade may change; then
`Cancel` or the buy with its attempts, `Mark`, `Cancel` and `Record`. The sets and maps of
the bot are `memory`. `HedgedPair` forgets sections, snapshots, trades and attempts: a
pair is acquired, hedged, the hedge recorded with its price class, one side offered
low, then one high, and it is done with.

- `OneHedge`: once a market buy of a hedge was answered Ok, both sides are held and
  no rule comes to post another, whatever fills, fails or is still open. A buy that was
  executed and not answered is another matter: the code tries again, and may buy the side
  twice (section 5).
- `ImplementsHedgedPair`: with all its retries and whatever happens between its
  awaits, what the bot does to the pair is a behaviour of `HedgedPair`: one hedge is
  answered Ok, after which both sides are held; a pair hedged at 0.60 or more is
  offered low once; the high offer, of the other side, ends it. Two things are
  excepted because the code remembers no more than that the low offer was made: under
  0.60 not even that, so the low offer is made again when the high one has failed; and at
  0.60 or more, when the high one has failed and the sides have changed places, the
  side that was offered low is offered high as well, and the other not at all.
- `HedgedLimitGone`, the comments' promise, fails: see the findings.

The mark/cancel order, the trades and the flags are the interesting part here;
amounts are not in the model (a side is held or not), and neither is the top-up of a
hedge whose order filled in part, which buys more of the same side.

## 3. Runs and bounds

| Run | Shows | Bounds, and why they are enough |
|---|---|---|
| `ClobClient` | 5 properties | main and three callers, two cancellable: a creator, a waiter in the window and a third that finds what the first two left |
| `MarketOrder` | 5 | eight BUY amounts on both sides of every threshold (a cent, the 1.00-1.02 band, 1.01), four SELL amounts around the lot, balances below, between and above them; all six attempts |
| `ActivityStream` | 5 | three tasks, one permit, two connections, two ids remembered, four payloads of which two share an id: contention, an eviction and tasks of an old connection |
| `ActivityStreamInFlight` | violation | two tasks, one permit, two connections |
| `ExitLoop` | 4 | two copies, two assets, two shares of each, one restart: a check that fails at its second order, a copy between its critical sections |
| `Dashboard` | 5 | channel of one, log of one, four polls, one copy, one refresh, one fault: three announcements overflow the channel, a position can close, reopen and close again |
| `DashboardReopen` | violation | two sizes, four polls |
| `CopyRules` | 4 | two trades out of a set around the limits, four settings |
| `CopyConfig` | violation | both spellings |
| `TrailingBot` | 5 | BTC, which is traded and names the period, and ETH, which is written before it, as in the code; any number of periods; the clock at 0, 200 and 880 s (the last refuses a buy); four pairs of asks that reach every arm: a dip, a rise by the stop, a price over the ceiling of the first two minutes only, a stop loss |
| `DualLimit` | 3 | one time in each window the rules tell apart, and one under 30 s from the end; six bids, whose asks fall under both exit thresholds, in the limit, 2-minute and 4-minute bands, just under 0.60, and over 0.75. One market is enough: every map of the bot is keyed by market |
| `DualLimitDouble` | violation | the same times, five bids |

Each run of the first kind finishes without error; every bound is a constant of
its module (`MaxConns`, `MaxTasks`, `MaxHold`, `MaxRestarts`, `MaxPolls`,
`MaxCopies`, `MaxRefreshes`, `MaxFaults`). Deadlock is not checked where the
bounds, or the system, really end: `ClobClient` (cold starts), `ActivityStream`
and `CopyRules` (no more trades).

Fairness. `ClobClient`: weak fairness of each caller's progress, since tokio
polls every task and blocking jobs end. `MarketOrder`: weak fairness of the
call's next step, every await having a timeout of its HTTP client or being a
sleep. `ActivityStream`: of each task; none of the feed. A permit goes to
some waiting task whenever one is free, and tasks hold it for a bounded number
of steps, so weak fairness is enough; none of the connection is assumed.
`ExitLoop`: of the fetch and of the running check (an interval that ticks, calls
that return), none of copies or restarts. `Dashboard`: of the poll loop, the
notifying tasks, the handler, the answers and the reconnecting of the
`EventSource`; none of trades being copied. `TrailingBot`: of the period task,
which the runtime polls and whose requests end, and of the beginning of the next
period, since time passes; none of the monitor's fetch or the callback, and none
of what discovery answers. `DualLimit` states safety only: a pair need not be
hedged when prices do not allow it.

## 4. Proofs

The theorems are listed in `PROJECT.json`. All hold for every value of the
constants that the modules' assumptions allow (any set of callers, any amounts,
any capacity, any window, any number of tasks), and assume nothing else.

- `ClobClientProofs`: the inductive invariant ties the state of the client
  to the callers: `Empty` means no client has been created and nobody is
  creating; `Creating` has at most one caller with a live job; `Ready` holds the
  one client's handle. One client follows, and so does the step simulation of
  `OnceCell` (`ClobImplementsOnceCell`), from which agreement and finality are carried
  over (`ClobAgreement`). That warm callers never wait needs that nothing runs during the
  boot but main. `ClobAbandonedForGood` is the counterpart for a cold program: a creation
  that was abandoned is never taken up again.
- `MarketOrderProofs`: the invariant bounds `current` by what is allowed for
  the request and says that nothing was executed unless the call has ended or is
  handling the error of a lost answer, whose message has none of the words that
  lead to a retry. Step simulation of `OneShotOrder` follows action by action, and
  `OrderOutcome` carries over that a call that has ended stays as it ended.
- `ActivityStreamProofs`: `TakenUpOnce` needs that every trade of the current
  connection without eviction is in `seen`, and `PermitsConserved` is an
  induction on the cardinality of the holders. The refinement needs that a task's
  status and `ordered` agree from the moment the task leaves `copy_trade`. From the
  refinement follows `StreamFatesFinal`, proved of `TradeLifecycle` and carried over: a
  reported fate is true and final.
- `ExitLoopProofs`: `ExitWithinRecorded` is strengthened by a running check's
  own books: what it has sold and not settled is within its plan, the plan
  within the entry, and an entry within what is recorded and not yet exited. The same
  books give `ExitImplementsAtomic`: a check is mapped to one step at its settlement (or at
  the failure that ends it), which may take off what was planned because copies have
  only added since. `ExitLedgerConserved` is carried over from `AtomicExit`.
- `DashboardProofs`: `QuietMeansShown` is strengthened by `OnItsWay`: the
  latest stamp has been shown, or excepted, or an answer, a request, an unread
  message or an unsent notification will bring it. `DashboardNeverAhead` (`Behind`): nothing
  on the page or on its way to it is newer than the server.
- `CopyRulesProofs`: the averages by multiplying out, the limit by cases of the
  normalisation and the retry, and the recorded shares from the bound of the remainder their
  division leaves.
- `DualLimitProofs`: for all times and all prices. `HedgeInv` says, for each place
  the callback can be at, whether the market is before a hedge (nothing
  bought, `hedged = "no"`), between its buy and its record, or after; `HeldInv`
  that a confirmed trade's token is held, also for the trade of Up the section has
  read before it reads Down's, which is what makes the bought side the missing one;
  `ExitInv` what the exit remembers of the sells it has placed. The lemma per
  action shows where it lands (`Lands`, `LeavesLands`); steps of the check task and
  the exchange leave the place and only add to what is held. `BotImplementsPair` maps
  the answered buy, the record, the two sells and the refusal of the second to the steps of
  `HedgedPair` and every other step to an acquisition or a stutter; `SoldOnce` is what the abstract pair then promises.
- `TrailingProofs`: for any number of markets, traded or not, in any order in which
  none after BTC may be found in an earlier period (as `discover_solana_market` and
  `discover_xrp_market` pass `include_previous = false`), and for all asks, where the
  run has two markets and four pairs of asks. `OnePeriod` rests on the order
  of `update_markets`: while BTC is still to be replaced it is of an earlier period,
  and once it is of the running one no market after it is replaced by an earlier one
  (`UpdateInv`); so no market read together with a current BTC slug goes back
  (`SlugInv`), and those with time left agree (`LeftInv`), whichever period it is by
  the time of the callback. `OldTokensOverlap` needs that a refresh that holds the
  id of an earlier market is recorded as overlapping (`OldIds`), `PairOnce` that a
  market's entry says which sides are known to be bought (`PairOK`) and that only
  the market whose turn it is awaits an answer (`BotInv`).

What is proved of liveness is its safety half: a measure that every step of the thing in
question lowers, that nothing else raises, and that says how far it is from its
end. What is left to TLC is that those steps are taken, which is fairness.

| Theorem | Measure | With the fairness of the run it gives |
|---|---|---|
| `ClobWarmCallsEnd` | the place of a call, four steps at most, and no call of a warm program waits for another | `EveryCallEnds` |
| `OrderRankFalls` | `Rank`, at most 28: six attempts of four places | `CallEnds` |
| `ExitCheckAdvances` | the place of a check, then the set of its orders still to be placed | `ChecksGoOn` |
| `StreamAdvances` | the place of a task; while all permits are taken a holder has still to end | `EveryTradeReported` |
| `DashboardChangeAdvances` | `Stage`, at most 4: to be announced, unread, requested, answered, shown | `EveryChangeShown` |
| `DiscoveryComes` | `Awaited`, at most 3, while BTC has a real market; then the place of the update | `DiscoveryGoesOn` |
| `CallbackEnds` | `Rank`, at most 41: the longest way through the five sections with all attempts | no property: the run of `DualLimit` assumes no fairness |

`DummyForGood` proves the exception `DiscoveryGoesOn` makes: once the period task
runs on the dummy of BTC, no step leads back.

Model-checked only: liveness itself (`EveryCallEnds`, `CallEnds`, `EveryTradeReported`,
`ChecksGoOn`, `EveryChangeShown`, `DiscoveryGoesOn`), since neither fairness nor ENABLED is in the
prover's reach. Every invariant and every refinement the runs check is proved.

## 5. Findings

1. `ActivityStreamInFlight`: the semaphore that should "limit in-flight copy
   executions" (`activity_stream.rs:343`) is one per connection; after a
   reconnect, old and new copies together exceed it.
2. `DashboardReopen`: a position that closes, reopens and closes again is shown
   with the time, size and price of its first closing (`web_state.rs:183`): the
   closed row shadows the open one of the same key.
3. `CopyConfig`: the documented snake_case keys of `trade.toml` are silently
   ignored, because the sections are read in kebab-case (`copy_trading.rs:69`).
4. `DualLimitDouble`: after a hedge "cancel unfilled limit to avoid double position"
   (`main_dual_limit_045_same_size.rs:1836`). The trade is marked as filled first, and
   `cancel_pending_limit_buy` does nothing for a trade that is confirmed
   (`trader.rs:315`): the limit order stays in the book while the bot believes it
   cancelled. In a real run the mark succeeds whenever the balance already shows the hedge's
   tokens. `check_pending_trades` has the same effect, since it confirms the limit
   trade by that balance.

Three disagreements have no run of their own. Line 3 of the dual limit bot says "No
double hedge", but a market buy that was executed with its answer lost counts as
failed, and the next of the three attempts (line 1594), or the next rule or snapshot,
buys the side again: `BuyFails` with an execution, followed by `BuyOk`, which is why
`OneHedge` speaks of answered buys. Lines 3 and 1635 say that the low-price exit runs for
the pairs of the 2-minute hedge too; the comment and the check at the exit itself (lines
2392 and 2413) leave them out, and the model follows the check. And
`buy_amount_limit_in_usd` under 1.01 is exceeded by the smallest marketable order
(`api.rs:1839`); where that is a retry, the entry records less than was bought
(`copy_trading.rs:252`) and the exit loop leaves the difference.

Observed while modelling, and not stated as findings because no text of the
repository says otherwise: a BUY of 1.00 is posted as 1.01
(`api.rs:99-104`); a page of positions that does not parse counts as an empty list
(`api.rs:2049`), so all rows are marked closed; fills of one transaction share
an id (`activity_stream.rs:77`); a copied SELL does not reduce the entry, so the exit
loop may plan more than is left, which the clamp of the order and the positions
then limit. In the bots: a market lookup that fails leaves a market without
token ids for the whole period, since the time of the refresh is set all the same
(`monitor.rs:309`); a market of an ended period, which ETH, SOL and XRP may be given,
makes the minimum of the remaining times zero and the bot idle; the lost answer of
a first buy of the trailing bot leads to a second one; an order that fills between the read of its trade
and its cancellation is a position without a trade, and the hedge buys the side
again; when the exit's second sell is retried after the sides have swapped, the
token that is already offered at 0.05 is offered at 0.99, and the other not at all;
the standard hedge is reached only after the rule for bids over 0.75 has
failed three times, because 0.80 is over 0.75.

## 6. Not modelled

- The CLOB SDK library (a binary), the stateless HTTP endpoints, formatting and
  logging, the views of the page, configuration files, the manual test programs, the
  deployment scripts: no state of their own, or none of the repository's.
- Most of `trader.rs`: the sell loops, stop loss, the second attempts of sells,
  `check_market_closure` with its redemption. No shipped bot calls
  `check_market_closure`, and the trades of the dual limit bot are marked `no_sell`, while
  the trailing bot never calls `check_pending_trades`, so there is no caller from which states and interleavings could be taken.
  The reconciliation with the portfolio at start, and restarts within a period, are
  left out with the amounts they work on.
- Amounts of the dual limit bot and the tracker's totals: `OneHedge` counts the buys that were answered Ok.
  The tracker counts the money of two positions when one replaces the other
  (`simulation.rs:231`), which only the reports show.
- The dual limit bot's own discovery of markets (its callback and its task both
  update the monitor) and its switched-off or unreachable parts: the early hedge (its
  bid must be over 0.65 and its ask at most 0.54), the sale of dual fills.
- The 5-minute bot and the sports bot: shorter forms of the modelled two. The first
  has the same mark before cancel.
- `detector.rs` and `merge.rs` have no caller among the bots; `backtest.rs` is a
  sequential replay; `rtds.rs` feeds a log line.
- Proofs left: liveness itself (section 4 says what of it is proved).
