--------------------------- MODULE MarketMonitor ---------------------------
(***************************************************************************)
(* monitor.rs: the four markets of a 15-minute period, the cache of their  *)
(* token ids, and the loop that refreshes the cache, reads the markets and *)
(* the prices lock by lock, and awaits a callback with the snapshot.       *)
(*                                                                         *)
(* Only the current period matters to anyone, so a market, a token id or a *)
(* slug is named by its period relative to the clock: Cur is the running   *)
(* one and Old any earlier one; Tick makes every Cur an Old.  A Dummy is   *)
(* the stand-in for a market that was not found: its slug has no time in   *)
(* it, so it counts as ended.  The two token ids of a market are written   *)
(* and read together; prices are left to the user of the snapshot.         *)
(***************************************************************************)
EXTENDS Naturals, Sequences

CONSTANTS Order,     \* the markets, in the order update_markets writes them
          BTC,       \* the one whose slug names the period
          Elapsed    \* bound: the seconds into a period the clock is read at

Assets == {Order[i] : i \in 1..Len(Order)}

ASSUME MonitorAssumption ==
    /\ Order \in Seq(Assets) /\ \A i, j \in 1..Len(Order) : Order[i] = Order[j] => i = j
    /\ BTC \in Assets
    /\ Elapsed \subseteq 0..899 /\ 0 \in Elapsed

Cur == "current"
Old == "earlier"
Dummy == "dummy"
Markets == {Cur, Old, Dummy}
None == "none"

VARIABLES clock,      \* seconds into the running period at its last snapshot
          market,     \* btc_market, eth_market, ...: the period of each
          token,      \* *_up_token_id, *_down_token_id: whose they are
          refreshed,  \* last_market_refresh: None, in this period, in the last
                      \* one, or at least 900 s ago
          fetch,      \* fetch_market_data: [pc, i, id, slug, cond, left, at, token]
          update,     \* update_markets: [i, found], i = 0 when it does not run
          overlap     \* history: markets of this period that were written while
                      \* a refresh held the id of the one before

monitorVars == <<clock, market, token, refreshed, fetch, update, overlap>>

NoneEach == [a \in Assets |-> None]
IdleFetch == [pc |-> "idle", i |-> 0, id |-> NoneEach, slug |-> NoneEach, cond |-> NoneEach,
              left |-> {}, at |-> 0, token |-> NoneEach]
IdleUpdate == [i |-> 0, found |-> NoneEach]

\* MarketMonitor::new, on the markets main has discovered.
MonitorInit(found) ==
    /\ clock = 0
    /\ market = found
    /\ token = NoneEach /\ refreshed = None
    /\ fetch = IdleFetch /\ update = IdleUpdate /\ overlap = {}

-----------------------------------------------------------------------------
(* The clock. *)

Aged(m) == IF m = Cur THEN Old ELSE m
AgedEach(f) == [a \in Assets |-> Aged(f[a])]

\* The next period begins.
Tick ==
    /\ clock' = 0
    /\ market' = AgedEach(market) /\ token' = AgedEach(token)
    /\ refreshed' = CASE refreshed = "this" -> "last" [] refreshed = "last" -> "due"
                      [] OTHER -> refreshed
    /\ fetch' = [fetch EXCEPT !.id = AgedEach(@), !.slug = AgedEach(@), !.cond = AgedEach(@),
                              !.token = AgedEach(@)]
    /\ update' = [update EXCEPT !.found = AgedEach(@)]
    /\ overlap' = {}

\* 900 s after a refresh of the last period: elapsed() >= period_seconds.
BecomesDue ==
    /\ refreshed = "last" /\ refreshed' = "due"
    /\ UNCHANGED <<clock, market, token, fetch, update, overlap>>

-----------------------------------------------------------------------------
(* update_markets: first the markets, one lock after another, then the     *)
(* token ids, then the time of the refresh.                                *)

StartUpdate(found) ==
    /\ update.i = 0
    /\ update' = [i |-> 1, found |-> found]

\* The next market.
ReplaceMarket ==
    LET a == Order[update.i] IN
    /\ update.i \in 1..Len(Order)
    /\ market' = [market EXCEPT ![a] = update.found[a]]
    /\ overlap' = IF fetch.id[a] = None THEN overlap \ {a} ELSE overlap \cup {a}
    /\ update' = [i |-> update.i + 1, found |-> [update.found EXCEPT ![a] = None]]
    /\ UNCHANGED <<clock, token, refreshed, fetch>>

ResetTokens_Keep ==
    /\ update.i = Len(Order) + 1
    /\ update' = [update EXCEPT !.i = @ + 1]
    /\ UNCHANGED <<clock, market, token, refreshed, fetch, overlap>>

\* "Reset token IDs - will be refreshed on next fetch".
ResetTokens ==
    /\ update.i = Len(Order) + 1
    /\ token' = NoneEach
    /\ update' = [update EXCEPT !.i = @ + 1]
    /\ UNCHANGED <<clock, market, refreshed, fetch, overlap>>

\* last_market_refresh = None: the next fetch refreshes.
UpdateEnds ==
    /\ update.i = Len(Order) + 2
    /\ refreshed' = None
    /\ update' = IdleUpdate
    /\ UNCHANGED <<clock, market, token, fetch, overlap>>

-----------------------------------------------------------------------------
(* fetch_market_data, which begins with refresh_market_tokens. *)

ShouldRefresh == refreshed \in {None, "due"}

\* One turn of start_monitoring's loop.
FetchBegins ==
    /\ fetch.pc = "idle"
    /\ fetch' = [fetch EXCEPT !.pc = IF ShouldRefresh THEN "ids" ELSE "slugs", !.i = 1]
    /\ UNCHANGED <<clock, market, token, refreshed, update, overlap>>

\* The condition ids, before anything is awaited from the API.
ReadId ==
    LET a == Order[fetch.i] IN
    /\ fetch.pc = "ids"
    /\ fetch' = [fetch EXCEPT !.id[a] = market[a],
                              !.pc = IF fetch.i = Len(Order) THEN "tokens" ELSE "ids",
                              !.i = IF fetch.i = Len(Order) THEN 1 ELSE @ + 1]
    /\ UNCHANGED <<clock, market, token, refreshed, update, overlap>>

\* get_market for the id read before, and the write of its token ids.  An
\* error, which a dummy's id always gives, leaves them as they are.
WriteTokens ==
    LET a == Order[fetch.i] IN
    /\ fetch.pc = "tokens"
    /\ \/ fetch.id[a] # Dummy /\ token' = [token EXCEPT ![a] = fetch.id[a]]
       \/ UNCHANGED token
    /\ fetch' = [fetch EXCEPT !.pc = IF fetch.i = Len(Order) THEN "mark" ELSE "tokens",
                              !.i = IF fetch.i = Len(Order) THEN 1 ELSE @ + 1]
    /\ UNCHANGED <<clock, market, refreshed, update, overlap>>

\* last_market_refresh = now, whatever the answers were.
MarkRefreshed ==
    /\ fetch.pc = "mark"
    /\ refreshed' = "this"
    /\ fetch' = [fetch EXCEPT !.pc = "slugs", !.id = NoneEach]
    /\ UNCHANGED <<clock, market, token, update, overlap>>

\* All four locks are held while the slugs are copied.
ReadSlugs ==
    /\ fetch.pc = "slugs"
    /\ fetch' = [fetch EXCEPT !.pc = "conds", !.slug = market]
    /\ UNCHANGED <<clock, market, token, refreshed, update, overlap>>

\* The condition ids again, lock by lock.
ReadCondition ==
    LET a == Order[fetch.i] IN
    /\ fetch.pc = "conds"
    /\ fetch' = [fetch EXCEPT !.cond[a] = market[a],
                              !.pc = IF fetch.i = Len(Order) THEN "left" ELSE "conds",
                              !.i = IF fetch.i = Len(Order) THEN 1 ELSE @ + 1]
    /\ UNCHANGED <<clock, market, token, refreshed, update, overlap>>

\* The clock is read; time is left for a slug of the running period only.
ReadClock ==
    /\ fetch.pc = "left"
    /\ clock' \in {t \in Elapsed : t >= clock}
    /\ fetch' = [fetch EXCEPT !.pc = "prices", !.at = clock',
                              !.left = {a \in Assets : fetch.slug[a] = Cur}]
    /\ UNCHANGED <<market, token, refreshed, update, overlap>>

MinLeft_IgnoreOthers(f) == BTC \in f.left

\* time_remaining_seconds > 0: the minimum over the markets, without the
\* dummies other than BTC's.
MinLeft(f) == \A a \in Assets : a \in f.left \/ (a # BTC /\ f.cond[a] = Dummy)

\* What the callback uses: nothing of a snapshot that has no time left.
Snapshot(f) ==
    IF MinLeft(f)
    THEN [f EXCEPT !.pc = "callback", !.i = 1, !.slug = [NoneEach EXCEPT ![BTC] = f.slug[BTC]]]
    ELSE [IdleFetch EXCEPT !.pc = "callback"]

\* The token ids are read when the prices are fetched: none for a dummy and
\* for a market that has ended, and an id without any price is dropped.
ReadPrices ==
    LET a == Order[fetch.i] IN
    /\ fetch.pc = "prices"
    /\ \E id \in {None} \cup (IF a \in fetch.left /\ fetch.cond[a] # Dummy THEN {token[a]} ELSE {}) :
          fetch' = IF fetch.i = Len(Order) THEN Snapshot([fetch EXCEPT !.token[a] = id])
                   ELSE [fetch EXCEPT !.token[a] = id, !.i = @ + 1]
    /\ UNCHANGED <<clock, market, token, refreshed, update, overlap>>

\* The callback has returned; the loop sleeps for check_interval.
FetchEnds ==
    /\ fetch.pc = "callback"
    /\ fetch' = IdleFetch

FetchStep ==
    \/ FetchBegins \/ ReadId \/ WriteTokens \/ MarkRefreshed
    \/ ReadSlugs \/ ReadCondition \/ ReadClock \/ ReadPrices

-----------------------------------------------------------------------------
Periods == Markets \cup {None}

FetchRecord == [pc : {"idle", "ids", "tokens", "mark", "slugs", "conds", "left", "prices", "callback"},
                i : 0..Len(Order), id : [Assets -> Periods], slug : [Assets -> Periods],
                cond : [Assets -> Periods], left : SUBSET Assets, at : Elapsed,
                token : [Assets -> {Cur, Old, None}]]

MonitorTypeOK ==
    /\ clock \in Elapsed
    /\ market \in [Assets -> Markets]
    /\ token \in [Assets -> {Cur, Old, None}]
    /\ refreshed \in {None, "this", "last", "due"}
    /\ fetch \in FetchRecord
    /\ update \in [i : 0..Len(Order)+2, found : [Assets -> Periods]]
    /\ overlap \subseteq Assets
=============================================================================
