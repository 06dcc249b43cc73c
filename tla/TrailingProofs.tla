--------------------------- MODULE TrailingProofs ---------------------------
(* What is proved of MarketMonitor and TrailingBot, for every number and   *)
(* order of markets in which only those up to BTC may be found in their    *)
(* previous period.                                                        *)
EXTENDS TrailingBot, TLAPS

LEMMA Constants ==
    /\ Len(Order) \in Nat /\ Len(Order) >= 1
    /\ \A j \in 1..Len(Order) : Order[j] \in Assets
    /\ \A a \in Assets : \E j \in 1..Len(Order) : Order[j] = a
    /\ Len(Traded) \in Nat /\ \A j \in 1..Len(Traded) : Traded[j] \in Assets
    /\ BTC \in Assets /\ 0 \in Elapsed
<1>1. /\ Len(Order) \in Nat
      /\ \A a \in Assets : \E j \in 1..Len(Order) : Order[j] = a
  BY MonitorAssumption DEF Assets
<1>2. Len(Order) >= 1
  BY <1>1, MonitorAssumption
<1> QED BY <1>1, <1>2, MonitorAssumption, TrailingAssumption

\* No market is twice in the order.
LEMMA Distinct == \A i, j \in 1..Len(Order) : i # j => Order[i] # Order[j]
BY MonitorAssumption

\* What a period is called once the next one has begun.
LEMMA Ages ==
    /\ \A f : \A a \in Assets : AgedEach(f)[a] = Aged(f[a])
    /\ \A f \in [Assets -> Periods] : AgedEach(f) \in [Assets -> Periods]
    /\ \A f \in [Assets -> Markets] : AgedEach(f) \in [Assets -> Markets]
    /\ \A f \in [Assets -> {Cur, Old, None}] : AgedEach(f) \in [Assets -> {Cur, Old, None}]
BY DEF AgedEach, Aged, Periods, Markets, Cur, Old, Dummy, None

-----------------------------------------------------------------------------
(* The monitor's steps, whoever takes them. *)

MonitorNext ==
    \/ Tick \/ BecomesDue
    \/ /\ \E f \in Findings : StartUpdate(f)
       /\ market[BTC] = Old
       /\ UNCHANGED <<clock, market, token, refreshed, fetch, overlap>>
    \/ ReplaceMarket \/ ResetTokens \/ UpdateEnds
    \/ FetchStep
    \/ FetchEnds /\ UNCHANGED <<clock, market, token, refreshed, update, overlap>>
    \/ UNCHANGED monitorVars

LEMMA BotSteps ==
    ASSUME NEW a \in Assets, NEW q \in Asks,
           \/ Skip(a) \/ BuyOk(a) \/ BuyFails(a)
           \/ SeesHalf(a, q) \/ StartsTrailing(a, q) \/ TrailingReset(a, q)
           \/ TrailingGoesOn(a, q) \/ FirstBuy(a, q) \/ SecondWaits(a, q) \/ SecondBuy(a, q)
    PROVE  UNCHANGED <<monitorVars, task>>
BY DEF Skip, BuyOk, BuyFails, SeesHalf, StartsTrailing, TrailingReset, TrailingGoesOn, FirstBuy,
       SecondWaits, SecondBuy, Ends

LEMMA MonitorSteps == [Next]_vars => MonitorNext
<1> SUFFICES ASSUME [Next]_vars PROVE MonitorNext
  OBVIOUS
<1>1. CASE NextPeriod \/ Ageing \/ Fetch \/ UNCHANGED vars
  BY <1>1 DEF NextPeriod, Ageing, Fetch, vars, MonitorNext
<1>2. CASE Sleep \/ Update
  BY <1>2 DEF Sleep, Update, MonitorNext
<1>3. CASE Discover
  BY <1>3 DEF Discover, BtcPeriod, Cur, Old, Dummy, MonitorNext
<1>4. CASE Return
  BY <1>4 DEF Return, MonitorNext
<1>5. CASE Callback /\ ~Return
  <2>1. PICK a \in Assets :
            \/ Skip(a) \/ BuyOk(a) \/ BuyFails(a)
            \/ \E q \in Asks :
                  \/ SeesHalf(a, q) \/ StartsTrailing(a, q) \/ TrailingReset(a, q)
                  \/ TrailingGoesOn(a, q) \/ FirstBuy(a, q) \/ SecondWaits(a, q) \/ SecondBuy(a, q)
    BY <1>5 DEF Callback
  <2>2. UNCHANGED monitorVars
    BY <2>1, BotSteps DEF Skip, BuyOk, BuyFails, Ends
  <2> QED BY <2>2 DEF MonitorNext
<1> QED BY <1>1, <1>2, <1>3, <1>4, <1>5 DEF Next, PeriodTask

-----------------------------------------------------------------------------
(* Types of the monitor.  Its loops start at 1, and a market still to be   *)
(* replaced has been found.                                                *)

Looping == fetch.pc \notin {"idle", "callback"} => fetch.i >= 1

FoundInv == update.i >= 1 => \A j \in update.i..Len(Order) : update.found[Order[j]] \in Markets

MonitorInv == MonitorTypeOK /\ Looping /\ FoundInv

LEMMA MonitorInits == Init => MonitorInv
<1> SUFFICES ASSUME Init PROVE MonitorInv
  OBVIOUS
<1>1. PICK f \in Findings : MonitorInit(f)
  BY DEF Init
<1>2. NoneEach \in [Assets -> Periods] /\ NoneEach \in [Assets -> {Cur, Old, None}]
  BY DEF NoneEach, Periods, None
<1>3. IdleFetch \in FetchRecord
  BY <1>2, Constants DEF IdleFetch, FetchRecord
<1>4. IdleUpdate \in [i : 0..Len(Order)+2, found : [Assets -> Periods]]
  BY <1>2, Constants DEF IdleUpdate
<1>5. fetch = IdleFetch /\ update = IdleUpdate /\ market = f /\ token = NoneEach
  BY <1>1 DEF MonitorInit
<1>6. fetch.pc = "idle" /\ update.i = 0
  BY <1>5 DEF IdleFetch, IdleUpdate
<1>7. MonitorTypeOK
  BY <1>1, <1>2, <1>3, <1>4, <1>5, Constants DEF MonitorInit, MonitorTypeOK, Findings
<1> QED BY <1>6, <1>7 DEF MonitorInv, Looping, FoundInv

LEMMA TickTyped == ASSUME MonitorInv, Tick PROVE MonitorInv'
<1>1. fetch' \in FetchRecord /\ fetch'.pc = fetch.pc /\ fetch'.i = fetch.i
  BY Ages DEF Tick, MonitorInv, MonitorTypeOK, FetchRecord
<1>2. /\ update' \in [i : 0..Len(Order)+2, found : [Assets -> Periods]]
      /\ update'.i = update.i /\ update'.found = AgedEach(update.found)
  BY Ages DEF Tick, MonitorInv, MonitorTypeOK
<1>3. MonitorTypeOK'
  BY <1>1, <1>2, Ages, Constants DEF Tick, MonitorInv, MonitorTypeOK
<1>4. Looping'
  BY <1>1 DEF MonitorInv, Looping
<1>5. FoundInv'
  <2> SUFFICES ASSUME update.i >= 1, NEW j \in update.i..Len(Order)
               PROVE  update'.found[Order[j]] \in Markets
    BY <1>2 DEF FoundInv
  <2>1. Order[j] \in Assets /\ update.found[Order[j]] \in Markets
    BY Constants DEF MonitorInv, FoundInv, MonitorTypeOK
  <2> QED BY <1>2, <2>1, Ages DEF Aged, Markets, Cur, Old
<1> QED BY <1>3, <1>4, <1>5 DEF MonitorInv

LEMMA UpdateTyped ==
    ASSUME MonitorInv,
           \/ ReplaceMarket \/ ResetTokens \/ UpdateEnds
           \/ /\ \E f \in Findings : StartUpdate(f)
              /\ UNCHANGED <<clock, market, token, refreshed, fetch, overlap>>
    PROVE  MonitorInv'
<1> USE DEF MonitorInv, MonitorTypeOK
<1>1. NoneEach \in [Assets -> Periods] /\ NoneEach \in [Assets -> {Cur, Old, None}]
  BY DEF NoneEach, Periods, None
<1>2. ASSUME NEW f \in Findings, StartUpdate(f),
             UNCHANGED <<clock, market, token, refreshed, fetch, overlap>>
      PROVE  MonitorInv'
  BY <1>2, Constants DEF StartUpdate, Findings, Periods, Looping, FoundInv
<1>3. CASE ReplaceMarket
  <2> DEFINE a == Order[update.i]
  <2>1. update.i \in 1..Len(Order) /\ a \in Assets /\ update.found[a] \in Markets
    BY <1>3, Constants DEF ReplaceMarket, FoundInv
  <2>2. /\ update'.i = update.i + 1 /\ update'.found = [update.found EXCEPT ![a] = None]
        /\ update' \in [i : 0..Len(Order)+2, found : [Assets -> Periods]]
    BY <1>3, <2>1, Constants DEF ReplaceMarket, Periods
  <2>3. market' \in [Assets -> Markets] /\ overlap' \subseteq Assets
    BY <1>3, <2>1 DEF ReplaceMarket
  <2>4. FoundInv'
    <3> SUFFICES ASSUME NEW j \in (update.i + 1)..Len(Order)
                 PROVE  update'.found[Order[j]] \in Markets
      BY <2>2 DEF FoundInv
    <3>1. j \in update.i..Len(Order) /\ j \in 1..Len(Order) /\ j # update.i
      BY <2>1, Constants
    <3>2. Order[j] # a /\ Order[j] \in Assets
      BY <2>1, <3>1, Constants, MonitorAssumption
    <3>3. update.found[Order[j]] \in Markets
      BY <2>1, <3>1 DEF FoundInv
    <3> QED BY <2>2, <3>2, <3>3
  <2> QED BY <1>3, <2>2, <2>3, <2>4 DEF ReplaceMarket, Looping
<1>4. CASE ResetTokens
  BY <1>1, <1>4, Constants DEF ResetTokens, Looping, FoundInv
<1>5. CASE UpdateEnds
  BY <1>1, <1>5, Constants DEF UpdateEnds, IdleUpdate, Looping, FoundInv
<1> QED BY <1>2, <1>3, <1>4, <1>5

\* The places of the fetch.
Places == {"idle", "ids", "tokens", "mark", "slugs", "conds", "left", "prices", "callback"}

LEMMA SnapshotTyped ==
    ASSUME NEW f \in FetchRecord
    PROVE  Snapshot(f) \in FetchRecord /\ Snapshot(f).pc = "callback"
<1>1. /\ NoneEach \in [Assets -> Periods] /\ IdleFetch \in FetchRecord
      /\ [IdleFetch EXCEPT !.pc = "callback"] \in FetchRecord
      /\ [IdleFetch EXCEPT !.pc = "callback"].pc = "callback"
  <2>1. NoneEach \in [Assets -> Periods] /\ NoneEach \in [Assets -> {Cur, Old, None}]
    BY DEF NoneEach, Periods
  <2>2. 0 \in 0..Len(Order) /\ 0 \in Elapsed
    BY Constants
  <2> QED BY <2>1, <2>2 DEF IdleFetch, FetchRecord
<1> DEFINE e == [NoneEach EXCEPT ![BTC] = f.slug[BTC]]
           g == [f EXCEPT !.pc = "callback", !.i = 1, !.slug = e]
<1>2. e \in [Assets -> Periods] /\ 1 \in 0..Len(Order)
  BY <1>1, Constants DEF FetchRecord
<1> HIDE DEF e
<1>3. g \in FetchRecord /\ g.pc = "callback"
  BY <1>2 DEF FetchRecord
<1> QED BY <1>1, <1>3 DEF Snapshot, e

LEMMA FetchTyped ==
    ASSUME MonitorInv,
           \/ FetchStep
           \/ FetchEnds /\ UNCHANGED <<clock, market, token, refreshed, update, overlap>>
    PROVE  MonitorInv'
<1>1. /\ NoneEach \in [Assets -> Periods] /\ NoneEach \in [Assets -> {Cur, Old, None}]
      /\ IdleFetch \in FetchRecord /\ IdleFetch.pc = "idle"
  BY Constants DEF NoneEach, IdleFetch, Periods, None, FetchRecord
<1>2. fetch \in FetchRecord /\ market \in [Assets -> Periods]
  BY DEF MonitorInv, MonitorTypeOK, Periods
<1>3. fetch.pc \in {"ids", "tokens", "conds", "prices"} =>
          fetch.i \in 1..Len(Order) /\ Order[fetch.i] \in Assets
  <2>1. fetch.i \in 0..Len(Order)
    BY <1>2 DEF FetchRecord
  <2> QED BY <2>1, Constants DEF MonitorInv, Looping
<1>4. 1 \in 0..Len(Order) /\ (fetch.i \in 1..Len(Order) /\ fetch.i # Len(Order) => fetch.i + 1 \in 1..Len(Order))
  BY Constants
<1> DEFINE a == Order[fetch.i]
           last == fetch.i = Len(Order)
           next == IF last THEN 1 ELSE fetch.i + 1
<1>5. fetch.pc \in {"ids", "tokens", "conds", "prices"} => next \in 0..Len(Order) /\ next >= 1
  BY <1>3, <1>4, Constants
<1>6. ASSUME fetch' \in FetchRecord, Looping', UNCHANGED update,
             clock' \in Elapsed, market' = market, overlap' = overlap,
             token' \in [Assets -> {Cur, Old, None}], refreshed' \in {refreshed, "this"}
      PROVE  MonitorInv'
  BY <1>6 DEF MonitorInv, MonitorTypeOK, FoundInv
<1>7. clock \in Elapsed /\ token \in [Assets -> {Cur, Old, None}]
  BY DEF MonitorInv, MonitorTypeOK
<1> HIDE DEF next
<1>8. CASE FetchBegins
  <2> DEFINE p == IF ShouldRefresh THEN "ids" ELSE "slugs"
  <2>1. p \in Places
    BY DEF Places
  <2> HIDE DEF p
  <2>2. fetch' = [fetch EXCEPT !.pc = p, !.i = 1]
    BY <1>8 DEF FetchBegins, p
  <2>3. fetch' \in FetchRecord /\ fetch'.i = 1
    BY <1>1, <1>2, <1>4, <2>1, <2>2 DEF FetchRecord, Places
  <2> QED BY <1>6, <1>7, <1>8, <2>3 DEF FetchBegins, Looping
<1>9. CASE ReadId
  <2> DEFINE p == IF last THEN "tokens" ELSE "ids"
             e == [fetch.id EXCEPT ![a] = market[a]]
  <2>1. p \in Places /\ e \in [Assets -> Periods]
    BY <1>2, <1>3, <1>9 DEF Places, ReadId, FetchRecord
  <2>2. fetch' = [fetch EXCEPT !.id = e, !.pc = p, !.i = next]
    BY <1>9 DEF ReadId, next
  <2> HIDE DEF p, e
  <2>3. next \in 0..Len(Order) /\ next >= 1
    BY <1>5, <1>9 DEF ReadId
  <2>4. fetch' \in FetchRecord /\ fetch'.i = next
    BY <1>2, <2>1, <2>2, <2>3 DEF FetchRecord, Places
  <2> QED BY <1>6, <1>7, <1>9, <2>3, <2>4 DEF ReadId, Looping
<1>10. CASE ReadCondition
  <2> DEFINE p == IF last THEN "left" ELSE "conds"
             e == [fetch.cond EXCEPT ![a] = market[a]]
  <2>1. p \in Places /\ e \in [Assets -> Periods]
    BY <1>2, <1>3, <1>10 DEF Places, ReadCondition, FetchRecord
  <2>2. fetch' = [fetch EXCEPT !.cond = e, !.pc = p, !.i = next]
    BY <1>10 DEF ReadCondition, next
  <2> HIDE DEF p, e
  <2>3. next \in 0..Len(Order) /\ next >= 1
    BY <1>5, <1>10 DEF ReadCondition
  <2>4. fetch' \in FetchRecord /\ fetch'.i = next
    BY <1>2, <2>1, <2>2, <2>3 DEF FetchRecord, Places
  <2> QED BY <1>6, <1>7, <1>10, <2>3, <2>4 DEF ReadCondition, Looping
<1>11. CASE WriteTokens
  <2> DEFINE p == IF last THEN "mark" ELSE "tokens"
  <2>1. p \in Places
    BY DEF Places
  <2>2. fetch' = [fetch EXCEPT !.pc = p, !.i = next]
    BY <1>11 DEF WriteTokens, next
  <2> HIDE DEF p
  <2>7. next \in 0..Len(Order) /\ next >= 1
    BY <1>5, <1>11 DEF WriteTokens
  <2>3. fetch' \in FetchRecord /\ fetch'.i = next
    BY <1>1, <1>2, <2>1, <2>2, <2>7 DEF FetchRecord, Places
  <2>4. token' = token \/ (fetch.id[a] # Dummy /\ token' = [token EXCEPT ![a] = fetch.id[a]])
    BY <1>11 DEF WriteTokens
  <2>5. fetch.id[a] \in Periods
    BY <1>2, <1>3, <1>11 DEF WriteTokens, FetchRecord
  <2>6. token' \in [Assets -> {Cur, Old, None}]
    BY <1>7, <2>4, <2>5 DEF Periods, Markets
  <2> QED BY <1>6, <1>7, <1>11, <2>3, <2>6, <2>7 DEF WriteTokens, Looping
<1>12. CASE MarkRefreshed
  <2>1. fetch' = [fetch EXCEPT !.pc = "slugs", !.id = NoneEach] /\ "slugs" \in Places
    BY <1>12 DEF MarkRefreshed, Places
  <2>2. fetch' \in FetchRecord /\ fetch'.i = fetch.i
    BY <1>1, <1>2, <1>4, <2>1 DEF FetchRecord, Places
  <2>3. fetch.i >= 1
    BY <1>12 DEF MonitorInv, Looping, MarkRefreshed
  <2> QED BY <1>6, <1>7, <1>12, <2>2, <2>3 DEF MarkRefreshed, Looping
<1>13. CASE ReadSlugs
  <2>1. fetch' = [fetch EXCEPT !.pc = "conds", !.slug = market] /\ "conds" \in Places
    BY <1>13 DEF ReadSlugs, Places
  <2>2. fetch' \in FetchRecord /\ fetch'.i = fetch.i
    BY <1>2, <2>1 DEF FetchRecord, Places
  <2>3. fetch.i >= 1
    BY <1>13 DEF MonitorInv, Looping, ReadSlugs
  <2> QED BY <1>6, <1>7, <1>13, <2>2, <2>3 DEF ReadSlugs, Looping
<1>14. CASE ReadClock
  <2> DEFINE L == {b \in Assets : fetch.slug[b] = Cur}
  <2>1. L \in SUBSET Assets /\ clock' \in Elapsed
    BY <1>14 DEF ReadClock
  <2>2. fetch' = [fetch EXCEPT !.pc = "prices", !.at = clock', !.left = L]
    BY <1>14 DEF ReadClock
  <2> HIDE DEF L
  <2>3. fetch' \in FetchRecord /\ fetch'.i = fetch.i
    BY <1>2, <2>1, <2>2 DEF FetchRecord
  <2>4. fetch.i >= 1
    BY <1>14 DEF MonitorInv, Looping, ReadClock
  <2> QED BY <1>6, <1>7, <1>14, <2>1, <2>3, <2>4 DEF ReadClock, Looping
<1>15. CASE ReadPrices
  <2>1. PICK id \in {None} \cup {token[a]} :
            fetch' = IF last THEN Snapshot([fetch EXCEPT !.token[a] = id])
                     ELSE [fetch EXCEPT !.token[a] = id, !.i = @ + 1]
    BY <1>15 DEF ReadPrices
  <2>2. id \in {Cur, Old, None} /\ a \in Assets /\ fetch.i \in 1..Len(Order)
    BY <1>3, <1>7, <1>15 DEF ReadPrices
  <2> DEFINE e == [fetch.token EXCEPT ![a] = id]
  <2>3. e \in [Assets -> {Cur, Old, None}]
    BY <1>2, <2>2 DEF FetchRecord
  <2> HIDE DEF e
  <2>4. CASE last
    <3>1. fetch' = Snapshot([fetch EXCEPT !.token = e])
      BY <2>1, <2>4 DEF e
    <3>2. [fetch EXCEPT !.token = e] \in FetchRecord
      BY <1>2, <2>3 DEF FetchRecord
    <3>3. fetch' \in FetchRecord /\ fetch'.pc = "callback"
      BY <3>1, <3>2, SnapshotTyped
    <3> QED BY <1>6, <1>7, <1>15, <3>3 DEF ReadPrices, Looping
  <2>5. CASE ~last
    <3>1. fetch' = [fetch EXCEPT !.token = e, !.i = fetch.i + 1]
      BY <2>1, <2>5 DEF e
    <3>2. fetch.i + 1 \in 0..Len(Order) /\ fetch.i + 1 >= 1
      BY <1>4, <2>2, <2>5, Constants
    <3>3. fetch' \in FetchRecord /\ fetch'.i = fetch.i + 1
      BY <1>2, <2>3, <3>1, <3>2 DEF FetchRecord
    <3> QED BY <1>6, <1>7, <1>15, <3>2, <3>3 DEF ReadPrices, Looping
  <2> QED BY <2>4, <2>5
<1>16. CASE FetchEnds /\ UNCHANGED <<clock, market, token, refreshed, update, overlap>>
  BY <1>1, <1>6, <1>7, <1>16 DEF FetchEnds, Looping
<1> QED BY <1>8, <1>9, <1>10, <1>11, <1>12, <1>13, <1>14, <1>15, <1>16 DEF FetchStep

LEMMA MonitorTyped == MonitorInv /\ MonitorNext => MonitorInv'
<1> SUFFICES ASSUME MonitorInv, MonitorNext PROVE MonitorInv'
  OBVIOUS
<1>1. CASE BecomesDue \/ UNCHANGED monitorVars
  BY <1>1 DEF BecomesDue, monitorVars, MonitorInv, MonitorTypeOK, Looping, FoundInv
<1> QED BY <1>1, TickTyped, UpdateTyped, FetchTyped DEF MonitorNext

-----------------------------------------------------------------------------
(* What update_markets replaces.  A market of an earlier period is found   *)
(* for those up to BTC only, so once BTC's is the running one none of the  *)
(* rest goes back, until the next period begins.                           *)

BtcPending == update.i >= 1 /\ \E j \in update.i..Len(Order) : Order[j] = BTC

UpdateInv ==
    /\ BtcPending => market[BTC] = Old
    /\ \A i, j \in 1..Len(Order) :
          1 <= update.i /\ update.i <= i /\ i < j /\ Order[i] = BTC /\ update.found[BTC] = Cur =>
              update.found[Order[j]] # Old
    /\ update.i >= 1 /\ ~BtcPending /\ market[BTC] = Cur =>
          \A j \in update.i..Len(Order) : update.found[Order[j]] # Old

LEMMA UpdateStep == MonitorInv /\ UpdateInv /\ MonitorNext => UpdateInv'
<1> SUFFICES ASSUME MonitorInv, UpdateInv, MonitorNext PROVE UpdateInv'
  OBVIOUS
<1>1. CASE UNCHANGED <<update, market>>
  BY <1>1 DEF UpdateInv, BtcPending
<1>2. CASE Tick
  <2>1. /\ market' = AgedEach(market) /\ update'.i = update.i
        /\ update'.found = AgedEach(update.found)
    BY <1>2 DEF Tick, MonitorInv, MonitorTypeOK
  <2>2. market'[BTC] = Aged(market[BTC]) /\ update'.found[BTC] = Aged(update.found[BTC])
    BY <2>1, Ages, Constants
  <2>3. market'[BTC] # Cur /\ update'.found[BTC] # Cur /\ (market[BTC] = Old => market'[BTC] = Old)
    BY <2>2 DEF Aged, Cur, Old
  <2> QED BY <2>1, <2>3 DEF UpdateInv, BtcPending
<1>3. ASSUME NEW f \in Findings, StartUpdate(f), market[BTC] = Old, market' = market PROVE UpdateInv'
  <2>1. update' = [i |-> 1, found |-> f]
    BY <1>3 DEF StartUpdate
  <2>2. BtcPending'
    BY <2>1, Constants DEF BtcPending
  <2>3. \A i, j \in 1..Len(Order) : i < j /\ Order[i] = BTC => f[Order[j]] # Old
    BY TrailingAssumption, Constants DEF Findings
  <2> QED BY <1>3, <2>1, <2>2, <2>3 DEF UpdateInv
<1>4. CASE ReplaceMarket
  <2> DEFINE n == update.i
             a == Order[n]
  <2>1. n \in 1..Len(Order) /\ a \in Assets
    BY <1>4, Constants DEF ReplaceMarket
  <2>2. /\ update'.i = n + 1
        /\ market' = [market EXCEPT ![a] = update.found[a]]
        /\ update'.found = [update.found EXCEPT ![a] = None]
    BY <1>4 DEF ReplaceMarket
  <2>3. \A j \in 1..Len(Order) : j # n => Order[j] # a /\ update'.found[Order[j]] = update.found[Order[j]]
    <3>1. ASSUME NEW j \in 1..Len(Order), j # n PROVE Order[j] # a /\ Order[j] \in Assets
      <4>1. Order[j] \in Assets
        BY Constants
      <4>2. Order[j] # Order[n]
        BY <2>1, <3>1, Distinct
      <4> QED BY <4>1, <4>2
    <3>2. update.found \in [Assets -> Periods]
      BY DEF MonitorInv, MonitorTypeOK
    <3> HIDE DEF n, a
    <3> QED BY <2>1, <2>2, <3>1, <3>2
  <2>4. market \in [Assets -> Markets] /\ update.found \in [Assets -> Periods] /\ Len(Order) \in Nat
    BY Constants DEF MonitorInv, MonitorTypeOK
  <2> HIDE DEF n, a
  <2>5. BtcPending <=> BtcPending' \/ a = BTC
    <3>1. BtcPending <=> \E j \in n..Len(Order) : Order[j] = BTC
      BY <2>1 DEF BtcPending, n
    <3>2. BtcPending' <=> \E j \in (n + 1)..Len(Order) : Order[j] = BTC
      BY <2>1, <2>2 DEF BtcPending
    <3>3. n..Len(Order) = {n} \cup (n + 1)..Len(Order)
      BY <2>1, <2>4
    <3> QED BY <3>1, <3>2, <3>3 DEF a
  <2>6. BtcPending' => a # BTC
    BY <2>1, <2>2, <2>3, <2>4 DEF BtcPending
  <2>7. BtcPending' => market'[BTC] = Old
    BY <2>2, <2>4, <2>5, <2>6, Constants DEF UpdateInv
  <2>8. ASSUME NEW i \in 1..Len(Order), NEW j \in 1..Len(Order),
               n + 1 <= i, i < j, Order[i] = BTC, update'.found[BTC] = Cur
        PROVE  update'.found[Order[j]] # Old
    <3>1. i # n /\ j # n /\ n <= i /\ 1 <= n
      BY <2>1, <2>4, <2>8
    <3>2. update.found[BTC] = Cur
      BY <2>3, <2>8, <3>1
    <3> QED BY <2>3, <2>8, <3>1, <3>2 DEF UpdateInv, n
  <2>9. ASSUME ~BtcPending', market'[BTC] = Cur, NEW j \in (n + 1)..Len(Order)
        PROVE  update'.found[Order[j]] # Old
    <3>1. j \in 1..Len(Order) /\ j # n /\ n < j /\ j \in n..Len(Order) /\ 1 <= n
      BY <2>1, <2>4
    <3>2. CASE a = BTC
      <4>1. update.found[BTC] = Cur
        BY <2>2, <2>4, <2>9, <3>2, Constants
      <4> QED BY <2>1, <2>3, <3>1, <3>2, <4>1 DEF UpdateInv, n, a
    <3>3. CASE a # BTC
      <4>1. ~BtcPending /\ market[BTC] = Cur
        BY <2>2, <2>4, <2>5, <2>9, <3>3, Constants
      <4> QED BY <2>3, <3>1, <4>1 DEF UpdateInv, n
    <3> QED BY <3>2, <3>3
  <2> QED BY <2>2, <2>7, <2>8, <2>9 DEF UpdateInv
<1>5. CASE ResetTokens \/ UpdateEnds
  <2>1. update'.i \notin 1..Len(Order) /\ ~(\E j \in update'.i..Len(Order) : update'.i >= 1)
    BY <1>5, Constants DEF ResetTokens, UpdateEnds, IdleUpdate, MonitorInv, MonitorTypeOK
  <2>2. ~BtcPending'
    BY <2>1 DEF BtcPending
  <2>3. \A i \in 1..Len(Order) : ~(1 <= update'.i /\ update'.i <= i)
    BY <1>5, Constants DEF ResetTokens, UpdateEnds, IdleUpdate, MonitorInv, MonitorTypeOK
  <2> QED BY <2>1, <2>2, <2>3 DEF UpdateInv
<1> QED BY <1>1, <1>2, <1>3, <1>4, <1>5
        DEF MonitorNext, BecomesDue, FetchStep, FetchBegins, ReadId, WriteTokens, MarkRefreshed,
            ReadSlugs, ReadCondition, ReadClock, ReadPrices, monitorVars

-----------------------------------------------------------------------------
(* What the fetch has read. *)

Early == {"idle", "ids", "tokens", "mark", "slugs"}

\* The condition ids of this fetch, as far as they have been read.
CondInv ==
    /\ fetch.pc \in {"mark", "slugs"} => fetch.i = 1
    /\ fetch.pc \in Early => \A a \in Assets : fetch.cond[a] = None
    /\ fetch.pc = "conds" => \A j \in 1..Len(Order) : j < fetch.i => fetch.cond[Order[j]] # None
    /\ fetch.pc = "left" => \A a \in Assets : fetch.cond[a] # None

\* As long as BTC's slug is of the running period no market read with it goes
\* back to an earlier one.
SlugInv ==
    fetch.pc \in {"conds", "left"} /\ fetch.slug[BTC] = Cur =>
        /\ market[BTC] = Cur
        /\ \A a \in Assets : fetch.slug[a] = Cur =>
              market[a] \in {Cur, Dummy} /\ fetch.cond[a] \in {Cur, Dummy, None}

\* Those with time left are of one period, whichever it is by now.
LeftInv ==
    fetch.pc = "prices" /\ BTC \in fetch.left =>
        \A a \in fetch.left : fetch.cond[a] \in {fetch.slug[BTC], Dummy}

ReadInv == UpdateInv /\ CondInv /\ SlugInv /\ LeftInv /\ SnapshotOfOnePeriod

\* What each step of the fetch does to what has been read.
LEMMA FetchChanges ==
    ASSUME MonitorInv, FetchStep
    PROVE  \/ /\ fetch.pc \in Early /\ fetch'.pc \in Early /\ fetch'.cond = fetch.cond
              /\ fetch'.pc \in {"mark", "slugs"} => fetch'.i = 1 \/ (fetch.pc = "mark" /\ fetch'.i = fetch.i)
           \/ /\ fetch.pc = "slugs" /\ fetch'.pc = "conds"
              /\ fetch'.slug = market /\ fetch'.cond = fetch.cond /\ fetch'.i = fetch.i
           \/ /\ fetch.pc = "conds" /\ fetch.i \in 1..Len(Order) /\ fetch'.slug = fetch.slug
              /\ fetch'.cond = [fetch.cond EXCEPT ![Order[fetch.i]] = market[Order[fetch.i]]]
              /\ \/ fetch.i = Len(Order) /\ fetch'.pc = "left"
                 \/ fetch.i # Len(Order) /\ fetch'.pc = "conds" /\ fetch'.i = fetch.i + 1
           \/ /\ fetch.pc = "left" /\ fetch'.pc = "prices"
              /\ fetch'.slug = fetch.slug /\ fetch'.cond = fetch.cond
              /\ fetch'.left = {a \in Assets : fetch.slug[a] = Cur}
           \/ /\ fetch.pc = "prices" /\ fetch'.pc = "prices"
              /\ fetch'.slug = fetch.slug /\ fetch'.cond = fetch.cond /\ fetch'.left = fetch.left
           \/ /\ fetch.pc = "prices" /\ fetch'.pc = "callback"
              /\ \/ fetch'.left = {}
                 \/ /\ fetch'.slug[BTC] = fetch.slug[BTC] /\ fetch'.cond = fetch.cond
                    /\ fetch'.left = fetch.left /\ BTC \in fetch.left
                    /\ \A a \in Assets : a \in fetch.left \/ fetch.cond[a] = Dummy
<1>1. fetch \in FetchRecord
  BY DEF MonitorInv, MonitorTypeOK
<1>2. CASE FetchBegins \/ WriteTokens \/ MarkRefreshed
  BY <1>1, <1>2 DEF FetchBegins, WriteTokens, MarkRefreshed, FetchRecord, Early
<1>3. CASE ReadId
  BY <1>1, <1>3 DEF ReadId, FetchRecord, Early
<1>4. CASE ReadSlugs
  BY <1>1, <1>4 DEF ReadSlugs, FetchRecord
<1>5. CASE ReadCondition
  <2>1. fetch.i \in 1..Len(Order)
    BY <1>1, <1>5, Constants DEF ReadCondition, FetchRecord, MonitorInv, Looping
  <2> QED BY <1>1, <1>5, <2>1 DEF ReadCondition, FetchRecord
<1>6. CASE ReadClock
  BY <1>1, <1>6 DEF ReadClock, FetchRecord
<1>7. CASE ReadPrices
  <2>1. PICK id \in {None} \cup {token[Order[fetch.i]]} :
            fetch' = IF fetch.i = Len(Order) THEN Snapshot([fetch EXCEPT !.token[Order[fetch.i]] = id])
                     ELSE [fetch EXCEPT !.token[Order[fetch.i]] = id, !.i = @ + 1]
    BY <1>7 DEF ReadPrices
  <2> DEFINE e == [fetch.token EXCEPT ![Order[fetch.i]] = id]
             g == [fetch EXCEPT !.token = e]
  <2> HIDE DEF e
  <2>2. /\ g.cond = fetch.cond /\ g.slug = fetch.slug /\ g.left = fetch.left
        /\ g \in [pc : {"prices"}, i : 0..Len(Order), id : [Assets -> Periods],
                  slug : [Assets -> Periods], cond : [Assets -> Periods], left : SUBSET Assets,
                  at : Elapsed, token : {e}]
    BY <1>1, <1>7 DEF ReadPrices, FetchRecord
  <2>3. CASE fetch.i # Len(Order)
    BY <1>1, <1>7, <2>1, <2>3 DEF ReadPrices, FetchRecord
  <2>4. CASE fetch.i = Len(Order)
    <3>1. fetch' = Snapshot(g)
      BY <2>1, <2>4 DEF e
    <3> HIDE DEF g
    <3>2. CASE ~MinLeft(g)
      BY <1>7, <3>1, <3>2 DEF Snapshot, IdleFetch, ReadPrices
    <3>3. CASE MinLeft(g)
      <4> DEFINE h == [NoneEach EXCEPT ![BTC] = g.slug[BTC]]
      <4>1. h[BTC] = g.slug[BTC]
        BY Constants DEF NoneEach
      <4> HIDE DEF h
      <4>2. fetch' = [g EXCEPT !.pc = "callback", !.i = 1, !.slug = h]
        BY <3>1, <3>3 DEF Snapshot, h
      <4>3. fetch'.pc = "callback" /\ fetch'.slug = h /\ fetch'.cond = g.cond /\ fetch'.left = g.left
        BY <2>2, <4>2
      <4> QED BY <1>7, <2>2, <3>3, <4>1, <4>3, Constants DEF ReadPrices, MinLeft
    <3> QED BY <3>2, <3>3
  <2> QED BY <2>3, <2>4
<1> QED BY <1>2, <1>3, <1>4, <1>5, <1>6, <1>7 DEF FetchStep

\* A step of the clock or of update_markets leaves the fetch alone, but for
\* the names of the periods.
LEMMA OtherChanges ==
    ASSUME MonitorInv, MonitorNext, ~FetchStep
    PROVE  \/ fetch' = fetch
           \/ fetch' = IdleFetch /\ fetch.pc = "callback"
           \/ /\ Tick
              /\ fetch'.pc = fetch.pc /\ fetch'.i = fetch.i /\ fetch'.left = fetch.left
              /\ \A a \in Assets : /\ fetch'.cond[a] = Aged(fetch.cond[a])
                                   /\ fetch'.slug[a] = Aged(fetch.slug[a])
<1>1. CASE Tick
  <2>1. /\ fetch'.pc = fetch.pc /\ fetch'.i = fetch.i /\ fetch'.left = fetch.left
        /\ fetch'.cond = AgedEach(fetch.cond) /\ fetch'.slug = AgedEach(fetch.slug)
    BY <1>1 DEF Tick, MonitorInv, MonitorTypeOK, FetchRecord
  <2> QED BY <1>1, <2>1, Ages
<1>2. CASE ~Tick
  BY <1>2 DEF MonitorNext, BecomesDue, ReplaceMarket, ResetTokens, UpdateEnds, FetchEnds, monitorVars
<1> QED BY <1>1, <1>2

LEMMA CondStep == ASSUME MonitorInv, CondInv, MonitorNext PROVE CondInv'
<1>1. fetch \in FetchRecord /\ market \in [Assets -> Markets]
  BY DEF MonitorInv, MonitorTypeOK
<1>2. CASE FetchStep
  <2>1. CASE fetch.pc \in Early /\ fetch'.pc \in Early /\ fetch'.cond = fetch.cond
    <3>1. fetch'.pc \in {"mark", "slugs"} => fetch'.i = 1
      BY <1>2, <2>1, FetchChanges DEF CondInv, Early
    <3> QED BY <2>1, <3>1 DEF CondInv, Early
  <2>2. CASE fetch.pc = "slugs"
    BY <1>2, <2>2, FetchChanges DEF CondInv, Early
  <2>3. CASE fetch.pc = "conds"
    <3>1. /\ fetch.i \in 1..Len(Order)
          /\ fetch'.cond = [fetch.cond EXCEPT ![Order[fetch.i]] = market[Order[fetch.i]]]
          /\ \/ fetch.i = Len(Order) /\ fetch'.pc = "left"
             \/ fetch.i # Len(Order) /\ fetch'.pc = "conds" /\ fetch'.i = fetch.i + 1
      BY <1>2, <2>3, FetchChanges DEF Early
    <3>2. market[Order[fetch.i]] # None
      BY <1>1, <3>1, Constants DEF Markets, Cur, Old, Dummy, None
    <3>3. \A j \in 1..Len(Order) : j <= fetch.i => fetch'.cond[Order[j]] # None
      BY <1>1, <2>3, <3>1, <3>2, Constants DEF CondInv, FetchRecord
    <3>4. CASE fetch'.pc = "left"
      <4>1. \A j \in 1..Len(Order) : fetch'.cond[Order[j]] # None
        BY <3>1, <3>3, <3>4, Constants
      <4> QED BY <3>4, <4>1, Constants DEF CondInv, Early
    <3>5. CASE fetch'.pc = "conds"
      BY <3>1, <3>3, <3>5, Constants DEF CondInv, Early
    <3> QED BY <3>1, <3>4, <3>5
  <2> QED BY <1>2, <2>1, <2>2, <2>3, FetchChanges DEF CondInv, Early
<1>3. CASE ~FetchStep
  <2>1. CASE fetch' = IdleFetch
    BY <2>1 DEF CondInv, IdleFetch, NoneEach, Early
  <2>2. CASE Tick
    <3>1. /\ fetch'.pc = fetch.pc /\ fetch'.i = fetch.i
          /\ \A a \in Assets : fetch'.cond[a] = Aged(fetch.cond[a])
      BY <2>2, Ages DEF Tick, MonitorInv, MonitorTypeOK, FetchRecord
    <3>2. \A a \in Assets : fetch'.cond[a] = None <=> fetch.cond[a] = None
      BY <3>1 DEF Aged, Cur, Old, None
    <3> QED BY <3>1, <3>2, Constants DEF CondInv
  <2>3. CASE fetch' = fetch
    BY <2>3 DEF CondInv
  <2> QED BY <1>3, <2>1, <2>2, <2>3, OtherChanges
<1> QED BY <1>2, <1>3

LEMMA SlugStep == ASSUME MonitorInv, UpdateInv, CondInv, SlugInv, MonitorNext PROVE SlugInv'
<1>1. fetch \in FetchRecord /\ market \in [Assets -> Markets] /\ BTC \in Assets
  BY Constants DEF MonitorInv, MonitorTypeOK
<1>2. CASE FetchStep
  <2>1. market' = market
    BY <1>2 DEF FetchStep, FetchBegins, ReadId, WriteTokens, MarkRefreshed, ReadSlugs, ReadCondition,
                ReadClock, ReadPrices
  <2>2. CASE fetch.pc = "slugs" /\ fetch'.pc = "conds"
    <3>1. fetch'.slug = market /\ \A a \in Assets : fetch'.cond[a] = None
      BY <1>2, <2>2, FetchChanges DEF CondInv, Early
    <3> QED BY <2>1, <3>1 DEF SlugInv
  <2>3. CASE fetch.pc = "conds"
    <3>1. /\ fetch.i \in 1..Len(Order) /\ fetch'.slug = fetch.slug
          /\ fetch'.cond = [fetch.cond EXCEPT ![Order[fetch.i]] = market[Order[fetch.i]]]
      BY <1>2, <2>3, FetchChanges DEF Early
    <3>2. \A a \in Assets : fetch'.cond[a] \in {fetch.cond[a], market[a]}
      BY <1>1, <3>1 DEF FetchRecord
    <3> QED BY <2>1, <2>3, <3>1, <3>2 DEF SlugInv
  <2> QED BY <1>2, <2>2, <2>3, FetchChanges DEF SlugInv, Early
<1>3. CASE Tick
  <2>1. fetch'.slug[BTC] = Aged(fetch.slug[BTC])
    BY <1>1, <1>3, Ages DEF Tick, FetchRecord
  <2> QED BY <2>1 DEF SlugInv, Aged, Cur, Old
<1>4. CASE fetch' = fetch /\ market' = market
  BY <1>4 DEF SlugInv
<1>5. CASE fetch' = IdleFetch
  BY <1>5 DEF SlugInv, IdleFetch
<1>6. CASE ReplaceMarket
  <2> SUFFICES ASSUME fetch.pc \in {"conds", "left"}, fetch.slug[BTC] = Cur
               PROVE  /\ market'[BTC] = Cur
                      /\ \A a \in Assets : fetch.slug[a] = Cur => market'[a] \in {Cur, Dummy}
    BY <1>6 DEF SlugInv, ReplaceMarket
  <2> DEFINE b == Order[update.i]
  <2>1. /\ update.i \in 1..Len(Order) /\ b \in Assets
        /\ market' = [market EXCEPT ![b] = update.found[b]]
    BY <1>6, Constants DEF ReplaceMarket
  <2>2. market[BTC] = Cur /\ ~BtcPending
    BY DEF SlugInv, UpdateInv, Cur, Old
  <2>3. b # BTC
    BY <2>1, <2>2, Constants DEF BtcPending
  <2>4. update.found[b] \in Markets /\ update.found[b] # Old
    BY <2>1, <2>2, Constants DEF UpdateInv, MonitorInv, FoundInv
  <2> HIDE DEF b
  <2> QED BY <1>1, <2>1, <2>2, <2>3, <2>4 DEF SlugInv, Markets
<1> QED BY <1>2, <1>3, <1>4, <1>5, <1>6
        DEF MonitorNext, BecomesDue, ResetTokens, UpdateEnds, FetchEnds, monitorVars

LEMMA SnapshotStep ==
    ASSUME MonitorInv, ReadInv, MonitorNext
    PROVE  LeftInv' /\ SnapshotOfOnePeriod'
<1> USE DEF ReadInv, TimeLeft
<1>1. fetch \in FetchRecord /\ BTC \in Assets
  BY Constants DEF MonitorInv, MonitorTypeOK
<1>2. CASE FetchStep
  <2>1. CASE fetch.pc = "left"
    <3>1. /\ fetch'.pc = "prices" /\ fetch'.slug = fetch.slug /\ fetch'.cond = fetch.cond
          /\ fetch'.left = {a \in Assets : fetch.slug[a] = Cur}
      BY <1>2, <2>1, FetchChanges DEF Early
    <3> QED BY <2>1, <3>1 DEF LeftInv, SnapshotOfOnePeriod, SlugInv, CondInv
  <2>2. CASE fetch.pc = "prices"
    BY <1>2, <2>2, FetchChanges DEF Early, LeftInv, SnapshotOfOnePeriod
  <2> QED BY <1>2, <2>1, <2>2, FetchChanges DEF Early, LeftInv, SnapshotOfOnePeriod
<1>3. CASE ~FetchStep
  <2>1. CASE fetch' = IdleFetch
    BY <2>1 DEF LeftInv, SnapshotOfOnePeriod, IdleFetch
  <2>2. CASE /\ fetch'.pc = fetch.pc /\ fetch'.left = fetch.left
             /\ \A a \in Assets : /\ fetch'.cond[a] = Aged(fetch.cond[a])
                                  /\ fetch'.slug[a] = Aged(fetch.slug[a])
    BY <1>1, <2>2 DEF LeftInv, SnapshotOfOnePeriod, Aged, Cur, Dummy, FetchRecord
  <2>3. CASE fetch' = fetch
    BY <2>3 DEF LeftInv, SnapshotOfOnePeriod
  <2> QED BY <1>3, <2>1, <2>2, <2>3, OtherChanges
<1> QED BY <1>2, <1>3

LEMMA ReadInits == Init => ReadInv
<1> SUFFICES ASSUME Init PROVE ReadInv
  OBVIOUS
<1>1. fetch = IdleFetch /\ update = IdleUpdate
  BY DEF Init, MonitorInit
<1>2. fetch.pc = "idle" /\ fetch.left = {} /\ fetch.cond = NoneEach /\ update.i = 0
  BY <1>1 DEF IdleFetch, IdleUpdate
<1>3. UpdateInv
  BY <1>2 DEF UpdateInv, BtcPending
<1>4. CondInv /\ SlugInv /\ LeftInv /\ SnapshotOfOnePeriod
  BY <1>2 DEF CondInv, SlugInv, LeftInv, SnapshotOfOnePeriod, NoneEach
<1> QED BY <1>3, <1>4 DEF ReadInv

\* A snapshot with time left is of one period, although fetch_market_data
\* copies slugs, condition ids and clock under different locks while
\* update_markets replaces one market after another.
THEOREM OnePeriod == Spec => []SnapshotOfOnePeriod
<1>1. Init => MonitorInv /\ ReadInv
  BY MonitorInits, ReadInits
<1>2. MonitorInv /\ ReadInv /\ [Next]_vars => (MonitorInv /\ ReadInv)'
  BY MonitorSteps, MonitorTyped, UpdateStep, CondStep, SlugStep, SnapshotStep DEF ReadInv
<1>3. ReadInv => SnapshotOfOnePeriod
  BY DEF ReadInv
<1> QED BY <1>1, <1>2, <1>3, PTL DEF Spec

-----------------------------------------------------------------------------
(* Token ids of an earlier market.                                         *)

\* A refresh that still holds the id of an earlier market overlaps the update
\* that replaced it, and the ids of an update under way are about to be reset.
OldIds ==
    \A a \in Assets : market[a] = Cur =>
        /\ fetch.id[a] = Old => a \in overlap
        /\ token[a] = Old => a \in overlap \/ update.i \in 1..Len(Order)+1

\* What the steps of the fetch do to the ids and the tokens.
LEMMA IdChanges ==
    ASSUME MonitorInv, FetchStep
    PROVE  /\ market' = market /\ overlap' = overlap /\ update' = update
           /\ \A a \in Assets : /\ fetch'.id[a] \in {fetch.id[a], market[a], None}
                                /\ token'[a] \in {token[a], fetch.id[a]}
<1>1. fetch \in FetchRecord /\ token \in [Assets -> {Cur, Old, None}]
  BY DEF MonitorInv, MonitorTypeOK
<1>2. market' = market /\ overlap' = overlap /\ update' = update
  BY DEF FetchStep, FetchBegins, ReadId, WriteTokens, MarkRefreshed, ReadSlugs, ReadCondition,
         ReadClock, ReadPrices
<1>3. CASE FetchBegins \/ MarkRefreshed \/ ReadSlugs \/ ReadCondition \/ ReadClock
  <2> DEFINE p == IF ShouldRefresh THEN "ids" ELSE "slugs"
             e == [fetch.cond EXCEPT ![Order[fetch.i]] = market[Order[fetch.i]]]
             q == IF fetch.i = Len(Order) THEN "left" ELSE "conds"
             n == IF fetch.i = Len(Order) THEN 1 ELSE fetch.i + 1
             left == {a \in Assets : fetch.slug[a] = Cur}
  <2> HIDE DEF p, e, q, n, left
  <2>1. \/ fetch' = [fetch EXCEPT !.pc = p, !.i = 1]
        \/ fetch' = [fetch EXCEPT !.pc = "slugs", !.id = NoneEach]
        \/ fetch' = [fetch EXCEPT !.pc = "conds", !.slug = market]
        \/ fetch' = [fetch EXCEPT !.cond = e, !.pc = q, !.i = n]
        \/ fetch' = [fetch EXCEPT !.pc = "prices", !.at = clock', !.left = left]
    BY <1>3 DEF FetchBegins, MarkRefreshed, ReadSlugs, ReadCondition, ReadClock, p, e, q, n, left
  <2>2. fetch'.id = fetch.id \/ fetch'.id = NoneEach
    BY <1>1, <2>1 DEF FetchRecord
  <2>3. token' = token
    BY <1>3 DEF FetchBegins, MarkRefreshed, ReadSlugs, ReadCondition, ReadClock
  <2> QED BY <1>2, <2>2, <2>3 DEF NoneEach
<1>4. CASE ReadId
  BY <1>1, <1>2, <1>4 DEF ReadId, FetchRecord
<1>5. CASE WriteTokens
  <2>1. fetch'.id = fetch.id
    BY <1>1, <1>5 DEF WriteTokens, FetchRecord
  <2>2. \A a \in Assets : token'[a] \in {token[a], fetch.id[a]}
    BY <1>1, <1>5 DEF WriteTokens
  <2> QED BY <1>2, <2>1, <2>2
<1>6. CASE ReadPrices
  <2>1. PICK id : fetch' = IF fetch.i = Len(Order) THEN Snapshot([fetch EXCEPT !.token[Order[fetch.i]] = id])
                           ELSE [fetch EXCEPT !.token[Order[fetch.i]] = id, !.i = @ + 1]
    BY <1>6 DEF ReadPrices
  <2> DEFINE e == [fetch.token EXCEPT ![Order[fetch.i]] = id]
             g == [fetch EXCEPT !.token = e]
  <2> HIDE DEF e
  <2>2. fetch' = Snapshot(g) \/ fetch' = [g EXCEPT !.i = @ + 1]
    BY <1>1, <2>1 DEF e, FetchRecord
  <2>3. g.id = fetch.id /\ [g EXCEPT !.i = @ + 1].id = fetch.id
    BY <1>1 DEF FetchRecord
  <2>4. Snapshot(g).id = fetch.id \/ Snapshot(g).id = NoneEach
    <3> DEFINE h == [NoneEach EXCEPT ![BTC] = g.slug[BTC]]
    <3> HIDE DEF h
    <3>1. [g EXCEPT !.pc = "callback", !.i = 1, !.slug = h].id = fetch.id
      BY <1>1 DEF FetchRecord
    <3>2. [IdleFetch EXCEPT !.pc = "callback"].id = NoneEach
      BY DEF IdleFetch
    <3> QED BY <3>1, <3>2 DEF Snapshot, h
  <2>5. fetch'.id = fetch.id \/ fetch'.id = NoneEach
    BY <2>2, <2>3, <2>4
  <2> QED BY <1>2, <1>6, <2>5 DEF ReadPrices, NoneEach
<1> QED BY <1>3, <1>4, <1>5, <1>6 DEF FetchStep

LEMMA OldIdsStep == ASSUME MonitorInv, OldIds, MonitorNext PROVE OldIds'
<1>1. /\ fetch \in FetchRecord /\ market \in [Assets -> Markets]
      /\ update.i \in 0..Len(Order)+2 /\ Len(Order) \in Nat
  BY Constants DEF MonitorInv, MonitorTypeOK
<1>2. CASE FetchStep
  BY <1>2, IdChanges DEF OldIds, Cur, Old, None
<1>3. CASE Tick
  BY <1>3, Ages DEF Tick, OldIds, Aged, Cur, Old
<1>4. CASE /\ \E f \in Findings : StartUpdate(f)
           /\ UNCHANGED <<clock, market, token, refreshed, fetch, overlap>>
  BY <1>1, <1>4 DEF OldIds, StartUpdate
<1>5. CASE ReplaceMarket
  <2>1. /\ update.i \in 1..Len(Order) /\ update'.i = update.i + 1 /\ fetch' = fetch
        /\ market' = [market EXCEPT ![Order[update.i]] = update.found[Order[update.i]]]
        /\ overlap' = IF fetch.id[Order[update.i]] = None THEN overlap \ {Order[update.i]}
                      ELSE overlap \cup {Order[update.i]}
    BY <1>5 DEF ReplaceMarket
  <2>2. update'.i \in 1..Len(Order)+1
    BY <1>1, <2>1
  <2> QED BY <1>1, <2>1, <2>2 DEF OldIds, Old, None
<1>6. CASE ResetTokens
  BY <1>6 DEF ResetTokens, OldIds, NoneEach, Old, None
<1>7. CASE UpdateEnds
  BY <1>1, <1>7 DEF UpdateEnds, OldIds
<1>8. CASE FetchEnds /\ UNCHANGED <<clock, market, token, refreshed, update, overlap>>
  BY <1>8 DEF FetchEnds, IdleFetch, NoneEach, OldIds, Old, None
<1>9. CASE BecomesDue \/ UNCHANGED monitorVars
  BY <1>9 DEF BecomesDue, monitorVars, OldIds
<1> QED BY <1>2, <1>3, <1>4, <1>5, <1>6, <1>7, <1>8, <1>9 DEF MonitorNext

\* A market of the running period is left with token ids of the one before
\* only when a refresh of the cache overlapped its replacement.
THEOREM OldTokensOverlap == Spec => []OnlyOverlapLeavesOldTokens
<1>1. Init => MonitorInv /\ OldIds
  <2>1. Init => fetch = IdleFetch /\ token = NoneEach
    BY DEF Init, MonitorInit
  <2>2. Init => OldIds
    BY <2>1 DEF IdleFetch, NoneEach, OldIds, Old, None
  <2> QED BY <2>2, MonitorInits
<1>2. MonitorInv /\ OldIds /\ [Next]_vars => (MonitorInv /\ OldIds)'
  BY MonitorSteps, MonitorTyped, OldIdsStep
<1>3. OldIds => OnlyOverlapLeavesOldTokens
  BY DEF OldIds, OnlyOverlapLeavesOldTokens
<1> QED BY <1>1, <1>2, <1>3, PTL DEF Spec

-----------------------------------------------------------------------------
(* The callback: one pair per market and period.                           *)

\* The sides of an entry's market whose buy was answered Ok, and its cost.
PairOK(s, k) ==
    /\ s.st \in {"none", "waiting", "trailing", "first"} => k = {}
    /\ s.st \in {"bought", "second"} => k = {s.side}
    /\ s.st = "done" => k = Sides
    /\ s.st \in {"second", "done"} =>
          s.price + s.high < 100 \/ s.price + s.high >= 100 + StopLossBuffer

\* Only the market whose turn it is can be waiting for an answer.
BotInv ==
    /\ task \in {"check", "sleep", "update"} /\ (update.i > 0) = (task = "update")
    /\ state \in [Assets -> Entry] /\ known \in [Assets -> SUBSET Sides]
    /\ turn \in 1..Len(Traded)+1
    /\ \A a \in Assets : PairOK(state[a], known[a])
    /\ \A a \in Assets : state[a].st \in {"first", "second"} => At(a)

Stages == {"none", "waiting", "trailing", "first", "bought", "second", "done"}

LEMMA NoEntry ==
    NoState \in Entry /\ PairOK(NoState, {}) /\ NoState.st = "none"
BY Constants DEF NoState, Entry, PairOK, Sides

\* The entry of market a becomes s, and the sides known to be bought k.
Turns(a, s, k) ==
    /\ s \in Entry /\ k \in SUBSET Sides /\ PairOK(s, k)
    /\ state' = [state EXCEPT ![a] = s] /\ known' = [known EXCEPT ![a] = k]
    /\ \/ turn' = turn + 1 /\ s.st \notin {"first", "second"}
       \/ turn' = turn
    /\ At(a) /\ UNCHANGED <<monitorVars, task>>

\* An entry that ends a turn and leaves the sides known to be bought.
LEMMA Ended ==
    ASSUME BotInv, NEW a \in Assets, At(a), NEW s \in Entry, PairOK(s, known[a]),
           s.st \notin {"first", "second"}, Ends(a, s)
    PROVE  Turns(a, s, known[a])
BY DEF Ends, Turns, BotInv

LEMMA AnswerTurns ==
    ASSUME MonitorInv, BotInv, NEW a \in Assets, Skip(a) \/ BuyOk(a) \/ BuyFails(a)
    PROVE  \E s, k : Turns(a, s, k)
<1> DEFINE s == state[a]
           k == known[a]
<1>1. s \in Entry /\ k \in SUBSET Sides /\ PairOK(s, k)
  BY DEF BotInv
<1>2. CASE Skip(a)
  BY <1>1, <1>2, Ended DEF Skip
<1> DEFINE bought == "bought"
           done == "done"
           trailing == "trailing"
           zero == 0
<1>5. /\ bought \in Stages /\ done \in Stages /\ trailing \in Stages
      /\ zero \in 0..99 /\ zero \in Elapsed
  BY Constants DEF Stages
<1>3. CASE BuyOk(a)
  <2> DEFINE r == OnOk(s)
             c == k \cup {BuyingSide(a)}
  <2>1. At(a) /\ s.st \in {"first", "second"}
    BY <1>3 DEF BuyOk, Buying
  <2>2. ASSUME s.st = "first"
       PROVE  r \in Entry /\ c \in SUBSET Sides /\ PairOK(r, c) /\ r.st \notin {"first", "second"}
    <3>1. r = [s EXCEPT !.st = bought, !.low = zero, !.high = zero]
      BY <2>2 DEF OnOk, FirstBought
    <3> HIDE DEF r, bought, zero
    <3>2. r \in Entry /\ r.st = bought /\ r.side = s.side
      BY <1>1, <1>5, <3>1 DEF Entry, Stages
    <3>3. c = {s.side}
      BY <1>1, <2>2 DEF PairOK, BuyingSide
    <3> QED BY <1>1, <3>2, <3>3 DEF PairOK, Entry, bought, Sides
  <2>3. ASSUME s.st = "second"
       PROVE  r \in Entry /\ c \in SUBSET Sides /\ PairOK(r, c) /\ r.st \notin {"first", "second"}
    <3>1. r = [s EXCEPT !.st = done, !.opp = zero, !.at = zero]
      BY <2>3 DEF OnOk
    <3> HIDE DEF r, done, zero
    <3>2. r \in Entry /\ r.st = done /\ r.price = s.price /\ r.high = s.high
      BY <1>1, <1>5, <3>1 DEF Entry, Stages
    <3>3. c = Sides
      BY <1>1, <2>3 DEF PairOK, BuyingSide, Other, Sides, Entry
    <3> QED BY <1>1, <2>3, <3>2, <3>3 DEF PairOK, done
  <2>4. r \in Entry /\ c \in SUBSET Sides /\ PairOK(r, c) /\ r.st \notin {"first", "second"}
    BY <2>1, <2>2, <2>3
  <2>5. state' = [state EXCEPT ![a] = r] /\ known' = [known EXCEPT ![a] = c] /\ turn' = turn + 1
    BY <1>3 DEF BuyOk
  <2>6. UNCHANGED <<monitorVars, task>>
    BY <1>3 DEF BuyOk
  <2> HIDE DEF r, c
  <2> QED BY <2>1, <2>4, <2>5, <2>6 DEF Turns
<1>4. CASE BuyFails(a)
  <2> DEFINE r == OnErr(s)
  <2>1. At(a) /\ s.st \in {"first", "second"} /\ Ends(a, r)
    BY <1>4 DEF BuyFails, Buying
  <2>2. ASSUME s.st = "first"
       PROVE  r \in Entry /\ PairOK(r, k) /\ r.st \notin {"first", "second"}
    <3>1. r = [s EXCEPT !.st = trailing, !.price = zero, !.opp = zero, !.at = zero]
      BY <2>2 DEF OnErr
    <3> HIDE DEF r, trailing, zero
    <3>2. r \in Entry /\ r.st = trailing
      BY <1>1, <1>5, <3>1 DEF Entry, Stages
    <3> QED BY <1>1, <2>2, <3>2 DEF PairOK, trailing
  <2>3. ASSUME s.st = "second"
       PROVE  r \in Entry /\ PairOK(r, k) /\ r.st \notin {"first", "second"}
    <3>1. r = [s EXCEPT !.st = bought, !.low = zero, !.high = zero]
      BY <2>3 DEF OnErr, FirstBought
    <3> HIDE DEF r, bought, zero
    <3>2. r \in Entry /\ r.st = bought /\ r.side = s.side
      BY <1>1, <1>5, <3>1 DEF Entry, Stages
    <3> QED BY <1>1, <2>3, <3>2 DEF PairOK, bought
  <2>4. r \in Entry /\ PairOK(r, k) /\ r.st \notin {"first", "second"}
    BY <2>1, <2>2, <2>3
  <2> HIDE DEF r
  <2> QED BY <2>1, <2>4, Ended
<1> QED BY <1>2, <1>3, <1>4

LEMMA PriceTurns ==
    ASSUME MonitorInv, BotInv, NEW a \in Assets, NEW q \in Asks,
           \/ SeesHalf(a, q) \/ StartsTrailing(a, q) \/ TrailingReset(a, q)
           \/ TrailingGoesOn(a, q) \/ FirstBuy(a, q) \/ SecondWaits(a, q) \/ SecondBuy(a, q)
    PROVE  \E s, k : Turns(a, s, k)
<1> DEFINE s == state[a]
           k == known[a]
<1>1. s \in Entry /\ k \in SUBSET Sides /\ PairOK(s, k)
  BY DEF BotInv
<1>2. q["up"] \in 1..99 /\ q["down"] \in 1..99 /\ Stop \in 1..99
  BY TrailingAssumption DEF Sides
<1>3. \A x \in Sides : q[x] \in 1..99 /\ Other(x) \in Sides
  BY <1>2 DEF Sides, Other
<1>4. s.side \in Sides /\ q[s.side] \in 1..99 /\ q[Other(s.side)] \in 1..99
  BY <1>1, <1>3 DEF Entry
<1>5. fetch.at \in Elapsed /\ 0 \in Elapsed
  BY Constants DEF MonitorInv, MonitorTypeOK, FetchRecord
<1>6. CASE SeesHalf(a, q)
  <2> DEFINE w == [NoState EXCEPT !.st = "waiting"]
  <2>1. w \in Entry /\ w.st = "waiting"
    BY NoEntry DEF Entry
  <2> HIDE DEF w
  <2>2. At(a) /\ s.st = "none" /\ (Ends(a, w) \/ Ends(a, NoState))
    BY <1>6 DEF SeesHalf, w
  <2>3. PairOK(w, k) /\ PairOK(NoState, k)
    BY <1>1, <2>1, <2>2, NoEntry DEF PairOK
  <2> QED BY <2>1, <2>2, <2>3, NoEntry, Ended
<1>7. CASE StartsTrailing(a, q)
  <2> DEFINE side == IF q["up"] < EntryMax /\ (q["down"] >= EntryMax \/ q["up"] <= q["down"])
                     THEN "up" ELSE "down"
             low == q[side]
             x == "trailing"
             w == [NoState EXCEPT !.st = x, !.side = side, !.low = low, !.high = low]
  <2>1. side \in Sides /\ x \in Stages /\ low \in 0..99
    BY <1>3 DEF Sides, Stages
  <2> HIDE DEF side, x, low
  <2>2. w \in Entry /\ w.st = x
    BY <2>1, NoEntry DEF Entry, Stages
  <2> HIDE DEF w
  <2>3. At(a) /\ s.st = "waiting" /\ (Ends(a, w) \/ Ends(a, s))
    BY <1>7 DEF StartsTrailing, w, side, x, low
  <2>4. PairOK(w, k) /\ w.st = "trailing"
    BY <1>1, <2>2, <2>3 DEF PairOK, x
  <2> QED BY <1>1, <2>2, <2>3, <2>4, Ended
<1>8. CASE TrailingReset(a, q)
  <2>1. At(a) /\ s.st = "trailing" /\ Ends(a, NoState)
    BY <1>8 DEF TrailingReset
  <2>2. PairOK(NoState, k)
    BY <1>1, <2>1, NoEntry DEF PairOK
  <2> QED BY <2>1, <2>2, NoEntry, Ended
<1> DEFINE ask == q[s.side]
           t == Trailed(s, ask)
<1>9. t \in Entry /\ t.st = s.st /\ t.side = s.side
  <2>1. Lower(s.low, ask) \in 0..99 /\ Upper(s.high, ask) \in 0..99
    BY <1>1, <1>4 DEF Lower, Upper, Entry
  <2>2. t = [s EXCEPT !.low = Lower(s.low, ask), !.high = Upper(s.high, ask)]
    BY <1>1 DEF Trailed, Entry
  <2> HIDE DEF t
  <2> QED BY <1>1, <2>1, <2>2 DEF Entry
<1> HIDE DEF t
<1>10. CASE TrailingGoesOn(a, q)
  <2> DEFINE w == [t EXCEPT !.low = ask]
  <2>1. w \in Entry /\ w.st = t.st
    BY <1>4, <1>9 DEF Entry
  <2> HIDE DEF w
  <2>2. At(a) /\ s.st = "trailing" /\ (Ends(a, t) \/ Ends(a, w))
    BY <1>10 DEF TrailingGoesOn, t, w
  <2>3. PairOK(t, k) /\ PairOK(w, k)
    BY <1>1, <1>9, <2>1, <2>2 DEF PairOK
  <2> QED BY <1>9, <2>1, <2>2, <2>3, Ended
<1>11. CASE FirstBuy(a, q)
  <2> DEFINE x == "first"
             opp == q[Other(s.side)]
             at == fetch.at
             w == [t EXCEPT !.st = x, !.price = ask, !.opp = opp, !.at = at]
  <2>5. x \in Stages /\ ask \in 0..99 /\ opp \in 0..99 /\ at \in Elapsed
    BY <1>4, <1>5 DEF Stages
  <2> HIDE DEF x, ask, opp, at
  <2>1. w \in Entry /\ w.st = x
    BY <1>9, <2>5 DEF Entry, Stages
  <2> HIDE DEF w
  <2>2. At(a) /\ s.st = "trailing" /\ state' = [state EXCEPT ![a] = w]
        /\ UNCHANGED <<monitorVars, task, turn, known>>
    BY <1>11 DEF FirstBuy, t, w, x, ask, opp, at
  <2>3. PairOK(w, k)
    BY <1>1, <2>1, <2>2 DEF PairOK, x
  <2>4. known' = [known EXCEPT ![a] = k]
    BY <2>2 DEF BotInv
  <2> QED BY <1>1, <2>1, <2>2, <2>3, <2>4 DEF Turns
<1> DEFINE p == q[Other(s.side)]
           o == [s EXCEPT !.opp = Lower(@, p)]
<1>12. o \in Entry /\ o.st = s.st /\ o.side = s.side /\ o.price = s.price
  <2>1. Lower(s.opp, p) \in 0..99
    BY <1>1, <1>4 DEF Lower, Entry
  <2>2. o = [s EXCEPT !.opp = Lower(s.opp, p)]
    BY <1>1 DEF Entry
  <2> HIDE DEF o
  <2> QED BY <1>1, <2>1, <2>2 DEF Entry
<1> HIDE DEF o
<1>13. CASE SecondWaits(a, q)
  <2>1. At(a) /\ s.st = "bought" /\ Ends(a, o)
    BY <1>13 DEF SecondWaits, o
  <2>2. PairOK(o, k)
    BY <1>1, <1>12, <2>1 DEF PairOK
  <2> QED BY <1>12, <2>1, <2>2, Ended
<1>14. CASE SecondBuy(a, q)
  <2> DEFINE x == "second"
             w == [o EXCEPT !.st = x, !.high = p]
  <2>7. x \in Stages /\ p \in 0..99
    BY <1>4 DEF Stages
  <2> HIDE DEF x, p
  <2>1. w \in Entry /\ w.st = x /\ w.side = s.side /\ w.price = o.price /\ w.high = p
    BY <1>12, <2>7 DEF Entry, Stages
  <2> HIDE DEF w
  <2>2. At(a) /\ s.st = "bought" /\ state' = [state EXCEPT ![a] = w]
        /\ UNCHANGED <<monitorVars, task, turn, known>>
    BY <1>14 DEF SecondBuy, o, w, x, p
  <2>3. StopLoss(o, p) \/ MeetsCeiling(o, fetch.at, p)
    BY <1>14 DEF SecondBuy, o, p
  <2>4. o.price + p < 100 \/ o.price + p >= 100 + StopLossBuffer
    <3>1. o.price \in 0..99 /\ p \in 0..99
      BY <1>12, <2>7 DEF Entry
    <3>2. CASE StopLoss(o, p)
      BY <3>1, <3>2 DEF StopLoss, StopLossBuffer
    <3>3. CASE MeetsCeiling(o, fetch.at, p)
      <4> DEFINE slack == IF fetch.at - o.at < 120 THEN 5 ELSE 0
      <4>1. slack \in {0, 5}
        OBVIOUS
      <4> HIDE DEF slack
      <4>2. p < 100 - o.price - slack
        BY <3>3 DEF MeetsCeiling, slack
      <4> QED BY <3>1, <4>1, <4>2 DEF StopLossBuffer
    <3> QED BY <2>3, <3>2, <3>3
  <2>5. PairOK(w, k)
    BY <1>1, <2>1, <2>2, <2>4 DEF PairOK, x
  <2>6. known' = [known EXCEPT ![a] = k]
    BY <2>2 DEF BotInv
  <2> QED BY <1>1, <2>1, <2>2, <2>5, <2>6 DEF Turns
<1> QED BY <1>6, <1>7, <1>8, <1>10, <1>11, <1>13, <1>14

\* A step that leaves the entries alone, or drops them all, and ends no turn.
LEMMA Elsewhere ==
    ASSUME BotInv, UNCHANGED turn, task' \in {"check", "sleep", "update"},
           (update'.i > 0) = (task' = "update"), Drop \/ UNCHANGED <<state, known>>,
           \A a \in Assets : state'[a].st \in {"first", "second"} /\ At(a) => At(a)'
    PROVE  BotInv'
<1>1. CASE Drop
  <2>1. \A a \in Assets : state'[a] = NoState /\ known'[a] = {}
    BY <1>1 DEF Drop, NoneKnown
  <2>2. state' \in [Assets -> Entry] /\ known' \in [Assets -> SUBSET Sides]
    BY <1>1, NoEntry DEF Drop, NoneKnown
  <2> QED BY <2>1, <2>2, NoEntry DEF BotInv
<1>2. CASE UNCHANGED <<state, known>>
  BY <1>2 DEF BotInv
<1> QED BY <1>1, <1>2

LEMMA TurnStep ==
    ASSUME MonitorInv, BotInv, NEW a \in Assets, NEW s, NEW k, Turns(a, s, k)
    PROVE  BotInv'
<1>1. /\ s \in Entry /\ k \in SUBSET Sides /\ PairOK(s, k) /\ At(a)
      /\ state' = [state EXCEPT ![a] = s] /\ known' = [known EXCEPT ![a] = k]
      /\ UNCHANGED <<fetch, update, task>>
  BY DEF Turns, monitorVars
<1>2. state' \in [Assets -> Entry] /\ known' \in [Assets -> SUBSET Sides]
  BY <1>1 DEF BotInv
<1>3. \A b \in Assets : /\ b = a => state'[b] = s /\ known'[b] = k
                        /\ b # a => state'[b] = state[b] /\ known'[b] = known[b]
  BY <1>1 DEF BotInv
<1>4. turn \in 1..Len(Traded) /\ a = Traded[turn] /\ Len(Traded) \in Nat
  BY <1>1, Constants DEF At, BotInv
<1>5. turn' \in 1..Len(Traded)+1
  BY <1>4 DEF Turns
<1>6. \A b \in Assets : b # a => state[b].st \notin {"first", "second"}
  BY <1>1 DEF BotInv, At
<1>7. turn' = turn \/ s.st \notin {"first", "second"}
  BY DEF Turns
<1>8. ASSUME NEW b \in Assets, state'[b].st \in {"first", "second"} PROVE At(b)'
  <2>1. b = a /\ turn' = turn
    BY <1>3, <1>6, <1>7, <1>8
  <2> QED BY <1>1, <2>1 DEF At, TimeLeft
<1>9. \A b \in Assets : PairOK(state'[b], known'[b])
  BY <1>1, <1>3 DEF BotInv
<1> QED BY <1>1, <1>2, <1>5, <1>8, <1>9 DEF BotInv

LEMMA BotStep == ASSUME MonitorInv, BotInv, [Next]_vars PROVE BotInv'
<1>1. /\ update.i \in 0..Len(Order)+2 /\ Len(Order) \in Nat /\ fetch \in FetchRecord
      /\ (update.i > 0) = (task = "update") /\ task \in {"check", "sleep", "update"}
  BY Constants DEF MonitorInv, MonitorTypeOK, BotInv
<1>2. CASE NextPeriod
  <2>1. /\ fetch'.pc = fetch.pc /\ fetch'.left = fetch.left /\ update'.i = update.i
        /\ UNCHANGED turn /\ (Drop \/ UNCHANGED <<state, known>>)
        /\ task' = IF task = "sleep" THEN "check" ELSE task
    BY <1>1, <1>2 DEF NextPeriod, Tick, FetchRecord, MonitorInv, MonitorTypeOK
  <2>2. \A a \in Assets : At(a) => At(a)'
    BY <2>1 DEF At, TimeLeft
  <2>3. task' \in {"check", "sleep", "update"} /\ (task' = "update" <=> task = "update")
    BY <1>1, <2>1
  <2> QED BY <1>1, <2>1, <2>2, <2>3, Elsewhere
<1>3. CASE Ageing \/ UNCHANGED vars
  <2>1. UNCHANGED <<fetch, update, task, state, turn, known>>
    BY <1>3 DEF Ageing, BecomesDue, botVars, vars, monitorVars
  <2> QED BY <2>1 DEF BotInv, At, TimeLeft
<1>4. CASE Sleep \/ Discover
  <2>1. UNCHANGED <<fetch, state, turn, known>> /\ task' \in {"check", "sleep", "update"}
    BY <1>4 DEF Sleep, Discover, monitorVars
  <2>2. (update'.i > 0) = (task' = "update")
    <3>1. CASE Sleep
      BY <1>1, <3>1 DEF Sleep, monitorVars
    <3>2. CASE Discover
      <4>1. task' = "update" /\ update'.i = 1
        BY <3>2 DEF Discover, StartUpdate
      <4> QED BY <4>1
    <3> QED BY <1>4, <3>1, <3>2
  <2> QED BY <2>1, <2>2, Elsewhere DEF At, TimeLeft
<1>5. CASE Update
  <2>1. UNCHANGED <<fetch, state, turn, known>>
    BY <1>5 DEF Update, ReplaceMarket, ResetTokens, UpdateEnds, botVars
  <2>2. task' \in {"check", "sleep", "update"} /\ (update'.i > 0) = (task' = "update")
    <3>1. CASE ReplaceMarket /\ UNCHANGED botVars
      <4>1. task = "update" /\ task' = task /\ update'.i = update.i + 1
        BY <1>1, <3>1 DEF ReplaceMarket, botVars
      <4> QED BY <1>1, <4>1
    <3>2. CASE ResetTokens /\ UNCHANGED botVars
      <4>1. update'.i = update.i + 1
        BY <3>2 DEF ResetTokens, MonitorInv, MonitorTypeOK
      <4>2. task = "update" /\ task' = task
        BY <1>1, <3>2 DEF ResetTokens, botVars
      <4> QED BY <1>1, <4>1, <4>2
    <3>3. CASE UpdateEnds /\ task' = "check"
      <4>1. update'.i = 0
        BY <3>3 DEF UpdateEnds, IdleUpdate
      <4> QED BY <3>3, <4>1
    <3> QED BY <1>5, <3>1, <3>2, <3>3 DEF Update
  <2> QED BY <2>1, <2>2, Elsewhere DEF At, TimeLeft
<1>6. CASE Fetch
  <2>1. fetch.pc # "callback" /\ UNCHANGED <<update, task, state, turn, known>>
    BY <1>6 DEF Fetch, FetchStep, FetchBegins, ReadId, WriteTokens, MarkRefreshed, ReadSlugs,
                ReadCondition, ReadClock, ReadPrices, botVars
  <2> QED BY <1>1, <2>1, Elsewhere DEF At
<1>7. CASE Return
  <2>1. /\ turn' = 1 /\ UNCHANGED <<update, task>> /\ (Drop \/ UNCHANGED <<state, known>>)
        /\ (~TimeLeft \/ turn > Len(Traded))
    BY <1>7 DEF Return
  <2>5. turn \in 1..Len(Traded)+1 /\ Len(Traded) \in Nat
    BY Constants DEF BotInv
  <2>6. \A a \in Assets : ~At(a)
    BY <2>1, <2>5 DEF At
  <2>2. \A a \in Assets : state'[a].st \notin {"first", "second"}
    BY <2>1, <2>6, NoEntry DEF Drop, BotInv
  <2>3. state' \in [Assets -> Entry] /\ known' \in [Assets -> SUBSET Sides]
        /\ \A a \in Assets : PairOK(state'[a], known'[a])
    BY <2>1, NoEntry DEF Drop, NoneKnown, BotInv
  <2>4. turn' \in 1..Len(Traded)+1
    BY <2>1, Constants
  <2> QED BY <2>1, <2>2, <2>3, <2>4 DEF BotInv
<1>8. CASE Callback /\ ~Return
  <2>1. PICK a \in Assets :
            \/ Skip(a) \/ BuyOk(a) \/ BuyFails(a)
            \/ \E q \in Asks :
                  \/ SeesHalf(a, q) \/ StartsTrailing(a, q) \/ TrailingReset(a, q)
                  \/ TrailingGoesOn(a, q) \/ FirstBuy(a, q) \/ SecondWaits(a, q) \/ SecondBuy(a, q)
    BY <1>8 DEF Callback
  <2>2. \E s, k : Turns(a, s, k)
    BY <2>1, AnswerTurns, PriceTurns
  <2> QED BY <2>2, TurnStep
<1> QED BY <1>2, <1>3, <1>4, <1>5, <1>6, <1>7, <1>8 DEF Next, PeriodTask

LEMMA BotInits == Init => BotInv
<1> SUFFICES ASSUME Init PROVE BotInv
  OBVIOUS
<1>1. update.i = 0 /\ task = "check" /\ turn = 1 /\ state = [a \in Assets |-> NoState] /\ known = NoneKnown
  BY DEF Init, MonitorInit, IdleUpdate
<1>2. state \in [Assets -> Entry] /\ known \in [Assets -> SUBSET Sides]
  BY <1>1, NoEntry DEF NoneKnown
<1>3. \A a \in Assets : state[a] = NoState /\ known[a] = {}
  BY <1>1 DEF NoneKnown
<1>4. turn \in 1..Len(Traded)+1
  BY <1>1, Constants
<1>5. \A a \in Assets : PairOK(state[a], known[a]) /\ state[a].st \notin {"first", "second"}
  BY <1>3, NoEntry
<1>6. task \in {"check", "sleep", "update"} /\ (update.i > 0) = (task = "update")
  BY <1>1
<1> QED BY <1>2, <1>4, <1>5, <1>6 DEF BotInv

LEMMA BotInvariant == Spec => [](MonitorInv /\ BotInv)
<1>1. MonitorInv /\ BotInv /\ [Next]_vars => (MonitorInv /\ BotInv)'
  BY MonitorSteps, MonitorTyped, BotStep
<1> QED BY <1>1, MonitorInits, BotInits, PTL DEF Spec

\* Types of the monitor and the bot; a buy waits for its answer only in the
\* callback and only for the market whose turn it is.
THEOREM Typed == Spec => []TypeOK
<1>1. MonitorInv /\ BotInv => TypeOK
  BY DEF MonitorInv, BotInv, TypeOK
<1> QED BY <1>1, BotInvariant, PTL

\* Whatever fails and in whatever order the asks come, a market is bought at
\* most once on each side in a period, and a finished pair costs under a dollar
\* or was closed by the stop loss.
THEOREM PairOnce == Spec => []OnePair
<1>1. ASSUME BotInv, NEW a \in Assets
      PROVE  /\ state[a].st \in {"first", "second"} => BuyingSide(a) \notin known[a]
             /\ state[a].st = "done" =>
                   LET cost == state[a].price + state[a].high IN
                   known[a] = Sides /\ (cost < 100 \/ cost >= 100 + StopLossBuffer)
  <2>1. PairOK(state[a], known[a]) /\ state[a].side \in Sides
    BY <1>1 DEF BotInv, Entry
  <2> QED BY <2>1 DEF PairOK, BuyingSide, Other, Sides
<1>2. BotInv => OnePair
  BY <1>1 DEF OnePair
<1> QED BY <1>2, BotInvariant, PTL

-----------------------------------------------------------------------------
(* The period task: how far it is from its next discovery.                 *)

\* It sleeps only for a market that is running, or for the dummy.
SleepInv == task = "sleep" => market[BTC] \in {Cur, Dummy}

\* 0 while it updates, 1 when BTC's market has ended, then the sleep before it.
Awaited ==
    IF task = "update" THEN 0
    ELSE IF market[BTC] = Old THEN 1
    ELSE IF task = "sleep" THEN 2 ELSE 3

\* The steps that bring the discovery, or the end of an update, on.
BringsOn ==
    \/ Awaited \in {0, 1} /\ PeriodTask
    \/ Awaited \in {2, 3} /\ (NextPeriod \/ PeriodTask)

DiscoveryAdvances ==
    market[BTC] # Dummy =>
        IF task = "update"
        THEN \/ task' = "check"
             \/ task' = task /\ update'.i >= update.i /\ (BringsOn => update'.i > update.i)
        ELSE Awaited' <= Awaited /\ (BringsOn => Awaited' < Awaited)

StaysDummy ==
    market[BTC] = Dummy /\ task # "update" => market'[BTC] = Dummy /\ task' # "update"

\* What each step does to the task and to the market it goes by.
TaskSteps ==
    \/ UNCHANGED <<market, task, update>> /\ ~NextPeriod /\ ~PeriodTask
    \/ /\ NextPeriod /\ ~PeriodTask
       /\ market'[BTC] = Aged(market[BTC]) /\ update'.i = update.i
       /\ task' = IF task = "sleep" THEN "check" ELSE task
    \/ Sleep /\ UNCHANGED <<market, update>>
    \/ Discover /\ task = "check" /\ market[BTC] = Old /\ task' = "update"
    \/ /\ Update /\ task = "update"
       /\ task' = "check" \/ (task' = "update" /\ update'.i = update.i + 1)
       /\ task' = "check" => UNCHANGED market

LEMMA CallbackLeavesTask ==
    ASSUME MonitorInv, BotInv, Callback
    PROVE  UNCHANGED <<market, task, update>>
<1>1. CASE Return
  BY <1>1 DEF Return
<1>2. CASE ~Return
  <2>1. PICK a \in Assets :
            \/ Skip(a) \/ BuyOk(a) \/ BuyFails(a)
            \/ \E q \in Asks :
                  \/ SeesHalf(a, q) \/ StartsTrailing(a, q) \/ TrailingReset(a, q)
                  \/ TrailingGoesOn(a, q) \/ FirstBuy(a, q) \/ SecondWaits(a, q) \/ SecondBuy(a, q)
    BY <1>2 DEF Callback
  <2>2. PICK s, k : Turns(a, s, k)
    BY <2>1, AnswerTurns, PriceTurns
  <2> QED BY <2>2 DEF Turns, monitorVars
<1> QED BY <1>1, <1>2

LEMMA TaskStep ==
    ASSUME MonitorInv, BotInv, [Next]_vars
    PROVE  TaskSteps
<1>1. /\ update.i \in 0..Len(Order)+2 /\ Len(Order) \in Nat /\ BTC \in Assets
      /\ market \in [Assets -> Markets] /\ update \in [i : 0..Len(Order)+2, found : [Assets -> Periods]]
      /\ (update.i > 0) = (task = "update") /\ task \in {"check", "sleep", "update"}
  BY Constants DEF MonitorInv, MonitorTypeOK, BotInv
<1>2. CASE NextPeriod /\ ~PeriodTask
  <2>1. market'[BTC] = Aged(market[BTC])
    BY <1>1, <1>2, Ages DEF NextPeriod, Tick
  <2>2. update'.i = update.i /\ task' = IF task = "sleep" THEN "check" ELSE task
    BY <1>1, <1>2 DEF NextPeriod, Tick
  <2> QED BY <1>2, <2>1, <2>2 DEF TaskSteps
<1>3. CASE Sleep
  BY <1>3 DEF Sleep, monitorVars, TaskSteps
<1>4. CASE Discover
  BY <1>4 DEF Discover, BtcPeriod, Cur, Old, Dummy, TaskSteps
<1>5. CASE Update
  <2>1. CASE ReplaceMarket /\ UNCHANGED botVars
    BY <1>1, <1>5, <2>1 DEF ReplaceMarket, botVars, TaskSteps
  <2>2. CASE ResetTokens /\ UNCHANGED botVars
    BY <1>1, <1>5, <2>2 DEF ResetTokens, botVars, TaskSteps
  <2>3. CASE UpdateEnds /\ task' = "check"
    BY <1>1, <1>5, <2>3 DEF UpdateEnds, TaskSteps
  <2> QED BY <1>5, <2>1, <2>2, <2>3 DEF Update
<1>6. CASE ~NextPeriod /\ ~PeriodTask
  <2>1. ASSUME Fetch PROVE UNCHANGED <<market, task, update>>
    BY <2>1 DEF Fetch, FetchStep, FetchBegins, ReadId, WriteTokens, MarkRefreshed, ReadSlugs,
                ReadCondition, ReadClock, ReadPrices, botVars
  <2>2. ASSUME Ageing \/ UNCHANGED vars PROVE UNCHANGED <<market, task, update>>
    BY <2>2 DEF Ageing, BecomesDue, botVars, monitorVars, vars
  <2>3. UNCHANGED <<market, task, update>>
    BY <1>6, <2>1, <2>2, CallbackLeavesTask DEF Next
  <2> QED BY <1>6, <2>3 DEF TaskSteps
<1> QED BY <1>2, <1>3, <1>4, <1>5, <1>6 DEF PeriodTask

LEMMA SleepStep ==
    ASSUME MonitorInv, BotInv, SleepInv, [Next]_vars
    PROVE  SleepInv'
BY TaskStep DEF TaskSteps, SleepInv, Sleep, BtcPeriod, Cur, Old, Dummy, NextPeriod

LEMMA AdvanceStep ==
    ASSUME MonitorInv, BotInv, SleepInv, [Next]_vars
    PROVE  DiscoveryAdvances /\ StaysDummy
<1>1. /\ update.i \in Nat /\ market[BTC] \in {Cur, Old, Dummy}
      /\ task \in {"check", "sleep", "update"}
      /\ task = "sleep" => market[BTC] # Old
  BY Constants DEF MonitorInv, MonitorTypeOK, BotInv, Markets, SleepInv, Cur, Old, Dummy
<1>2. CASE UNCHANGED <<market, task, update>> /\ ~NextPeriod /\ ~PeriodTask
  BY <1>1, <1>2 DEF DiscoveryAdvances, StaysDummy, BringsOn, Awaited
<1>3. CASE /\ NextPeriod /\ ~PeriodTask
           /\ market'[BTC] = Aged(market[BTC]) /\ update'.i = update.i
           /\ task' = IF task = "sleep" THEN "check" ELSE task
  BY <1>1, <1>3 DEF DiscoveryAdvances, StaysDummy, BringsOn, Awaited, Aged, Cur, Old, Dummy
<1>4. CASE Sleep /\ UNCHANGED <<market, update>>
  <2>1. task = "check" /\ task' = "sleep" /\ market[BTC] # Old
    BY <1>4 DEF Sleep, BtcPeriod, Cur, Old, Dummy
  <2> QED BY <1>1, <1>4, <2>1 DEF DiscoveryAdvances, StaysDummy, Awaited
<1>5. CASE Discover /\ task = "check" /\ market[BTC] = Old /\ task' = "update"
  BY <1>5 DEF DiscoveryAdvances, StaysDummy, Awaited, Old, Dummy
<1>6. CASE task = "update" /\ (task' = "check" \/ (task' = "update" /\ update'.i = update.i + 1))
  BY <1>1, <1>6 DEF DiscoveryAdvances, StaysDummy
<1> QED BY <1>2, <1>3, <1>4, <1>5, <1>6, TaskStep DEF TaskSteps

LEMMA TaskInvariant == Spec => [](MonitorInv /\ BotInv /\ SleepInv)
<1>1. Init => SleepInv
  BY DEF Init, SleepInv
<1>2. MonitorInv /\ BotInv /\ SleepInv /\ [Next]_vars => SleepInv'
  BY SleepStep
<1> QED BY <1>1, <1>2, BotInvariant, PTL DEF Spec

\* The safety half of DiscoveryGoesOn.  While BTC's market is a real one, the
\* next discovery gets closer with every step of the clock or the task that
\* bears on it and nothing puts it off; an update, once begun, goes through
\* its writes one by one to its end, whatever the clock and the monitor do.
THEOREM DiscoveryComes == Spec => []SleepInv /\ [][DiscoveryAdvances]_vars
<1>1. MonitorInv /\ BotInv /\ SleepInv /\ [Next]_vars => DiscoveryAdvances
  BY AdvanceStep
<1> QED BY <1>1, TaskInvariant, PTL DEF Spec

\* The other half: a dummy's slug has no time in it, so a bot that was given
\* one for BTC takes it for a running market.  Nothing is discovered again.
THEOREM DummyForGood == Spec => [][StaysDummy]_vars
<1>1. MonitorInv /\ BotInv /\ SleepInv /\ [Next]_vars => StaysDummy
  BY AdvanceStep
<1> QED BY <1>1, TaskInvariant, PTL DEF Spec
=============================================================================
