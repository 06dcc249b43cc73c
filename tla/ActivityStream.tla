--------------------------- MODULE ActivityStream ---------------------------
(***************************************************************************)
(* activity_stream.rs: the WebSocket loop that reconnects for ever, the    *)
(* set of trade ids it has seen on this connection, and the tasks it       *)
(* spawns, which copy a trade under a semaphore and a timeout and then     *)
(* report its fate to the web log.                                         *)
(*                                                                         *)
(* A payload of the feed is one fill of a leader: its id is transaction    *)
(* hash and timestamp, so fills of one transaction share it.  Messages     *)
(* that are no trades of a target, or do not parse, change nothing and are *)
(* left out.  Tasks outlive the connection that spawned them.  The order   *)
(* itself is the OneShotOrder that MarketOrder implements.                 *)
(***************************************************************************)
EXTENDS Naturals, FiniteSets

CONSTANTS Payloads,      \* fills of the targets: records with id and side
          Concurrency,   \* COPY_TRADE_CONCURRENCY, per connection
          MaxSeen,       \* MAX_SEEN ids remembered per connection
          RevertTrade,   \* copy leaders' sells too
          AgeFilter,     \* entry_trade_sec > 0: old fills are filtered
          MaxConns,      \* bound: connections in one behaviour
          MaxTasks       \* bound: tasks spawned in one behaviour

ASSUME StreamAssumption ==
    /\ Concurrency \in Nat \ {0} /\ MaxSeen \in Nat /\ MaxConns \in Nat /\ MaxTasks \in Nat
    /\ RevertTrade \in BOOLEAN /\ AgeFilter \in BOOLEAN
    /\ \A p \in Payloads : p.side \in {"BUY", "SELL"}

VARIABLES simulation,  \* --simulation
          up, conn,    \* connected; the number of the latest connection
          seen,        \* ids seen on it
          evicted,     \* connections on which ids were evicted from seen
          spawned,     \* tasks spawned so far: 1..spawned
          trade, from, \* the payload of a task, the connection it came by
          pc, status,  \* where a task is; what it will report, or has
          ordered,     \* the exchange executed the task's order
          free         \* free permits of each connection's semaphore

vars == <<simulation, up, conn, seen, evicted, spawned, trade, from, pc, status, ordered, free>>

stream == <<simulation, up, conn, seen, evicted, spawned, trade, from>>

Tasks == 1..MaxTasks
Conns == 1..MaxConns
Ids == {p.id : p \in Payloads}
PCs == {"unused", "queued", "running", "filled", "reporting", "logging", "done"}
NoTrade == [id |-> "none", side |-> "none"]
Statuses == {"none", "filtered", "skipped", "timeout", "ok", "failed"}

\* The tasks that hold a permit: from acquire_owned to the end of the task.
\* A filtered or simulated trade is reported without one.
Holding == {"running", "filled", "reporting"}
Holders(c) == {t \in Tasks : from[t] = c /\ pc[t] \in Holding}

-----------------------------------------------------------------------------
Init ==
    /\ simulation \in BOOLEAN
    /\ up = FALSE /\ conn = 0 /\ seen = {} /\ evicted = {} /\ spawned = 0
    /\ trade = [t \in Tasks |-> NoTrade] /\ from = [t \in Tasks |-> 0]
    /\ pc = [t \in Tasks |-> "unused"] /\ status = [t \in Tasks |-> "none"]
    /\ ordered = [t \in Tasks |-> FALSE]
    /\ free = [c \in Conns |-> Concurrency]

\* run_activity_stream_loop starts over: a new seen set, a new semaphore.
Connect ==
    /\ ~up /\ conn < MaxConns
    /\ up' = TRUE /\ conn' = conn + 1 /\ seen' = {}
    /\ UNCHANGED <<simulation, evicted, spawned, trade, from, pc, status, ordered, free>>

\* A read error or the end of the stream: five seconds later it reconnects.
Disconnect ==
    /\ up /\ up' = FALSE
    /\ UNCHANGED <<simulation, conn, seen, evicted, spawned, trade, from, pc, status, ordered, free>>

\* should_copy_trade; whether a fill is too old depends on the clock.
Verdicts(p) ==
    IF p.side = "SELL" /\ ~RevertTrade THEN {FALSE}
    ELSE IF AgeFilter THEN BOOLEAN ELSE {TRUE}

\* seen with id in it; when full, an arbitrary half survives (HashSet::drain).
Remember(id) ==
    IF Cardinality(seen) >= MaxSeen
    THEN /\ \E keep \in SUBSET seen :
               Cardinality(keep) = MaxSeen \div 2 /\ seen' = keep \cup {id}
         /\ evicted' = evicted \cup {conn}
    ELSE seen' = seen \cup {id} /\ UNCHANGED evicted

Fresh_Any(p) == up

Fresh(p) == up /\ p.id \notin seen

Deliver(p) ==
    LET t == spawned + 1 IN
    /\ Fresh(p) /\ spawned < MaxTasks
    /\ Remember(p.id)
    /\ spawned' = t
    /\ trade' = [trade EXCEPT ![t] = p] /\ from' = [from EXCEPT ![t] = conn]
    /\ \E copy \in Verdicts(p) :
          /\ pc' = [pc EXCEPT ![t] = IF copy /\ ~simulation THEN "queued" ELSE "logging"]
          /\ status' = [status EXCEPT ![t] = IF ~copy THEN "filtered"
                                             ELSE IF simulation THEN "skipped" ELSE "none"]
    /\ UNCHANGED <<simulation, up, conn, ordered, free>>

\* The tasks start in any order, so they reach the semaphore in any order.
Acquire(t) ==
    /\ pc[t] = "queued" /\ free[from[t]] > 0
    /\ free' = [free EXCEPT ![from[t]] = @ - 1]
    /\ pc' = [pc EXCEPT ![t] = "running"]
    /\ UNCHANGED <<stream, status, ordered>>

\* copy_trade returns Ok(None): a zero size or price, or below the minimum.
Skip(t) ==
    /\ pc[t] = "running" /\ ~ordered[t]
    /\ pc' = [pc EXCEPT ![t] = "reporting"] /\ status' = [status EXCEPT ![t] = "skipped"]
    /\ UNCHANGED <<stream, ordered, free>>

\* An executed BUY is recorded in entries before it is reported.
Succeed(t) ==
    /\ pc[t] = "running" /\ ~ordered[t]
    /\ ordered' = [ordered EXCEPT ![t] = TRUE]
    /\ status' = [status EXCEPT ![t] = "ok"]
    /\ pc' = [pc EXCEPT ![t] = IF trade[t].side = "BUY" THEN "filled" ELSE "reporting"]
    /\ UNCHANGED <<stream, free>>

Fail(t) ==
    /\ pc[t] = "running" /\ ~ordered[t]
    /\ \E lost \in BOOLEAN : ordered' = [ordered EXCEPT ![t] = lost]
    /\ status' = [status EXCEPT ![t] = "failed"] /\ pc' = [pc EXCEPT ![t] = "reporting"]
    /\ UNCHANGED <<stream, free>>

Timeout_CoversRecord(t) ==
    /\ pc[t] \in {"running", "filled"}
    /\ pc' = [pc EXCEPT ![t] = "reporting"] /\ status' = [status EXCEPT ![t] = "timeout"]
    /\ UNCHANGED <<stream, ordered, free>>

\* The timeout spans copy_trade only, and drops it before its order is posted.
Timeout(t) ==
    /\ pc[t] = "running" /\ ~ordered[t]
    /\ pc' = [pc EXCEPT ![t] = "reporting"] /\ status' = [status EXCEPT ![t] = "timeout"]
    /\ UNCHANGED <<stream, ordered, free>>

\* entries.lock().await; record_entry: see ExitLoop.
Record(t) ==
    /\ pc[t] = "filled"
    /\ pc' = [pc EXCEPT ![t] = "reporting"]
    /\ UNCHANGED <<stream, status, ordered, free>>

Report_KeepPermit(t) ==
    /\ pc[t] \in {"reporting", "logging"}
    /\ free' = IF pc[t] = "reporting" /\ status[t] # "timeout"
               THEN [free EXCEPT ![from[t]] = @ + 1] ELSE free
    /\ pc' = [pc EXCEPT ![t] = "done"]
    /\ UNCHANGED <<stream, status, ordered>>

Report_ReleasesAll(t) ==
    /\ pc[t] \in {"reporting", "logging"}
    /\ free' = [free EXCEPT ![from[t]] = @ + 1]
    /\ pc' = [pc EXCEPT ![t] = "done"]
    /\ UNCHANGED <<stream, status, ordered>>

\* push_trade and notify; the permit goes with the end of the task.
Report(t) ==
    /\ pc[t] \in {"reporting", "logging"}
    /\ free' = IF pc[t] = "reporting" THEN [free EXCEPT ![from[t]] = @ + 1] ELSE free
    /\ pc' = [pc EXCEPT ![t] = "done"]
    /\ UNCHANGED <<stream, status, ordered>>

TaskStep(t) == Acquire(t) \/ Skip(t) \/ Succeed(t) \/ Fail(t) \/ Timeout(t) \/ Record(t) \/ Report(t)

Next ==
    \/ Connect \/ Disconnect
    \/ \E p \in Payloads : Deliver(p)
    \/ \E t \in Tasks : TaskStep(t)

Spec == Init /\ [][Next]_vars

\* The runtime polls every task; the feed owes nothing.
FairSpec == Spec /\ \A t \in Tasks : WF_vars(TaskStep(t))

-----------------------------------------------------------------------------
StreamTypeOK ==
    /\ simulation \in BOOLEAN /\ up \in BOOLEAN
    /\ conn \in 0..MaxConns /\ spawned \in 0..MaxTasks
    /\ evicted \subseteq Conns /\ seen \subseteq Ids

TaskTypeOK ==
    /\ trade \in [Tasks -> Payloads \cup {NoTrade}] /\ from \in [Tasks -> 0..MaxConns]
    /\ pc \in [Tasks -> PCs] /\ status \in [Tasks -> Statuses]
    /\ ordered \in [Tasks -> BOOLEAN] /\ free \in [Conns -> 0..Concurrency]

TypeOK == StreamTypeOK /\ TaskTypeOK

\* On one connection a trade id is taken up once, however often the feed
\* repeats it, filtered or copied, as long as no eviction dropped it.
TakenUpOnce ==
    \A s, t \in 1..spawned :
        from[s] = from[t] /\ trade[s].id = trade[t].id /\ from[s] \notin evicted => s = t

\* No permit leaks or is invented, whichever way its task ends.
PermitsConserved ==
    \A c \in Conns : free[c] + Cardinality(Holders(c)) = Concurrency

\* Every trade taken up is reported in the end, with the feed up or down.
EveryTradeReported == \A t \in Tasks : (t <= spawned) ~> (pc[t] = "done")

\* "Limit in-flight copy executions so we don't overwhelm the CLOB API"
\* (activity_stream.rs, in the spawned task): the bot as a whole has at most
\* COPY_TRADE_CONCURRENCY copies executing at once.
InFlightLimited == Cardinality({t \in Tasks : pc[t] = "running"}) <= Concurrency

Life == INSTANCE TradeLifecycle WITH
    fate <- [t \in Tasks |-> IF pc[t] = "unused" THEN "none"
                             ELSE IF pc[t] = "done" THEN status[t] ELSE "pending"]

\* What the web log says of a trade is what happened to its order.
ImplementsLifecycle == Life!Spec
=============================================================================
