----------------------------- MODULE Dashboard ------------------------------
(***************************************************************************)
(* How the dashboard follows the bot.  The poll loop of                    *)
(* main_copytrading.rs and the copy tasks of activity_stream.rs change the *)
(* BotState of WebState and then send () on a broadcast channel; the SSE   *)
(* handler turns what it receives into an "update" event; on each event    *)
(* the page fetches /api/state anew and shows what the answer holds.  New  *)
(* position rows are not announced.                                        *)
(*                                                                         *)
(* There is one page.  Its five-second timer is dropped as it is made      *)
(* (`let _ = Interval::new`), so events are all it goes by.  Stamp numbers *)
(* the announced changes, log entries and balances together, and a fetched *)
(* state is known by the stamp it was read at; of two answers on the way   *)
(* with the same stamp one is kept, the page would show the same.          *)
(***************************************************************************)
EXTENDS WebState, FiniteSets

CONSTANTS Capacity,      \* of the broadcast channel
          Sizes,         \* of a position
          MaxPolls, MaxCopies, MaxRefreshes, MaxFaults   \* bounds

ASSUME DashboardAssumption ==
    /\ Capacity \in Nat \ {0} /\ Sizes \subseteq Nat \ {0}
    /\ MaxPolls \in Nat /\ MaxCopies \in Nat /\ MaxRefreshes \in Nat /\ MaxFaults \in Nat

VARIABLES simulation,
          polls, pollPc, initialDone,
          todo,        \* positions the INIT branch has yet to log
          refreshes,   \* set_balances calls
          copies,      \* trades the copy tasks have logged
          untold,      \* of them, those whose task has yet to notify
          connected, unread,        \* the SSE stream; messages it has not received
          asking,      \* /api/state requests the server has yet to answer
          answers,     \* stamps of the answers on the way
          ui,          \* stamp of the state on the page
          best,        \* history: the latest stamp the page has shown
          missed,      \* history: changes up to this one may have been announced
                       \* while no stream was up, or their fetch have failed
          failed       \* streams dropped and fetches failed so far

poll == <<polls, pollPc, initialDone, todo, refreshes>>
tasks == <<copies, untold>>
fetches == <<asking, answers, ui, best>>
faults == <<missed, failed>>
vars == <<simulation, logs, pushed, rows, poll, tasks, connected, unread, fetches, faults>>

Stamp == pushed + refreshes

-----------------------------------------------------------------------------
\* The page asks for the state and opens the stream at the same time.
Init ==
    /\ WebInit /\ simulation \in BOOLEAN
    /\ polls = 0 /\ pollPc = "fetch" /\ initialDone = FALSE /\ todo = {} /\ refreshes = 0
    /\ copies = 0 /\ untold = 0
    /\ connected = FALSE /\ unread = 0
    /\ asking = 1 /\ answers = {} /\ ui = 0 /\ best = 0
    /\ missed = 0 /\ failed = 0

\* notify_tx.send: without a receiver it is an error, which is ignored.
Notify == unread' = IF connected THEN unread + 1 ELSE unread

\* get_positions of the user, any list; a page that is not a JSON list counts
\* as an empty one.
PollPositions ==
    /\ pollPc = "fetch" /\ polls < MaxPolls
    /\ polls' = polls + 1
    /\ \E fetched \in [Keys -> Sizes \cup {0}] :
          /\ SetPositions(fetched, polls')
          /\ todo' = IF initialDone THEN {} ELSE {k \in Keys : fetched[k] # 0}
    /\ initialDone' = TRUE
    /\ pollPc' = IF todo' = {} THEN "balances" ELSE "init"
    /\ UNCHANGED <<simulation, logs, pushed, refreshes, tasks, connected, unread, fetches, faults>>

PollFails ==
    /\ pollPc = "fetch" /\ pollPc' = "balances"
    /\ UNCHANGED <<simulation, logs, pushed, rows, polls, initialDone, todo, refreshes,
                   tasks, connected, unread, fetches, faults>>

LogPosition(k) ==
    /\ pollPc = "init" /\ k \in todo
    /\ PushTrade
    /\ todo' = todo \ {k} /\ pollPc' = "initNotify"
    /\ UNCHANGED <<simulation, rows, polls, initialDone, refreshes, tasks, connected, unread,
                   fetches, faults>>

NotifyPosition ==
    /\ pollPc = "initNotify" /\ Notify
    /\ pollPc' = IF todo = {} THEN "balances" ELSE "init"
    /\ UNCHANGED <<simulation, logs, pushed, rows, polls, initialDone, todo, refreshes, tasks,
                   connected, fetches, faults>>

\* Thirty seconds have passed since the last refresh.
RefreshBalances ==
    /\ pollPc = "balances" /\ ~simulation /\ refreshes < MaxRefreshes
    /\ refreshes' = refreshes + 1 /\ pollPc' = "balancesNotify"
    /\ UNCHANGED <<simulation, logs, pushed, rows, polls, initialDone, todo, tasks, connected,
                   unread, fetches, faults>>

NotifyBalances ==
    /\ pollPc = "balancesNotify" /\ Notify
    /\ pollPc' = "fetch"
    /\ UNCHANGED <<simulation, logs, pushed, rows, polls, initialDone, todo, refreshes, tasks,
                   connected, fetches, faults>>

\* Not due, or a simulation; the sleep that ends the round.
SkipBalances ==
    /\ pollPc = "balances" /\ pollPc' = "fetch"
    /\ UNCHANGED <<simulation, logs, pushed, rows, polls, initialDone, todo, refreshes, tasks,
                   connected, unread, fetches, faults>>

TaskLogs_Untold ==
    /\ copies < MaxCopies /\ copies' = copies + 1
    /\ PushTrade
    /\ UNCHANGED <<simulation, rows, poll, untold, connected, unread, fetches, faults>>

\* The end of a task: push_trade, and after it notify_tx.send.
TaskLogs ==
    /\ copies < MaxCopies /\ copies' = copies + 1
    /\ PushTrade /\ untold' = untold + 1
    /\ UNCHANGED <<simulation, rows, poll, connected, unread, fetches, faults>>

TaskNotifies ==
    /\ untold > 0 /\ untold' = untold - 1 /\ Notify
    /\ UNCHANGED <<simulation, logs, pushed, rows, poll, copies, connected, fetches, faults>>

\* subscribe() starts at the end of the channel; an EventSource reconnects by
\* itself, and the page does not ask again when it does.
Connect ==
    /\ ~connected /\ connected' = TRUE /\ unread' = 0
    /\ missed' = Stamp
    /\ UNCHANGED <<simulation, logs, pushed, rows, poll, tasks, fetches, failed>>

Drop ==
    /\ connected /\ failed < MaxFaults
    /\ connected' = FALSE /\ unread' = 0 /\ failed' = failed + 1
    /\ UNCHANGED <<simulation, logs, pushed, rows, poll, tasks, fetches, missed>>

Receive_Unguarded ==
    /\ connected
    /\ unread' = IF unread > Capacity THEN Capacity ELSE unread - 1
    /\ asking' = asking + 1
    /\ UNCHANGED <<simulation, logs, pushed, rows, poll, tasks, connected, answers, ui, best, faults>>

\* A receiver that is more than Capacity behind is Lagged: it goes on with the
\* oldest message kept, and the handler sends an event for the lag as well.
Receive ==
    /\ connected /\ unread > 0
    /\ unread' = IF unread > Capacity THEN Capacity ELSE unread - 1
    /\ asking' = asking + 1
    /\ UNCHANGED <<simulation, logs, pushed, rows, poll, tasks, connected, answers, ui, best, faults>>

\* get_state: a clone of the state under the read lock.
Answer ==
    /\ asking > 0 /\ asking' = asking - 1
    /\ answers' = answers \cup {Stamp}
    /\ UNCHANGED <<simulation, logs, pushed, rows, poll, tasks, connected, unread, ui, best, faults>>

\* The request or its answer is lost: the page ignores the error.
FetchFails ==
    /\ asking > 0 /\ asking' = asking - 1
    /\ failed < MaxFaults /\ failed' = failed + 1
    /\ missed' = Stamp
    /\ UNCHANGED <<simulation, logs, pushed, rows, poll, tasks, connected, unread,
                   answers, ui, best>>

\* set_state: in the order in which the answers arrive.
Show(s) ==
    /\ s \in answers /\ answers' = answers \ {s}
    /\ ui' = s /\ best' = IF s > best THEN s ELSE best
    /\ UNCHANGED <<simulation, logs, pushed, rows, poll, tasks, connected, unread, asking, faults>>

PollStep ==
    \/ PollPositions \/ PollFails \/ NotifyPosition
    \/ RefreshBalances \/ NotifyBalances \/ SkipBalances
    \/ \E k \in Keys : LogPosition(k)

PageStep == Receive \/ Answer \/ FetchFails \/ \E s \in answers : Show(s)

Next == PollStep \/ TaskLogs \/ TaskNotifies \/ Connect \/ Drop \/ PageStep

Spec == Init /\ [][Next]_vars

\* The runtime polls the loop, the tasks and the handler; requests are
\* answered or fail; an EventSource tries to reconnect for ever.
FairSpec ==
    /\ Spec
    /\ WF_vars(PollStep) /\ WF_vars(TaskNotifies) /\ WF_vars(Connect) /\ WF_vars(Receive)
    /\ WF_vars(Answer) /\ WF_vars(\E s \in answers : Show(s))

-----------------------------------------------------------------------------
PollPCs == {"fetch", "init", "initNotify", "balances", "balancesNotify"}

PollTypeOK ==
    /\ simulation \in BOOLEAN /\ initialDone \in BOOLEAN
    /\ polls \in Nat /\ refreshes \in Nat /\ pollPc \in PollPCs /\ todo \subseteq Keys
    /\ copies \in Nat /\ untold \in Nat

PageTypeOK ==
    /\ connected \in BOOLEAN /\ unread \in Nat /\ asking \in Nat /\ answers \subseteq Nat
    /\ ui \in Nat /\ best \in Nat /\ missed \in Nat /\ failed \in Nat

TypeOK == WebTypeOK /\ PollTypeOK /\ PageTypeOK

\* A position the page could show once is shown for ever after, as open or as
\* closed, however often it disappears and comes back.
NeverForgotten == [][\A k \in Keys : Shown(k) => Shown(k)']_vars

Quiet ==
    /\ pollPc \notin {"initNotify", "balancesNotify"} /\ untold = 0
    /\ connected /\ unread = 0 /\ asking = 0 /\ answers = {}

\* When everything has settled with the stream up, the page has shown the
\* latest announced change: an event that arrives while a fetch is on its way
\* is not lost to it, nor is one that the channel dropped.  What was announced
\* to no stream, or whose fetch failed, is excepted.
QuietMeansShown == Quiet => best >= Stamp \/ missed >= Stamp

\* What the bounds allow of announced changes: copies, refreshes, and an INIT
\* entry for each position of the first poll.
LastStamp == MaxCopies + MaxRefreshes + Cardinality(Keys)

\* After every announced change the page comes to show a state that was read at
\* or after it, with the same exceptions.  That state need not have the log entry
\* itself any more: when more than MAX_LOGS follow before it is read, the entry
\* has left the log and is never shown.
EveryChangeShown ==
    \A n \in 1..LastStamp :
        (Stamp >= n) ~> (best >= n \/ missed >= n)

\* "Detect positions that disappeared (closed/resolved) and mark them"
\* (web_state.rs, set_positions) and "When the position was closed"
\* (web_state.rs, closed_at): an open position that disappears is marked
\* closed with its last size, now.
CloseMarked ==
    [][\A k \in Keys : open[k] # 0 /\ open'[k] = 0 =>
           closed'[k] = open[k] /\ closedAt'[k] = polls']_vars
=============================================================================
