-------------------------- MODULE DashboardProofs ---------------------------
(* What is proved of Dashboard, for every number of positions, polls,      *)
(* trades, faults and every capacity of the log and of the channel.        *)
EXTENDS Dashboard, TLAPS

\* What set_positions does to the rows: they stay rows, and no key that had
\* one loses it.
LEMMA SetPositionsRows ==
    ASSUME open \in [Keys -> Nat], delta \in [Keys -> Int],
           closed \in [Keys -> Nat], closedAt \in [Keys -> Nat],
           NEW fetched \in [Keys -> Sizes \cup {0}], NEW now \in Nat,
           SetPositions(fetched, now)
    PROVE  /\ open' \in [Keys -> Nat] /\ delta' \in [Keys -> Int]
           /\ closed' \in [Keys -> Nat] /\ closedAt' \in [Keys -> Nat]
           /\ \A k \in Keys : Shown(k) => Shown(k)'
<1>1. fetched \in [Keys -> Nat]
  <2>1. Sizes \cup {0} \subseteq Nat
    BY DashboardAssumption
  <2>2. \A k \in Keys : fetched[k] \in Nat
    BY <2>1
  <2> QED BY <2>2
<1>2. \A k \in Keys : PrevSize(k) \in Nat
  BY DEF PrevSize
<1>3. open' \in [Keys -> Nat] /\ delta' \in [Keys -> Int]
  BY <1>1, <1>2 DEF SetPositions
<1>4. closed' \in [Keys -> Nat] /\ closedAt' \in [Keys -> Nat]
  BY <1>1 DEF SetPositions
<1>5. ASSUME NEW k \in Keys, Shown(k) PROVE Shown(k)'
  <2>1. open'[k] = fetched[k]
    BY DEF SetPositions
  <2>2. closed'[k] = IF PrevOpen(k) /\ fetched[k] = 0 THEN open[k] ELSE closed[k]
    BY DEF SetPositions
  <2> QED BY <1>5, <2>1, <2>2 DEF Shown, PrevOpen
<1> QED BY <1>3, <1>4, <1>5

\* push_trade keeps the window: one entry more, the oldest gone when full.
LEMMA PushTradeWindow ==
    ASSUME logs \in Seq(Nat), pushed \in Nat, LogWindow, PushTrade
    PROVE  logs' \in Seq(Nat) /\ pushed' = pushed + 1 /\ LogWindow'
<1> DEFINE longer == Append(logs, pushed + 1)
<1>1. pushed' = pushed + 1 /\ pushed' \in Nat
  BY DEF PushTrade
<1>2. /\ longer \in Seq(Nat) /\ Len(longer) = Len(logs) + 1 /\ Len(logs) \in Nat
      /\ \A i \in 1..Len(longer) :
             longer[i] = IF i = Len(longer) THEN pushed + 1 ELSE logs[i]
  OBVIOUS
<1>3. CASE Len(longer) > MaxLogs
  <2>1. logs' = Tail(longer)
    BY <1>3, <1>1 DEF PushTrade
  <2>2. /\ logs' \in Seq(Nat) /\ Len(logs') = Len(logs)
        /\ \A i \in 1..Len(logs') : logs'[i] = longer[i + 1]
    BY <1>2, <2>1
  <2>3. Len(logs) = MaxLogs
    BY <1>2, <1>3, WebAssumption DEF LogWindow
  <2>4. \A i \in 1..Len(logs') : logs'[i] = pushed' - Len(logs') + i
    <3> SUFFICES ASSUME NEW i \in 1..Len(logs')
                 PROVE  logs'[i] = pushed' - Len(logs') + i
      OBVIOUS
    <3>1. i + 1 \in 1..Len(longer)
      BY <1>2, <2>2
    <3>2. CASE i = Len(logs)
      BY <3>1, <3>2, <1>1, <1>2, <2>2
    <3>3. CASE i # Len(logs)
      <4>1. i + 1 \in 1..Len(logs) /\ logs'[i] = logs[i + 1]
        BY <3>1, <3>3, <1>2, <2>2
      <4>2. logs[i + 1] = pushed - Len(logs) + (i + 1)
        BY <4>1 DEF LogWindow
      <4> QED BY <4>1, <4>2, <1>1, <1>2, <2>2
    <3> QED BY <3>2, <3>3
  <2>5. Len(logs') = IF pushed' < MaxLogs THEN pushed' ELSE MaxLogs
    BY <1>1, <1>2, <2>2, <2>3, WebAssumption DEF LogWindow
  <2> QED BY <1>1, <2>2, <2>4, <2>5 DEF LogWindow
<1>4. CASE ~(Len(longer) > MaxLogs)
  <2>1. logs' = longer
    BY <1>4, <1>1 DEF PushTrade
  <2>2. Len(logs) = pushed /\ Len(logs) < MaxLogs
    BY <1>2, <1>4, WebAssumption DEF LogWindow
  <2>3. Len(logs') = IF pushed' < MaxLogs THEN pushed' ELSE MaxLogs
    BY <1>1, <1>2, <2>1, <2>2, WebAssumption
  <2>4. \A i \in 1..Len(logs') : logs'[i] = pushed' - Len(logs') + i
    BY <1>1, <1>2, <2>1, <2>2 DEF LogWindow
  <2> QED BY <1>1, <1>2, <2>1, <2>3, <2>4 DEF LogWindow
<1> QED BY <1>3, <1>4
LEMMA WebTyped == Init => WebTypeOK
BY DEF Init, WebInit, NoRows, WebTypeOK

TypedUp == TypeOK /\ LogWindow

\* The step in which a counter, a flag or the page moves and BotState does not.
LEMMA WebKept ==
    ASSUME WebTypeOK, LogWindow, UNCHANGED <<logs, pushed, rows>>
    PROVE  WebTypeOK' /\ LogWindow'
BY DEF WebTypeOK, LogWindow, rows

\* The steps that log an entry.
LEMMA WebPushed ==
    ASSUME WebTypeOK, LogWindow, PushTrade, UNCHANGED rows
    PROVE  WebTypeOK' /\ LogWindow' /\ pushed' = pushed + 1
<1>1. logs' \in Seq(Nat) /\ pushed' = pushed + 1 /\ LogWindow'
  BY PushTradeWindow DEF WebTypeOK
<1> QED BY <1>1 DEF WebTypeOK, rows

\* The step that stores the rows of a list.
LEMMA WebStored ==
    ASSUME WebTypeOK, LogWindow, polls \in Nat, PollPositions
    PROVE  WebTypeOK' /\ LogWindow' /\ \A k \in Keys : Shown(k) => Shown(k)'
<1>1. PICK fetched \in [Keys -> Sizes \cup {0}] : SetPositions(fetched, polls + 1)
  BY DEF PollPositions
<1>2. /\ open' \in [Keys -> Nat] /\ delta' \in [Keys -> Int]
      /\ closed' \in [Keys -> Nat] /\ closedAt' \in [Keys -> Nat]
      /\ \A k \in Keys : Shown(k) => Shown(k)'
  <2>1. /\ open \in [Keys -> Nat] /\ delta \in [Keys -> Int]
        /\ closed \in [Keys -> Nat] /\ closedAt \in [Keys -> Nat]
    BY DEF WebTypeOK
  <2>2. polls + 1 \in Nat
    OBVIOUS
  <2> QED BY <1>1, <2>1, <2>2, SetPositionsRows
<1>3. logs' = logs /\ pushed' = pushed
  BY DEF PollPositions
<1> QED BY <1>2, <1>3 DEF WebTypeOK, LogWindow

\* What the web state keeps is typed and its log a window, whatever step is
\* taken.
LEMMA WebStep ==
    ASSUME TypedUp, [Next]_vars
    PROVE  WebTypeOK' /\ LogWindow'
<1> USE DEF TypedUp, TypeOK
<1>1. CASE PollPositions
  BY <1>1, WebStored DEF PollTypeOK
<1>2. CASE TaskLogs
  BY <1>2, WebPushed DEF TaskLogs
<1>3. ASSUME NEW k \in Keys, LogPosition(k) PROVE WebTypeOK' /\ LogWindow'
  BY <1>3, WebPushed DEF LogPosition
<1>4. CASE UNCHANGED <<logs, pushed, rows>>
  BY <1>4, WebKept
<1> QED
  BY <1>1, <1>2, <1>3, <1>4
  DEF Next, PollStep, PageStep, PollFails, NotifyPosition, RefreshBalances, NotifyBalances,
      SkipBalances, TaskNotifies, Connect, Drop, Receive, Answer, FetchFails, Show, vars

LEMMA PollTypeStep ==
    ASSUME TypedUp, [Next]_vars
    PROVE  PollTypeOK'
<1> USE DEF TypedUp, TypeOK, PollTypeOK, PollPCs
<1>1. CASE PollPositions
  <2>1. todo' \subseteq Keys
    BY <1>1 DEF PollPositions
  <2>2. pollPc' \in PollPCs
    BY <1>1 DEF PollPositions
  <2> QED BY <1>1, <2>1, <2>2 DEF PollPositions, tasks
<1>2. CASE TaskLogs
  BY <1>2 DEF TaskLogs, poll
<1>3. ASSUME NEW k \in Keys, LogPosition(k) PROVE PollTypeOK'
  BY <1>3 DEF LogPosition, tasks
<1>4. CASE PollFails \/ NotifyPosition \/ RefreshBalances \/ NotifyBalances \/ SkipBalances
  BY <1>4
  DEF PollFails, NotifyPosition, RefreshBalances, NotifyBalances, SkipBalances, tasks
<1>5. CASE TaskNotifies
  BY <1>5 DEF TaskNotifies, poll
<1>6. CASE UNCHANGED <<simulation, poll, tasks>>
  BY <1>6 DEF poll, tasks
<1> QED
  BY <1>1, <1>2, <1>3, <1>4, <1>5, <1>6
  DEF Next, PollStep, PageStep, Connect, Drop, Receive, Answer, FetchFails, Show, vars

LEMMA PageTypeStep ==
    ASSUME TypedUp, [Next]_vars
    PROVE  PageTypeOK'
<1> USE DEF TypedUp, TypeOK, PageTypeOK
<1>0. Stamp \in Nat
  BY DEF WebTypeOK, PollTypeOK, Stamp
<1>1. CASE NotifyPosition \/ NotifyBalances \/ TaskNotifies
  <2>1. connected' = connected /\ UNCHANGED <<fetches, faults>> /\ Notify
    BY <1>1 DEF NotifyPosition, NotifyBalances, TaskNotifies
  <2>2. unread' \in Nat
    BY <2>1 DEF Notify
  <2> QED BY <2>1, <2>2 DEF fetches, faults
<1>2. CASE Connect \/ Drop
  <2>1. connected' \in BOOLEAN
    BY <1>2, Zenon DEF Connect, Drop
  <2>2. unread' = 0 /\ missed' \in Nat /\ failed' \in Nat /\ UNCHANGED fetches
    BY <1>0, <1>2 DEF Connect, Drop
  <2> QED BY <2>1, <2>2 DEF fetches
<1>3. CASE Receive
  BY <1>3, DashboardAssumption DEF Receive, faults
<1>4. CASE Answer \/ FetchFails
  <2>1. UNCHANGED <<connected, unread, ui, best>>
    BY <1>4 DEF Answer, FetchFails
  <2>2. asking' \in Nat /\ answers' \subseteq Nat
    <3>1. asking \in Nat /\ answers \subseteq Nat
      OBVIOUS
    <3>2. CASE Answer
      BY <1>0, <3>1, <3>2 DEF Answer
    <3>3. CASE FetchFails
      BY <3>1, <3>3 DEF FetchFails
    <3> QED BY <1>4, <3>2, <3>3
  <2>3. missed' \in Nat /\ failed' \in Nat
    BY <1>0, <1>4 DEF Answer, FetchFails, faults
  <2> QED BY <2>1, <2>2, <2>3
<1>5. ASSUME NEW s \in answers, Show(s) PROVE PageTypeOK'
  BY <1>5 DEF Show, faults
<1>6. CASE UNCHANGED <<connected, unread, fetches, faults>>
  BY <1>6 DEF fetches, faults
<1> QED
  BY <1>1, <1>2, <1>3, <1>4, <1>5, <1>6
  DEF Next, PollStep, PageStep, PollPositions, PollFails, LogPosition, RefreshBalances,
      SkipBalances, TaskLogs, vars

LEMMA InitTyped == Init => TypedUp
<1>1. Init => LogWindow
  BY WebAssumption DEF Init, WebInit, LogWindow
<1>2. Init => simulation \in BOOLEAN /\ initialDone \in BOOLEAN /\ connected \in BOOLEAN
  BY Zenon DEF Init
<1>3. Init => /\ polls \in Nat /\ refreshes \in Nat /\ pollPc \in PollPCs /\ todo \subseteq Keys
              /\ copies \in Nat /\ untold \in Nat
  BY DEF Init, PollPCs
<1>4. Init => /\ unread \in Nat /\ asking \in Nat /\ answers \subseteq Nat
              /\ ui \in Nat /\ best \in Nat /\ missed \in Nat /\ failed \in Nat
  BY DEF Init
<1> QED BY <1>1, <1>2, <1>3, <1>4, WebTyped DEF TypedUp, TypeOK, PollTypeOK, PageTypeOK

LEMMA TypedInvariant == Spec => []TypedUp
<1>1. TypedUp /\ [Next]_vars => TypedUp'
  BY WebStep, PollTypeStep, PageTypeStep DEF TypedUp, TypeOK
<1> QED BY InitTyped, <1>1, PTL DEF Spec

\* Type correctness of the web state, the poll loop and the page.
THEOREM DashboardTypeCorrect == Spec => []TypeOK
<1>1. TypedUp => TypeOK
  BY DEF TypedUp
<1> QED BY TypedInvariant, <1>1, PTL

\* The log of the dashboard is the window of the latest entries, for every
\* MAX_LOGS and every interleaving of the loop and the tasks.
THEOREM DashboardLogWindow == Spec => []LogWindow
<1>1. TypedUp => LogWindow
  BY DEF TypedUp
<1> QED BY TypedInvariant, <1>1, PTL

\* Positions are never forgotten, however often they close and reopen.
THEOREM DashboardNeverForgotten == Spec => NeverForgotten
<1>1. TypedUp /\ [Next]_vars => [\A k \in Keys : Shown(k) => Shown(k)']_vars
  <2> SUFFICES ASSUME TypedUp, Next PROVE \A k \in Keys : Shown(k) => Shown(k)'
    OBVIOUS
  <2>1. CASE PollPositions
    BY <2>1, WebStored DEF TypedUp, TypeOK, PollTypeOK
  <2>2. CASE UNCHANGED rows
    BY <2>2 DEF rows, Shown
  <2> QED
    BY <2>1, <2>2
    DEF Next, PollStep, PageStep, PollFails, LogPosition, NotifyPosition, RefreshBalances,
        NotifyBalances, SkipBalances, TaskLogs, TaskNotifies, Connect, Drop, Receive, Answer,
        FetchFails, Show
<1> QED BY TypedInvariant, <1>1, PTL DEF Spec, NeverForgotten

-----------------------------------------------------------------------------
(* The latest change is on its way to the page: its announcer has yet to   *)
(* send, or a message of the channel, a request or an answer that will     *)
(* hold it stands before the page.                                         *)
OnItsWay ==
    \/ best >= Stamp \/ missed >= Stamp
    \/ pollPc \in {"initNotify", "balancesNotify"} \/ untold > 0
    \/ ~connected \/ unread > 0
    \/ asking > 0 \/ Stamp \in answers

LEMMA OnItsWayStep ==
    ASSUME TypedUp, OnItsWay, [Next]_vars
    PROVE  OnItsWay'
<1> USE DEF TypedUp, TypeOK, OnItsWay
<1>0. /\ Stamp \in Nat /\ pushed \in Nat /\ refreshes \in Nat
      /\ unread \in Nat /\ untold \in Nat /\ asking \in Nat
      /\ best \in Nat /\ answers \subseteq Nat
  BY DEF WebTypeOK, PollTypeOK, PageTypeOK, Stamp
<1> USE <1>0
<1>1. CASE PollPositions
  BY <1>1 DEF PollPositions, Stamp, fetches, faults, tasks
<1>2. CASE PollFails \/ SkipBalances
  BY <1>2 DEF PollFails, SkipBalances, Stamp, fetches, faults, tasks
<1>3. ASSUME NEW k \in Keys, LogPosition(k) PROVE OnItsWay'
  BY <1>3 DEF LogPosition
<1>4. CASE NotifyPosition \/ NotifyBalances \/ TaskNotifies
  BY <1>4 DEF NotifyPosition, NotifyBalances, TaskNotifies, Notify
<1>5. CASE RefreshBalances
  BY <1>5 DEF RefreshBalances
<1>6. CASE TaskLogs
  BY <1>6 DEF TaskLogs
<1>7. CASE Connect
  <2>1. missed' = Stamp'
    BY <1>7 DEF Connect, Stamp, poll
  <2> QED BY <2>1 DEF Stamp, Connect
<1>8. CASE Drop
  BY <1>8 DEF Drop
<1>9. CASE Receive
  BY <1>9 DEF Receive
<1>10. CASE Answer
  BY <1>10 DEF Answer, Stamp, poll, tasks, faults
<1>11. CASE FetchFails
  BY <1>11 DEF FetchFails, Stamp, poll
<1>12. ASSUME NEW s \in answers, Show(s) PROVE OnItsWay'
  BY <1>12 DEF Show, Stamp, poll, tasks, faults
<1>13. CASE UNCHANGED vars
  BY <1>13 DEF vars, Stamp, poll, tasks, fetches, faults
<1> QED
  BY <1>1, <1>2, <1>3, <1>4, <1>5, <1>6, <1>7, <1>8, <1>9, <1>10, <1>11, <1>12, <1>13
  DEF Next, PollStep, PageStep

\* A page that has settled has shown the latest announced change, for every
\* capacity of the channel and any number of trades, drops and failures.
THEOREM DashboardQuietMeansShown == Spec => []QuietMeansShown
<1>1. Init => OnItsWay
  BY DEF Init, OnItsWay
<1>2. TypedUp /\ OnItsWay /\ [Next]_vars => OnItsWay'
  BY OnItsWayStep
<1>3. TypedUp /\ OnItsWay => QuietMeansShown
  BY DEF TypedUp, TypeOK, PollTypeOK, PageTypeOK, OnItsWay, QuietMeansShown, Quiet
<1> QED BY TypedInvariant, <1>1, <1>2, <1>3, PTL DEF Spec

-----------------------------------------------------------------------------
(* What the page shows, the server has been in. *)

Behind ==
    /\ ui <= best /\ best <= Stamp /\ missed <= Stamp
    /\ \A s \in answers : s <= Stamp

LEMMA SumsGrow ==
    \A m, n, p, q \in Nat : m <= p /\ n <= q => p + q \in Nat /\ m + n <= p + q
OBVIOUS

\* Announced changes are never taken back.
LEMMA StampGrows ==
    ASSUME TypedUp, [Next]_vars
    PROVE  /\ Stamp \in Nat /\ Stamp' \in Nat /\ Stamp <= Stamp'
           /\ ui \in Nat /\ best \in Nat /\ missed \in Nat /\ answers \subseteq Nat
<1>1. pushed \in Nat /\ refreshes \in Nat
  BY DEF TypedUp, TypeOK, WebTypeOK, PollTypeOK
<1>2. pushed' \in {pushed, pushed + 1} /\ refreshes' \in {refreshes, refreshes + 1}
  <2>1. CASE PollPositions \/ PollFails \/ NotifyPosition \/ NotifyBalances \/ SkipBalances
    BY <2>1 DEF PollPositions, PollFails, NotifyPosition, NotifyBalances, SkipBalances
  <2>2. CASE RefreshBalances \/ \E k \in Keys : LogPosition(k)
    BY <2>2 DEF RefreshBalances, LogPosition, PushTrade
  <2>3. CASE TaskLogs \/ TaskNotifies
    BY <2>3 DEF TaskLogs, TaskNotifies, PushTrade, poll
  <2>4. CASE Connect \/ Drop \/ PageStep \/ UNCHANGED vars
    BY <2>4 DEF Connect, Drop, PageStep, Receive, Answer, FetchFails, Show, poll, vars
  <2> QED BY <2>1, <2>2, <2>3, <2>4 DEF Next, PollStep
<1>3. ui \in Nat /\ best \in Nat /\ missed \in Nat /\ answers \subseteq Nat
  BY DEF TypedUp, TypeOK, PageTypeOK
<1>4. pushed' \in Nat /\ pushed <= pushed' /\ refreshes' \in Nat /\ refreshes <= refreshes'
  BY <1>1, <1>2
<1>5. pushed' + refreshes' \in Nat /\ pushed + refreshes <= pushed' + refreshes'
  BY <1>1, <1>4, SumsGrow
<1> QED BY <1>1, <1>3, <1>5 DEF Stamp

LEMMA BehindStep ==
    ASSUME TypedUp, Behind, [Next]_vars
    PROVE  Behind'
<1>0. /\ Stamp \in Nat /\ Stamp' \in Nat /\ Stamp <= Stamp'
      /\ ui \in Nat /\ best \in Nat /\ missed \in Nat /\ answers \subseteq Nat
  BY StampGrows
<1>1. CASE UNCHANGED <<fetches, missed>>
  BY <1>0, <1>1 DEF Behind, fetches
<1>2. CASE Connect \/ FetchFails
  <2>1. Stamp' = Stamp /\ missed' = Stamp /\ UNCHANGED <<answers, ui, best>>
    BY <1>2 DEF Connect, FetchFails, Stamp, poll, fetches
  <2> QED BY <1>0, <2>1 DEF Behind
<1>3. CASE Receive
  BY <1>0, <1>3 DEF Receive, Behind, faults
<1>4. CASE Answer
  <2>1. Stamp' = Stamp /\ answers' = answers \cup {Stamp} /\ UNCHANGED <<ui, best, missed>>
    BY <1>4 DEF Answer, Stamp, poll, faults
  <2> QED BY <1>0, <2>1 DEF Behind
<1>5. ASSUME NEW s \in answers, Show(s) PROVE Behind'
  <2>1. /\ Stamp' = Stamp /\ answers' \subseteq answers /\ missed' = missed
        /\ ui' = s /\ best' = IF s > best THEN s ELSE best
    BY <1>5 DEF Show, Stamp, poll, faults
  <2> QED BY <1>0, <2>1 DEF Behind
<1> QED
  BY <1>1, <1>2, <1>3, <1>4, <1>5
  DEF Next, PollStep, PageStep, PollPositions, PollFails, LogPosition, NotifyPosition,
      RefreshBalances, NotifyBalances, SkipBalances, TaskLogs, TaskNotifies, Drop, faults, vars

\* The page never shows what the server has not been in, and neither does an
\* answer on its way, in whatever order the answers arrive.
THEOREM DashboardNeverAhead == Spec => []Behind
<1>1. Init => Behind
  BY DEF Init, WebInit, Behind, Stamp
<1>2. TypedUp /\ Behind /\ [Next]_vars => Behind'
  BY BehindStep
<1> QED BY TypedInvariant, <1>1, <1>2, PTL DEF Spec

-----------------------------------------------------------------------------
(* How far the latest change has come: it is shown or excepted, answered,  *)
(* asked for, announced, or still to be announced.                         *)

Stage ==
    IF best >= Stamp \/ missed >= Stamp THEN 0
    ELSE IF Stamp \in answers THEN 1
    ELSE IF asking > 0 THEN 2
    ELSE IF ~connected \/ unread > 0 THEN 3
    ELSE 4

\* The steps that bring a change on from a stage.
BringsOn(stage) ==
    \/ stage = 1 /\ Show(Stamp)
    \/ stage = 2 /\ (Answer \/ FetchFails)
    \/ stage = 3 /\ (Connect \/ Receive)
    \/ stage = 4 /\ (NotifyPosition \/ NotifyBalances \/ TaskNotifies)

\* As long as no other change follows it.
Advances ==
    Stamp' = Stamp => Stage' <= Stage /\ (BringsOn(Stage) => Stage' < Stage)

LEMMA NeverBack ==
    ASSUME TypedUp, Next, Stamp' = Stamp
    PROVE  Stage' <= Stage
<1>0. /\ Stamp \in Nat /\ unread \in Nat /\ asking \in Nat
      /\ best \in Nat /\ missed \in Nat /\ answers \subseteq Nat
  BY StampGrows DEF TypedUp, TypeOK, PageTypeOK
<1>1. CASE UNCHANGED <<connected, unread, fetches, faults>>
  BY <1>0, <1>1 DEF Stage, fetches, faults
<1>2. CASE NotifyPosition \/ NotifyBalances \/ TaskNotifies
  <2>1. Notify /\ UNCHANGED <<connected, fetches, faults>>
    BY <1>2 DEF NotifyPosition, NotifyBalances, TaskNotifies
  <2>2. unread' > 0 \/ unread' = unread
    BY <1>0, <2>1 DEF Notify
  <2> QED BY <1>0, <2>1, <2>2 DEF Stage, fetches, faults
<1>3. CASE Connect \/ FetchFails
  <2>1. missed' = Stamp
    BY <1>3 DEF Connect, FetchFails
  <2>2. Stage' = 0
    BY <1>0, <2>1 DEF Stage
  <2> QED BY <2>2 DEF Stage
<1>4. CASE Drop
  BY <1>0, <1>4 DEF Drop, Stage, fetches
<1>5. CASE Receive
  <2>1. asking' > 0 /\ UNCHANGED <<connected, answers, best, missed>>
    BY <1>0, <1>5 DEF Receive, faults
  <2>2. connected /\ unread > 0
    BY <1>5 DEF Receive
  <2> QED BY <1>0, <2>1, <2>2 DEF Stage
<1>6. CASE Answer
  <2>1. Stamp \in answers' /\ asking > 0 /\ UNCHANGED <<best, missed>>
    BY <1>6 DEF Answer, faults
  <2> QED BY <1>0, <2>1 DEF Stage
<1>7. ASSUME NEW s \in answers, Show(s) PROVE Stage' <= Stage
  <2>1. /\ answers' = answers \ {s} /\ best' = (IF s > best THEN s ELSE best)
        /\ UNCHANGED <<asking, connected, unread, missed>>
    BY <1>7 DEF Show, faults
  <2>2. best' >= best /\ best' \in Nat /\ (s = Stamp => best' >= Stamp)
    BY <1>0, <2>1
  <2> QED BY <1>0, <2>1, <2>2 DEF Stage
<1> QED
  BY <1>1, <1>2, <1>3, <1>4, <1>5, <1>6, <1>7
  DEF Next, PollStep, PageStep, PollPositions, PollFails, LogPosition, RefreshBalances,
      SkipBalances, TaskLogs

LEMMA BroughtOn ==
    ASSUME TypedUp, Next, Stamp' = Stamp, BringsOn(Stage)
    PROVE  Stage' < Stage
<1>0. /\ Stamp \in Nat /\ unread \in Nat /\ asking \in Nat
      /\ best \in Nat /\ missed \in Nat /\ answers \subseteq Nat
  BY StampGrows DEF TypedUp, TypeOK, PageTypeOK
<1>1. CASE Stage = 1 /\ Show(Stamp)
  <2>1. best' >= Stamp
    BY <1>0, <1>1 DEF Show
  <2> QED BY <1>1, <2>1 DEF Stage
<1>2. CASE Stage = 2 /\ (Answer \/ FetchFails)
  <2>1. Stamp \in answers' \/ missed' >= Stamp
    BY <1>0, <1>2 DEF Answer, FetchFails
  <2> QED BY <1>2, <2>1 DEF Stage
<1>3. CASE Stage = 3 /\ (Connect \/ Receive)
  <2>1. missed' >= Stamp \/ asking' > 0
    BY <1>0, <1>3 DEF Connect, Receive
  <2> QED BY <1>3, <2>1 DEF Stage
<1>4. CASE Stage = 4 /\ (NotifyPosition \/ NotifyBalances \/ TaskNotifies)
  <2>1. connected /\ unread' = unread + 1
    BY <1>4 DEF Stage, NotifyPosition, NotifyBalances, TaskNotifies, Notify
  <2>2. unread' > 0
    BY <1>0, <2>1
  <2> QED BY <1>4, <2>2 DEF Stage
<1> QED BY <1>1, <1>2, <1>3, <1>4 DEF BringsOn

\* A change that no other follows comes nearer to the page with every message,
\* request and answer, and nothing sets it back, not even a stream that drops:
\* at most four steps of the tasks, the handler and the page, whose fairness
\* the run assumes, are between the change and the page that shows it.  While
\* it is still to be announced somebody is about to send.
THEOREM DashboardChangeAdvances ==
    Spec => /\ [](Stage \in 0..4)
            /\ [](Stage = 4 => pollPc \in {"initNotify", "balancesNotify"} \/ untold > 0)
            /\ [][Advances]_vars
<1>1. Stage \in 0..4
  BY DEF Stage
<1>2. OnItsWay /\ TypedUp => (Stage = 4 => pollPc \in {"initNotify", "balancesNotify"} \/ untold > 0)
  BY DEF OnItsWay, Stage, TypedUp, TypeOK, PageTypeOK
<1>3. TypedUp /\ [Next]_vars => [Advances]_vars
  BY NeverBack, BroughtOn DEF Advances
<1>4. Init => OnItsWay
  BY DEF Init, OnItsWay
<1>5. TypedUp /\ OnItsWay /\ [Next]_vars => OnItsWay'
  BY OnItsWayStep
<1> QED BY TypedInvariant, <1>1, <1>2, <1>3, <1>4, <1>5, PTL DEF Spec
=============================================================================
