------------------------------ MODULE WebState ------------------------------
(***************************************************************************)
(* The BotState of web_state.rs that the dashboard shows: the log of       *)
(* trades, a window of the last MaxLogs, and the position rows of a user.  *)
(* The operators are the functions of the module; who calls them is in     *)
(* Dashboard.  Every one holds the write lock while it assigns, and only   *)
(* the poll loop calls set_positions, so each is one step.                 *)
(*                                                                         *)
(* Log entries are numbered.  A user's rows are independent of another's   *)
(* (a map keyed by user), so one user is modelled.  A row is named by its  *)
(* "slug|outcome" key, which a fetched list holds once; the list of rows   *)
(* then holds a key at most once open and once closed, the closed row      *)
(* behind the open one.  The price of a row is carried along with its size *)
(* and left out.                                                           *)
(***************************************************************************)
EXTENDS Integers, Sequences

CONSTANTS Keys,      \* "slug|outcome" of the positions of the user
          MaxLogs    \* MAX_LOGS

ASSUME WebAssumption == MaxLogs \in Nat \ {0}

VARIABLES logs,      \* numbers of the entries kept, oldest first
          pushed,    \* entries pushed so far
          open,      \* size of the open row of a key, 0 when there is none
          delta,     \* its highlighted change, 0 when there is none
          closed,    \* size of the closed row of a key, 0 when there is none
          closedAt   \* closed_at of it: the number of a set_positions call

rows == <<open, delta, closed, closedAt>>

NoRows == [k \in Keys |-> 0]

WebInit ==
    /\ logs = <<>> /\ pushed = 0
    /\ open = NoRows /\ delta = NoRows /\ closed = NoRows /\ closedAt = NoRows

PushTrade_DropNewest ==
    /\ pushed' = pushed + 1
    /\ logs' = IF Len(logs) = MaxLogs THEN logs ELSE Append(logs, pushed')

\* push, then remove(0) when there are more than MAX_LOGS.
PushTrade ==
    /\ pushed' = pushed + 1
    /\ logs' = LET longer == Append(logs, pushed')
               IN  IF Len(longer) > MaxLogs THEN Tail(longer) ELSE longer

\* prev and prev_positions are maps filled from the list in its order: of two
\* rows with the same key the later one, the closed one, stays.
PrevSize(k) == IF closed[k] # 0 THEN closed[k] ELSE open[k]
PrevOpen(k) == open[k] # 0 /\ closed[k] = 0

SetPositions_ForgetClosed(fetched, now) ==
    /\ open' = fetched
    /\ delta' = [k \in Keys |-> IF fetched[k] # 0 /\ PrevSize(k) # 0
                                THEN fetched[k] - PrevSize(k) ELSE 0]
    /\ closed' = [k \in Keys |-> IF PrevOpen(k) /\ fetched[k] = 0 THEN open[k] ELSE 0]
    /\ closedAt' = [k \in Keys |-> IF PrevOpen(k) /\ fetched[k] = 0 THEN now ELSE 0]

\* fetched: size of each key in the list of the Data API, 0 for those not in it.
SetPositions(fetched, now) ==
    /\ open' = fetched
    /\ delta' = [k \in Keys |-> IF fetched[k] # 0 /\ PrevSize(k) # 0
                                THEN fetched[k] - PrevSize(k) ELSE 0]
    /\ closed' = [k \in Keys |-> IF PrevOpen(k) /\ fetched[k] = 0 THEN open[k] ELSE closed[k]]
    /\ closedAt' = [k \in Keys |-> IF PrevOpen(k) /\ fetched[k] = 0 THEN now ELSE closedAt[k]]

-----------------------------------------------------------------------------
WebTypeOK ==
    /\ logs \in Seq(Nat) /\ pushed \in Nat
    /\ open \in [Keys -> Nat] /\ delta \in [Keys -> Int]
    /\ closed \in [Keys -> Nat] /\ closedAt \in [Keys -> Nat]

\* The log shows the latest entries, all of them up to MAX_LOGS, in the order
\* in which they were pushed.
LogWindow ==
    /\ Len(logs) = IF pushed < MaxLogs THEN pushed ELSE MaxLogs
    /\ \A i \in 1..Len(logs) : logs[i] = pushed - Len(logs) + i

Shown(k) == open[k] # 0 \/ closed[k] # 0
=============================================================================
