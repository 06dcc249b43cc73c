---------------------------- MODULE OneShotOrder ----------------------------
(***************************************************************************)
(* What a caller of place_market_order and place_market_order_fast may     *)
(* rely on: however often the order is retried inside the call, the        *)
(* exchange executes it at most once, for an amount the request allows;    *)
(* a call that returns Ok has executed it, a call that was dropped by a    *)
(* timeout has not, and an error says nothing (the answer may be lost).    *)
(***************************************************************************)
EXTENDS Naturals

CONSTANTS Requests,     \* the orders a caller may ask for
          Allowed(_)    \* the amounts that satisfy a request

VARIABLES status, request, executed   \* executed = 0: nothing was

vars == <<status, request, executed>>

Final == {"idle", "ok", "failed", "dropped"}

Init == status = "idle" /\ request \in Requests /\ executed = 0

Begin ==
    /\ status \in Final
    /\ status' = "pending" /\ executed' = 0 /\ request' \in Requests

Succeed ==
    /\ status = "pending"
    /\ status' = "ok" /\ executed' \in Allowed(request) /\ UNCHANGED request

Fail ==
    /\ status = "pending"
    /\ status' = "failed" /\ executed' \in Allowed(request) \cup {0} /\ UNCHANGED request

Drop ==
    /\ status = "pending"
    /\ status' = "dropped" /\ UNCHANGED <<request, executed>>

Next == Begin \/ Succeed \/ Fail \/ Drop

Spec == Init /\ [][Next]_vars

-----------------------------------------------------------------------------
\* What the answer of a call says of the exchange: Ok, and an amount the
\* request allows was executed; dropped, and nothing was.
Outcome ==
    /\ request \in Requests
    /\ status = "ok" => executed \in Allowed(request)
    /\ status \in {"idle", "pending", "dropped"} => executed = 0
    /\ status = "failed" => executed \in Allowed(request) \cup {0}

\* An answer is final: what was executed for a call that has ended changes
\* with the next call only.
StaysSettled == status \in Final => status' = "pending" /\ executed' = 0

Settled == [][StaysSettled]_vars
=============================================================================
