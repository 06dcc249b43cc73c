--------------------------- MODULE TradeLifecycle ---------------------------
(***************************************************************************)
(* What the web log promises about every leader trade the bot takes up: it *)
(* gets one final fate; "ok" means its order was executed, "filtered",     *)
(* "skipped" and "timeout" mean that it was not; an order is executed once *)
(* at most, and nothing happens to a trade after its fate is known.        *)
(* ("failed" means either: the answer to an executed order can be lost.)   *)
(***************************************************************************)
CONSTANT Tasks

VARIABLES fate, ordered

vars == <<fate, ordered>>

Fates == {"filtered", "skipped", "timeout", "ok", "failed"}

Init ==
    /\ fate = [t \in Tasks |-> "none"]
    /\ ordered = [t \in Tasks |-> FALSE]

TakeUp(t) ==
    /\ fate[t] = "none"
    /\ fate' = [fate EXCEPT ![t] = "pending"] /\ UNCHANGED ordered

Execute(t) ==
    /\ fate[t] = "pending" /\ ~ordered[t]
    /\ ordered' = [ordered EXCEPT ![t] = TRUE] /\ UNCHANGED fate

Finish(t) ==
    /\ fate[t] = "pending"
    /\ \E f \in Fates :
          /\ f = "ok" => ordered[t]
          /\ f \in {"filtered", "skipped", "timeout"} => ~ordered[t]
          /\ fate' = [fate EXCEPT ![t] = f]
    /\ UNCHANGED ordered

Next == \E t \in Tasks : TakeUp(t) \/ Execute(t) \/ Finish(t)

Spec == Init /\ [][Next]_vars

-----------------------------------------------------------------------------
Typed == fate \in [Tasks -> {"none", "pending"} \cup Fates] /\ ordered \in [Tasks -> BOOLEAN]

\* The log tells the truth about the order of every trade with a fate.
Truthful ==
    \A t \in Tasks :
        /\ fate[t] = "ok" => ordered[t]
        /\ fate[t] \in {"none", "filtered", "skipped", "timeout"} => ~ordered[t]

\* A fate is final: the log never takes it back, and the order of a trade
\* that has one is not executed later.
KeepsFates ==
    \A t \in Tasks : fate[t] \in Fates => fate'[t] = fate[t] /\ ordered'[t] = ordered[t]

FatesFinal == [][KeepsFates]_vars
=============================================================================
