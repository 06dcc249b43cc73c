----------------------------- MODULE HedgedPair -----------------------------
(***************************************************************************)
(* What the owner of the dual limit bot may rely on for one market in one  *)
(* period: tokens are only ever acquired; the missing side is bought until *)
(* a buy is answered Ok, and from then on both sides are held; such a pair *)
(* may be offered for sale, one side low before the other high, and the    *)
(* bot is done with it only after the high offer.                          *)
(***************************************************************************)
EXTENDS Naturals

CONSTANT Sides

VARIABLES simulated,  \* nothing is offered for sale in a simulation
          held,       \* sides of which there are tokens
          bought,     \* hedges that were answered Ok
          kind,       \* "no" until the hedge is recorded, then what it is
          low, high,  \* accepted offers of each side at the low, the high price
          refused,    \* a high offer has failed
          closed      \* the bot has finished with the pair

offers == <<low, high>>
vars == <<simulated, held, bought, kind, offers, refused, closed>>

Kinds == {"two", "under", "over"}

Init ==
    /\ simulated \in BOOLEAN
    /\ held = {} /\ bought = 0 /\ kind = "no"
    /\ low = [s \in Sides |-> 0] /\ high = [s \in Sides |-> 0]
    /\ refused = FALSE /\ closed = FALSE

NoLow == \A s \in Sides : low[s] = 0
NoHigh == \A s \in Sides : high[s] = 0

\* A limit order fills, or a lost answer was an execution.
Acquire ==
    /\ held' \in SUBSET Sides /\ held \subseteq held'
    /\ UNCHANGED <<simulated, bought, kind, offers, refused, closed>>

\* A buy of the missing side is answered while the other side is held.
Hedge ==
    /\ bought = 0 /\ held # {}
    /\ held' = Sides /\ bought' = 1
    /\ UNCHANGED <<simulated, kind, offers, refused, closed>>

RecordHedge ==
    /\ bought = 1 /\ kind = "no"
    /\ kind' \in Kinds
    /\ UNCHANGED <<simulated, held, bought, offers, refused, closed>>

\* Pairs of the 2-minute hedge are kept to the end.
ForSale == kind \in {"under", "over"} /\ ~closed /\ ~simulated

\* A pair hedged at 0.60 or more offers one side low, once; the others may be
\* offered low again when the high offer has failed.
SellLow ==
    /\ ForSale
    /\ kind = "over" => NoLow
    /\ \E s \in Sides : low' = [low EXCEPT ![s] = @ + 1]
    /\ UNCHANGED <<simulated, held, bought, kind, high, refused, closed>>

\* A high offer follows a low one of the other side.  Only at 0.60 or more,
\* and only once a high offer has failed, may the sides have changed places.
Paired == {s \in Sides : \E t \in Sides : low[t] > 0 /\ (t = s => kind = "over" /\ refused)}

SellHigh ==
    /\ ForSale
    /\ \E s \in Paired : high' = [high EXCEPT ![s] = 1]
    /\ closed' = TRUE
    /\ UNCHANGED <<simulated, held, bought, kind, low, refused>>

Refuse ==
    /\ ForSale /\ ~NoLow
    /\ refused' = TRUE
    /\ UNCHANGED <<simulated, held, bought, kind, offers, closed>>

\* A simulation only notes that it would have sold.
Note ==
    /\ simulated /\ kind \in {"under", "over"} /\ ~closed
    /\ closed' = TRUE
    /\ UNCHANGED <<simulated, held, bought, kind, offers, refused>>

Next == Acquire \/ Hedge \/ RecordHedge \/ SellLow \/ SellHigh \/ Refuse \/ Note

Spec == Init /\ [][Next]_vars

-----------------------------------------------------------------------------
\* At most one hedge was answered Ok, and both sides are held from then on;
\* nothing is offered for sale but a hedged pair; a high offer ends it, and
\* there was a low offer of the other side before, or, at 0.60 or more and
\* after a refusal, of the same side; at 0.60 or more one side was offered low.
Outcome ==
    /\ held \subseteq Sides /\ bought \in 0..1 /\ (bought = 1 => held = Sides)
    /\ kind # "no" => bought = 1
    /\ closed \/ ~NoLow => kind \in {"under", "over"}
    /\ ~NoHigh <=> closed /\ ~simulated
    /\ \A s \in Sides : high[s] > 0 => s \in Paired
    /\ kind = "over" => \A s, t \in Sides : low[s] > 0 /\ low[t] > 0 => s = t /\ low[s] = 1

\* What was acquired stays, what was recorded of a hedge stays, and a pair that
\* is done with is left alone.
Keeps ==
    /\ held \subseteq held' /\ bought <= bought'
    /\ kind # "no" => kind' = kind
    /\ closed => closed' /\ UNCHANGED offers

Kept == [][Keeps]_vars
=============================================================================
