------------------------------ MODULE ExitLoop ------------------------------
(***************************************************************************)
(* The entries of copy_trading.rs and the loop that exits them: copy tasks *)
(* buy and then record an entry, every 15 seconds run_exit_check reads the *)
(* wallet's positions, decides under the entries lock what to sell, sells  *)
(* without it, and takes it again to reduce the entries.                   *)
(*                                                                         *)
(* Entries live in memory only; the wallet, and what the Data API shows of *)
(* it, survive a restart.  The take profit, stop loss and trailing stop    *)
(* rules depend on prices nobody controls: any set of positions may        *)
(* trigger.  Sizes are integers.                                           *)
(***************************************************************************)
EXTENDS Integers, FiniteSets

CONSTANTS Assets,
          Copies,        \* copy tasks of one behaviour (a bound)
          MaxHold,       \* bound: shares of one asset in the wallet
          MaxRestarts    \* bound

ASSUME ExitAssumption == MaxHold \in Nat /\ MaxRestarts \in Nat

VARIABLES wallet,     \* shares held, whoever bought them
          view,       \* what the Data API shows of it; it lags
          copy,       \* the copy tasks: [pc, asset, size]
          entry,      \* entries: tracked size, 0 when there is none
          pc,         \* of the exit loop
          snap,       \* positions the running check has read
          plan,       \* to_sell of the running check: size, 0 when not in it
          sold,       \* the orders of plan that were placed
          restarts,
          recorded, reduced,      \* totals since the start: sizes recorded in
                                  \* entries, sizes taken off them
          exitSold,   \* what the exchange executed of the loop's orders
          soldNow,    \* the part of it sold by the running check
          unsettled   \* the part sold by checks that failed midway

market == <<wallet, view>>
check == <<pc, snap, plan, sold, soldNow>>
totals == <<recorded, reduced, exitSold, unsettled>>
vars == <<market, copy, entry, check, restarts, totals>>

Nothing == [a \in Assets |-> 0]
Idle == [pc |-> "idle", asset |-> "none", size |-> 0]
Sizes == 1..MaxHold

-----------------------------------------------------------------------------
Init ==
    /\ wallet \in [Assets -> {0, 1}]         \* bought by hand, or before
    /\ view = wallet
    /\ copy = [c \in Copies |-> Idle]
    /\ entry = Nothing /\ recorded = Nothing /\ reduced = Nothing
    /\ pc = "idle" /\ snap = Nothing /\ plan = Nothing /\ sold = {} /\ soldNow = Nothing
    /\ exitSold = Nothing /\ unsettled = Nothing
    /\ restarts = 0

\* The order of a copied BUY: FAK, so any part of it may be filled, while
\* copy_trade returns the size that was asked for.
CopyBuys(c, a) ==
    /\ copy[c].pc = "idle"
    /\ \E size \in Sizes, fill \in Sizes :
          /\ fill <= size /\ wallet[a] + fill <= MaxHold
          /\ wallet' = [wallet EXCEPT ![a] = @ + fill]
          /\ copy' = [copy EXCEPT ![c] = [pc |-> "filled", asset |-> a, size |-> size]]
    /\ UNCHANGED <<view, entry, check, restarts, totals>>

\* The order was executed but its answer lost: "FAILED", and no entry.
CopyBuyLost(c, a) ==
    /\ copy[c].pc = "idle"
    /\ \E fill \in Sizes :
          /\ wallet[a] + fill <= MaxHold
          /\ wallet' = [wallet EXCEPT ![a] = @ + fill]
    /\ copy' = [copy EXCEPT ![c] = [@ EXCEPT !.pc = "done"]]
    /\ UNCHANGED <<view, entry, check, restarts, totals>>

\* A copied SELL reduces no entry.
CopySells(c, a) ==
    /\ copy[c].pc = "idle"
    /\ \E fill \in 1..wallet[a] : wallet' = [wallet EXCEPT ![a] = @ - fill]
    /\ copy' = [copy EXCEPT ![c] = [@ EXCEPT !.pc = "done"]]
    /\ UNCHANGED <<view, entry, check, restarts, totals>>

\* entries.lock(), record_entry.
RecordEntry(c) ==
    LET a == copy[c].asset IN
    /\ copy[c].pc = "filled"
    /\ entry' = [entry EXCEPT ![a] = @ + copy[c].size]
    /\ recorded' = [recorded EXCEPT ![a] = @ + copy[c].size]
    /\ copy' = [copy EXCEPT ![c] = [@ EXCEPT !.pc = "done"]]
    /\ UNCHANGED <<market, check, restarts, reduced, exitSold, unsettled>>

ApiCatchesUp(a) ==
    /\ view[a] # wallet[a]
    /\ view' = [view EXCEPT ![a] = wallet[a]]
    /\ UNCHANGED <<wallet, copy, entry, check, restarts, totals>>

\* get_positions; resolved, expired and priceless positions are left out.  An
\* error ends the check at once.
Fetch ==
    /\ pc = "idle"
    /\ \E shown \in SUBSET Assets :
          snap' = [a \in Assets |-> IF a \in shown THEN view[a] ELSE 0]
    /\ pc' = "fetched"
    /\ UNCHANGED <<market, copy, entry, plan, sold, soldNow, restarts, totals>>

Least(m, n) == IF m <= n THEN m ELSE n

Decide_IgnoreEntry ==
    /\ pc = "fetched"
    /\ \E triggered \in SUBSET {a \in Assets : entry[a] > 0 /\ snap[a] > 0} :
          /\ plan' = [a \in Assets |-> IF a \in triggered THEN snap[a] ELSE 0]
          /\ pc' = IF triggered = {} THEN "idle" ELSE "selling"
    /\ sold' = {} /\ soldNow' = Nothing /\ snap' = Nothing
    /\ UNCHANGED <<market, copy, entry, restarts, totals>>

\* The first critical section: for each position with an entry, the smaller
\* of the two sizes, if a rule triggers.
Decide ==
    /\ pc = "fetched"
    /\ \E triggered \in SUBSET {a \in Assets : entry[a] > 0 /\ snap[a] > 0} :
          /\ plan' = [a \in Assets |-> IF a \in triggered THEN Least(entry[a], snap[a]) ELSE 0]
          /\ pc' = IF triggered = {} THEN "idle" ELSE "selling"
    /\ sold' = {} /\ soldNow' = Nothing /\ snap' = Nothing
    /\ UNCHANGED <<market, copy, entry, restarts, totals>>

\* place_market_order clamps to the balance, and FAK may fill a part.
Sell(a) ==
    /\ pc = "selling" /\ plan[a] > 0 /\ a \notin sold
    /\ \E fill \in 1..Least(plan[a], wallet[a]) :
          /\ wallet' = [wallet EXCEPT ![a] = @ - fill]
          /\ soldNow' = [soldNow EXCEPT ![a] = @ + fill]
          /\ exitSold' = [exitSold EXCEPT ![a] = @ + fill]
    /\ sold' = sold \cup {a}
    /\ UNCHANGED <<view, copy, entry, pc, snap, plan, restarts, recorded, reduced, unsettled>>

SellFails_EndsLoop(a) ==
    /\ pc = "selling" /\ plan[a] > 0 /\ a \notin sold
    /\ pc' = "ended" /\ plan' = Nothing /\ sold' = {} /\ soldNow' = Nothing
    /\ UNCHANGED <<market, copy, entry, snap, restarts, totals>>

\* The `?` after a failed order ends the check: what it has sold so far, and
\* an execution whose answer was lost, stay in the entries.
SellFails(a) ==
    /\ pc = "selling" /\ plan[a] > 0 /\ a \notin sold
    /\ \E fill \in 0..Least(plan[a], wallet[a]) :
          /\ wallet' = [wallet EXCEPT ![a] = @ - fill]
          /\ exitSold' = [exitSold EXCEPT ![a] = @ + fill]
          /\ unsettled' = [b \in Assets |-> unsettled[b] + soldNow[b] + (IF b = a THEN fill ELSE 0)]
    /\ pc' = "idle" /\ plan' = Nothing /\ sold' = {} /\ soldNow' = Nothing
    /\ UNCHANGED <<view, copy, entry, snap, restarts, recorded, reduced>>

Settle_DropEntries ==
    /\ pc = "selling" /\ \A a \in Assets : plan[a] > 0 => a \in sold
    /\ entry' = [a \in Assets |-> IF plan[a] > 0 THEN 0 ELSE entry[a]]
    /\ reduced' = [a \in Assets |-> reduced[a] + plan[a]]
    /\ pc' = "idle" /\ plan' = Nothing /\ sold' = {} /\ soldNow' = Nothing
    /\ UNCHANGED <<market, copy, snap, restarts, recorded, exitSold, unsettled>>

\* The second critical section: by the size ordered, not by the size filled;
\* an entry that reaches zero is removed.
Settle ==
    /\ pc = "selling" /\ \A a \in Assets : plan[a] > 0 => a \in sold
    /\ entry' = [a \in Assets |-> IF entry[a] > plan[a] THEN entry[a] - plan[a] ELSE 0]
    /\ reduced' = [a \in Assets |-> reduced[a] + plan[a]]
    /\ pc' = "idle" /\ plan' = Nothing /\ sold' = {} /\ soldNow' = Nothing
    /\ UNCHANGED <<market, copy, snap, restarts, recorded, exitSold, unsettled>>

\* The process ends anywhere and is started again: entries and tasks are gone.
Restart ==
    /\ restarts < MaxRestarts /\ restarts' = restarts + 1
    /\ copy' = [c \in Copies |-> IF copy[c].pc = "filled" THEN [copy[c] EXCEPT !.pc = "done"]
                                 ELSE copy[c]]
    /\ entry' = Nothing /\ recorded' = Nothing /\ reduced' = Nothing
    /\ pc' = "idle" /\ snap' = Nothing /\ plan' = Nothing /\ sold' = {} /\ soldNow' = Nothing
    /\ exitSold' = Nothing /\ unsettled' = Nothing
    /\ UNCHANGED market

CheckStep == Decide \/ Settle \/ \E a \in Assets : Sell(a) \/ SellFails(a)

CopyStep(c) == RecordEntry(c) \/ \E a \in Assets : CopyBuys(c, a) \/ CopyBuyLost(c, a) \/ CopySells(c, a)

Next ==
    \/ \E c \in Copies : CopyStep(c)
    \/ \E a \in Assets : ApiCatchesUp(a)
    \/ Fetch \/ CheckStep \/ Restart

Spec == Init /\ [][Next]_vars

\* The interval ticks on, the Data API answers now and then, and every call
\* of a check returns.
FairSpec == Spec /\ WF_vars(Fetch) /\ WF_vars(CheckStep)

-----------------------------------------------------------------------------
CopyTask == [pc : {"idle", "filled", "done"}, asset : Assets \cup {"none"}, size : Nat]

TypeOK ==
    /\ wallet \in [Assets -> Nat] /\ view \in [Assets -> Nat]
    /\ copy \in [Copies -> CopyTask]
    /\ \A c \in Copies : copy[c].pc = "filled" => copy[c].asset \in Assets
    /\ entry \in [Assets -> Nat] /\ pc \in {"idle", "fetched", "selling"}
    /\ snap \in [Assets -> Nat] /\ plan \in [Assets -> Nat] /\ sold \subseteq Assets
    /\ restarts \in 0..MaxRestarts
    /\ recorded \in [Assets -> Nat] /\ reduced \in [Assets -> Nat]
    /\ exitSold \in [Assets -> Nat] /\ soldNow \in [Assets -> Nat] /\ unsettled \in [Assets -> Nat]

Atomic == INSTANCE AtomicExit WITH
    executed <- [a \in Assets |-> exitSold[a] - soldNow[a]]

\* A check, with its two critical sections and the orders between them, while
\* copies are recorded and others trade, is as good as one that happens at
\* once: what copies record is in the entries until a check takes it off, a
\* copy recorded between the two critical sections is not lost, and nothing is
\* taken off twice.
ImplementsAtomicExit == Atomic!Spec

\* The exit loop sells no more than copies have recorded since the start, however
\* late the Data API is and whatever else the wallet holds: only a check that
\* failed midway leaves entries for shares it has sold, and so may sell as many
\* again.  What is recorded is the size asked for: after a partial fill or a
\* copied SELL it is more than the bot holds of its own, and the loop may then
\* sell shares that were bought by hand.
ExitWithinRecorded == \A a \in Assets : exitSold[a] <= recorded[a] + unsettled[a]

\* A check that fails is followed by another: the loop never ends.
ChecksGoOn == []<>(pc = "fetched")
=============================================================================
