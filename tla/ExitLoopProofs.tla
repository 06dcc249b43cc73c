--------------------------- MODULE ExitLoopProofs ---------------------------
(***************************************************************************)
(* Theorems about ExitLoop, for any assets, copies, sizes and restarts.    *)
(*                                                                         *)
(* The argument: from the first critical section to the second, the plan   *)
(* stays within the entries, because copies only add to them (PlanInv); a  *)
(* check sells within its plan; so what the loop has sold is within what   *)
(* it has taken off, sells now, or left unsettled (SoldInv), and the       *)
(* ledger turns that into a bound by what was recorded.                    *)
(* The same books map every check to one step of AtomicExit.               *)
(***************************************************************************)
EXTENDS ExitLoop, TLAPS

\* Every share recorded is in an entry or was taken off.
LedgerConserved == \A a \in Assets : entry[a] + reduced[a] = recorded[a]

PlanInv == \A a \in Assets :
    /\ plan[a] <= entry[a]
    /\ pc # "selling" => plan[a] = 0
    /\ soldNow[a] <= plan[a]
    /\ a \notin sold => soldNow[a] = 0

SoldInv == \A a \in Assets :
    /\ exitSold[a] <= reduced[a] + soldNow[a] + unsettled[a]
    /\ soldNow[a] <= exitSold[a]

IInv == TypeOK /\ LedgerConserved /\ PlanInv /\ SoldInv

\* Nothing is zero everywhere.
LEMMA NothingZero == Nothing \in [Assets -> Nat] /\ \A a \in Assets : Nothing[a] = 0
  BY DEF Nothing

\* Initially there are no entries and nothing is planned.
LEMMA InitIInv == Init => IInv
<1> SUFFICES ASSUME Init PROVE IInv
  OBVIOUS
<1>1. TypeOK
  BY NothingZero, ExitAssumption DEF Init, TypeOK, Idle, CopyTask
<1>2. LedgerConserved /\ PlanInv /\ SoldInv
  BY NothingZero DEF Init, LedgerConserved, PlanInv, SoldInv
<1>. QED
  BY <1>1, <1>2 DEF IInv

\* Every step of a copy task preserves the invariant.
LEMMA CopyPreserves ==
  ASSUME IInv, NEW c \in Copies, CopyStep(c)
  PROVE  IInv'
<1>0. TypeOK /\ LedgerConserved /\ PlanInv /\ SoldInv
  BY DEF IInv
<1>1. CASE RecordEntry(c)
  <2>1. /\ copy[c].asset \in Assets /\ copy[c].size \in Nat /\ copy[c] \in CopyTask
        /\ entry' = [entry EXCEPT ![copy[c].asset] = @ + copy[c].size]
        /\ recorded' = [recorded EXCEPT ![copy[c].asset] = @ + copy[c].size]
        /\ UNCHANGED <<market, check, restarts, reduced, exitSold, unsettled>>
    BY <1>0, <1>1 DEF RecordEntry, TypeOK, CopyTask
  <2>2. \A d \in Copies : copy'[d].pc = "filled" => copy'[d] = copy[d]
    BY <1>0, <1>1 DEF RecordEntry, TypeOK, CopyTask
  <2>3. copy' \in [Copies -> CopyTask]
    BY <1>0, <1>1 DEF RecordEntry, TypeOK, CopyTask
  <2>4. TypeOK'
    BY <1>0, <2>1, <2>2, <2>3 DEF TypeOK, market, check
  <2>5. (LedgerConserved /\ PlanInv /\ SoldInv)'
    BY <1>0, <2>1 DEF TypeOK, LedgerConserved, PlanInv, SoldInv, check
  <2>. QED
    BY <2>4, <2>5 DEF IInv
<1>2. ASSUME NEW a \in Assets, CopyBuys(c, a) \/ CopyBuyLost(c, a) \/ CopySells(c, a)
      PROVE  IInv'
  <2>1. UNCHANGED <<view, entry, check, restarts, totals>>
    BY <1>2 DEF CopyBuys, CopyBuyLost, CopySells
  <2>2. wallet' \in [Assets -> Nat]
    BY <1>0, <1>2, ExitAssumption DEF CopyBuys, CopyBuyLost, CopySells, TypeOK, Sizes
  <2>3. copy' \in [Copies -> CopyTask] /\ \A d \in Copies : copy'[d].pc = "filled" => copy'[d].asset \in Assets
    <3>1. CASE CopyBuys(c, a)
      <4>1. PICK size \in Sizes : copy' = [copy EXCEPT ![c] = [pc |-> "filled", asset |-> a, size |-> size]]
        BY <3>1 DEF CopyBuys
      <4>2. [pc |-> "filled", asset |-> a, size |-> size] \in CopyTask
        BY ExitAssumption DEF Sizes, CopyTask
      <4>3. copy' \in [Copies -> CopyTask]
        BY <1>0, <4>1, <4>2 DEF TypeOK
      <4>4. ASSUME NEW d \in Copies, copy'[d].pc = "filled" PROVE copy'[d].asset \in Assets
        <5>1. CASE d = c
          <6>1. copy'[d] = [pc |-> "filled", asset |-> a, size |-> size]
            BY <1>0, <4>1, <5>1 DEF TypeOK
          <6>. QED
            BY <6>1
        <5>2. CASE d # c
          BY <1>0, <4>1, <4>4, <5>2 DEF TypeOK
        <5>. QED
          BY <5>1, <5>2
      <4>. QED
        BY <4>3, <4>4
    <3>2. CASE CopyBuyLost(c, a) \/ CopySells(c, a)
      <4>1. copy' = [copy EXCEPT ![c] = [copy[c] EXCEPT !.pc = "done"]]
        BY <3>2 DEF CopyBuyLost, CopySells
      <4>2. [copy[c] EXCEPT !.pc = "done"] \in CopyTask /\ [copy[c] EXCEPT !.pc = "done"].pc # "filled"
        BY <1>0 DEF TypeOK, CopyTask
      <4>3. \A d \in Copies : copy'[d] = IF d = c THEN [copy[c] EXCEPT !.pc = "done"] ELSE copy[d]
        BY <1>0, <4>1 DEF TypeOK
      <4>4. copy' \in [Copies -> CopyTask]
        BY <1>0, <4>1, <4>2 DEF TypeOK
      <4>. QED
        BY <1>0, <4>2, <4>3, <4>4 DEF TypeOK
    <3>. QED
      BY <1>2, <3>1, <3>2
  <2>. QED
    BY <1>0, <2>1, <2>2, <2>3 DEF IInv, TypeOK, LedgerConserved, PlanInv, SoldInv, check, totals
<1>. QED
  BY <1>1, <1>2 DEF CopyStep

\* Both critical sections, and the orders between them, preserve it.
LEMMA CheckPreserves ==
  ASSUME IInv, CheckStep
  PROVE  IInv'
<1>0. TypeOK /\ LedgerConserved /\ PlanInv /\ SoldInv
  BY DEF IInv
<1>1. CASE Decide
  <2>1. PICK triggered \in SUBSET {a \in Assets : entry[a] > 0 /\ snap[a] > 0} :
           /\ plan' = [a \in Assets |-> IF a \in triggered THEN Least(entry[a], snap[a]) ELSE 0]
           /\ pc' = IF triggered = {} THEN "idle" ELSE "selling"
    BY <1>1 DEF Decide
  <2>2. /\ sold' = {} /\ soldNow' = Nothing /\ snap' = Nothing
        /\ UNCHANGED <<market, copy, entry, restarts, totals>>
    BY <1>1 DEF Decide
  <2>3. plan' \in [Assets -> Nat] /\ \A a \in Assets : plan'[a] <= entry[a]
    BY <1>0, <2>1 DEF TypeOK, Least
  <2>4. TypeOK'
    BY <1>0, <2>1, <2>2, <2>3, NothingZero DEF TypeOK, market, totals
  <2>5. \A a \in Assets : pc = "fetched" /\ soldNow[a] = 0
    BY <1>0, <1>1 DEF Decide, PlanInv, TypeOK
  <2>6. (LedgerConserved /\ PlanInv /\ SoldInv)'
    BY <1>0, <2>1, <2>2, <2>3, <2>5, NothingZero DEF LedgerConserved, PlanInv, SoldInv, totals
  <2>. QED
    BY <2>4, <2>6 DEF IInv
<1>2. CASE Settle
  <2>1. /\ entry' = [a \in Assets |-> IF entry[a] > plan[a] THEN entry[a] - plan[a] ELSE 0]
        /\ reduced' = [a \in Assets |-> reduced[a] + plan[a]]
        /\ pc' = "idle" /\ plan' = Nothing /\ sold' = {} /\ soldNow' = Nothing
        /\ UNCHANGED <<market, copy, snap, restarts, recorded, exitSold, unsettled>>
    BY <1>2 DEF Settle
  <2>2. TypeOK'
    BY <1>0, <2>1, NothingZero DEF TypeOK, market
  <2>3. (LedgerConserved /\ PlanInv /\ SoldInv)'
    BY <1>0, <2>1, NothingZero DEF TypeOK, LedgerConserved, PlanInv, SoldInv
  <2>. QED
    BY <2>2, <2>3 DEF IInv
<1>3. ASSUME NEW a \in Assets, Sell(a) PROVE IInv'
  <2>1. PICK fill \in 1..Least(plan[a], wallet[a]) :
           /\ wallet' = [wallet EXCEPT ![a] = @ - fill]
           /\ soldNow' = [soldNow EXCEPT ![a] = @ + fill]
           /\ exitSold' = [exitSold EXCEPT ![a] = @ + fill]
    BY <1>3 DEF Sell
  <2>2. /\ sold' = sold \cup {a} /\ a \notin sold /\ pc = "selling"
        /\ UNCHANGED <<view, copy, entry, pc, snap, plan, restarts, recorded, reduced, unsettled>>
    BY <1>3 DEF Sell
  <2>3. fill \in Nat /\ fill <= plan[a] /\ fill <= wallet[a] /\ soldNow[a] = 0
    BY <1>0, <2>1, <2>2 DEF TypeOK, Least, PlanInv
  <2>4. TypeOK'
    BY <1>0, <2>1, <2>2, <2>3 DEF TypeOK
  <2>5. (LedgerConserved /\ PlanInv /\ SoldInv)'
    BY <1>0, <2>1, <2>2, <2>3 DEF TypeOK, LedgerConserved, PlanInv, SoldInv
  <2>. QED
    BY <2>4, <2>5 DEF IInv
<1>4. ASSUME NEW a \in Assets, SellFails(a) PROVE IInv'
  <2>1. PICK fill \in 0..Least(plan[a], wallet[a]) :
           /\ wallet' = [wallet EXCEPT ![a] = @ - fill]
           /\ exitSold' = [exitSold EXCEPT ![a] = @ + fill]
           /\ unsettled' = [b \in Assets |-> unsettled[b] + soldNow[b] + (IF b = a THEN fill ELSE 0)]
    BY <1>4 DEF SellFails
  <2>2. /\ pc' = "idle" /\ plan' = Nothing /\ sold' = {} /\ soldNow' = Nothing
        /\ UNCHANGED <<view, copy, entry, snap, restarts, recorded, reduced>>
    BY <1>4 DEF SellFails
  <2>3. fill \in Nat /\ fill <= wallet[a]
    BY <1>0, <2>1 DEF TypeOK, Least
  <2>a. wallet' \in [Assets -> Nat] /\ exitSold' \in [Assets -> Nat]
    BY <1>0, <2>1, <2>3 DEF TypeOK
  <2>b. unsettled' \in [Assets -> Nat]
    BY <1>0, <2>1, <2>3 DEF TypeOK
  <2>4. TypeOK'
    BY <1>0, <2>2, <2>a, <2>b, NothingZero DEF TypeOK
  <2>5. (LedgerConserved /\ PlanInv /\ SoldInv)'
    BY <1>0, <2>1, <2>2, <2>3, NothingZero DEF TypeOK, LedgerConserved, PlanInv, SoldInv
  <2>. QED
    BY <2>4, <2>5 DEF IInv
<1>. QED
  BY <1>1, <1>2, <1>3, <1>4 DEF CheckStep

\* Every step preserves the inductive invariant.
LEMMA StepIInv == IInv /\ [Next]_vars => IInv'
<1> SUFFICES ASSUME IInv, [Next]_vars PROVE IInv'
  OBVIOUS
<1>0. TypeOK /\ LedgerConserved /\ PlanInv /\ SoldInv
  BY DEF IInv
<1>1. CASE UNCHANGED vars
  BY <1>0, <1>1 DEF IInv, TypeOK, LedgerConserved, PlanInv, SoldInv, vars, market, check, totals
<1>2. ASSUME NEW a \in Assets, ApiCatchesUp(a) PROVE IInv'
  BY <1>0, <1>2 DEF ApiCatchesUp, IInv, TypeOK, LedgerConserved, PlanInv, SoldInv, check, totals
<1>3. CASE Fetch
  <2>1. snap' \in [Assets -> Nat]
    BY <1>0, <1>3 DEF Fetch, TypeOK
  <2>2. pc = "idle" /\ pc' = "fetched" /\ UNCHANGED <<market, copy, entry, plan, sold, soldNow, restarts, totals>>
    BY <1>3 DEF Fetch
  <2>. QED
    BY <1>0, <2>1, <2>2 DEF IInv, TypeOK, LedgerConserved, PlanInv, SoldInv, market, totals
<1>4. CASE Restart
  <2>1. /\ entry' = Nothing /\ recorded' = Nothing /\ reduced' = Nothing
        /\ pc' = "idle" /\ snap' = Nothing /\ plan' = Nothing /\ sold' = {} /\ soldNow' = Nothing
        /\ exitSold' = Nothing /\ unsettled' = Nothing
        /\ UNCHANGED market
    BY <1>4 DEF Restart
  <2>2. copy' \in [Copies -> CopyTask] /\ \A c \in Copies : copy'[c].pc # "filled"
    BY <1>0, <1>4 DEF Restart, TypeOK, CopyTask
  <2>3. restarts' \in 0..MaxRestarts
    BY <1>0, <1>4, ExitAssumption DEF Restart, TypeOK
  <2>4. TypeOK'
    BY <1>0, <2>1, <2>2, <2>3, NothingZero DEF TypeOK, market
  <2>5. (LedgerConserved /\ PlanInv /\ SoldInv)'
    BY <2>1, NothingZero DEF LedgerConserved, PlanInv, SoldInv
  <2>. QED
    BY <2>4, <2>5 DEF IInv
<1>. QED
  BY <1>1, <1>2, <1>3, <1>4, CopyPreserves, CheckPreserves DEF Next

\* The inductive invariant holds in every reachable state.
LEMMA Invariance == Spec => []IInv
  BY InitIInv, StepIInv, PTL DEF Spec

\* The exit loop keeps its variables within their types; no entry and no
\* balance goes below zero.
THEOREM ExitTypeCorrect == Spec => []TypeOK
<1>1. IInv => TypeOK
  BY DEF IInv
<1>. QED
  BY <1>1, Invariance, PTL

\* The exit loop sells no more than copies have recorded since the start, the
\* sizes they asked for, except for as many shares as checks that failed midway
\* had sold.
THEOREM ExitSellsWithinRecorded == Spec => []ExitWithinRecorded
<1>1. IInv => ExitWithinRecorded
  BY DEF IInv, TypeOK, LedgerConserved, PlanInv, SoldInv, ExitWithinRecorded
<1>. QED
  BY <1>1, Invariance, PTL

-----------------------------------------------------------------------------
(* The refinement. *)

\* What the exchange has executed for checks that have ended.
Executed == [a \in Assets |-> exitSold[a] - soldNow[a]]

LEMMA AtomicTyped == IInv => Atomic!TypeOK
<1> SUFFICES ASSUME IInv PROVE Atomic!TypeOK
  OBVIOUS
<1>1. \A a \in Assets : exitSold[a] - soldNow[a] \in Nat
  BY DEF IInv, TypeOK, SoldInv
<1>. QED
  BY <1>1 DEF IInv, TypeOK, Atomic!TypeOK

LEMMA AtomicInit == Init => Atomic!Init
<1> SUFFICES ASSUME Init PROVE Atomic!Init
  OBVIOUS
<1>1. [a \in Assets |-> exitSold[a] - soldNow[a]] = Nothing
  BY NothingZero DEF Init, Nothing
<1>. QED
  BY <1>1 DEF Init, Nothing, Atomic!Init, Atomic!Nothing

\* Steps that leave the entries and the totals alone.
LEMMA BooksAlone ==
  ASSUME UNCHANGED <<entry, totals, soldNow>>
  PROVE  UNCHANGED Atomic!vars
  BY DEF totals, Atomic!vars

LEMMA AtomicStep == IInv /\ Atomic!TypeOK' /\ [Next]_vars => [Atomic!Next]_(Atomic!vars)
<1> SUFFICES ASSUME IInv, Atomic!TypeOK', [Next]_vars PROVE [Atomic!Next]_(Atomic!vars)
  OBVIOUS
<1>0. TypeOK /\ PlanInv /\ SoldInv /\ Atomic!TypeOK'
  BY DEF IInv
<1>1. ASSUME NEW c \in Copies, RecordEntry(c) PROVE [Atomic!Next]_(Atomic!vars)
  <2>1. PICK a \in Assets, n \in Nat :
           /\ entry' = [entry EXCEPT ![a] = @ + n]
           /\ recorded' = [recorded EXCEPT ![a] = @ + n]
           /\ UNCHANGED <<reduced, exitSold, soldNow, unsettled>>
    BY <1>0, <1>1 DEF RecordEntry, TypeOK, CopyTask, check
  <2>2. CASE n = 0
    BY <1>0, <2>1, <2>2 DEF TypeOK, Atomic!vars
  <2>3. CASE n > 0
    <3>1. recorded[a] \in Nat /\ recorded'[a] = recorded[a] + n /\ recorded'[a] - recorded[a] = n
      BY <1>0, <2>1 DEF TypeOK
    <3>2. recorded' = [recorded EXCEPT ![a] = recorded'[a]]
      BY <2>1, <3>1
    <3>3. entry' = [entry EXCEPT ![a] = entry[a] + (recorded'[a] - recorded[a])]
      BY <2>1, <3>1
    <3>4. recorded'[a] > recorded[a]
      BY <2>3, <3>1
    <3>5. Atomic!Record(a)
      BY <2>1, <3>2, <3>3, <3>4 DEF Atomic!Record
    <3>. QED
      BY <1>0, <3>5 DEF Atomic!Next
  <2>. QED
    BY <2>2, <2>3
<1>2. ASSUME NEW c \in Copies, NEW a \in Assets, CopyBuys(c, a) \/ CopyBuyLost(c, a) \/ CopySells(c, a)
      PROVE  UNCHANGED Atomic!vars
  BY <1>2, BooksAlone DEF CopyBuys, CopyBuyLost, CopySells, check
<1>3. CASE Fetch \/ UNCHANGED vars \/ \E a \in Assets : ApiCatchesUp(a)
  BY <1>3, BooksAlone DEF Fetch, ApiCatchesUp, check, vars
<1>4. CASE Decide
  <2>1. soldNow = Nothing /\ soldNow' = Nothing /\ UNCHANGED <<entry, totals>>
    BY <1>0, <1>4 DEF Decide, TypeOK, PlanInv, Nothing
  <2>. QED
    BY <2>1, BooksAlone
<1>5. CASE Settle
  <2>1. /\ entry' = [a \in Assets |-> IF entry[a] > plan[a] THEN entry[a] - plan[a] ELSE 0]
        /\ reduced' = [a \in Assets |-> reduced[a] + plan[a]]
        /\ soldNow' = Nothing
        /\ UNCHANGED <<recorded, exitSold, unsettled>>
    BY <1>5 DEF Settle
  <2>2. ASSUME NEW a \in Assets
        PROVE /\ plan[a] \in Nat /\ plan[a] <= entry[a] /\ soldNow[a] \in Nat /\ soldNow[a] <= plan[a]
              /\ entry'[a] = entry[a] - plan[a] /\ reduced'[a] = reduced[a] + plan[a]
              /\ soldNow'[a] = 0 /\ exitSold'[a] = exitSold[a]
              /\ entry[a] \in Nat /\ reduced[a] \in Nat /\ exitSold[a] \in Nat
    BY <1>0, <2>1, NothingZero DEF TypeOK, PlanInv
  <2>3. Atomic!Exit
    BY <2>1, <2>2 DEF Atomic!Exit, Atomic!Sells, Atomic!TakesOff
  <2>. QED
    BY <1>0, <2>3 DEF Atomic!Next
<1>6. ASSUME NEW a \in Assets, Sell(a) PROVE UNCHANGED Atomic!vars
  <2>1. PICK fill \in 1..Least(plan[a], wallet[a]) :
           /\ soldNow' = [soldNow EXCEPT ![a] = @ + fill]
           /\ exitSold' = [exitSold EXCEPT ![a] = @ + fill]
    BY <1>6 DEF Sell
  <2>2. fill \in Nat
    BY <1>0, <2>1 DEF TypeOK, Least
  <2>3. \A b \in Assets : exitSold'[b] - soldNow'[b] = exitSold[b] - soldNow[b]
    BY <1>0, <2>1, <2>2 DEF TypeOK
  <2>4. [b \in Assets |-> exitSold'[b] - soldNow'[b]] = [b \in Assets |-> exitSold[b] - soldNow[b]]
    BY <2>3
  <2>5. UNCHANGED <<entry, recorded, reduced, unsettled>>
    BY <1>6 DEF Sell
  <2>. QED
    BY <2>4, <2>5 DEF Atomic!vars
<1>7. ASSUME NEW a \in Assets, SellFails(a) PROVE [Atomic!Next]_(Atomic!vars)
  <2>1. PICK fill \in 0..Least(plan[a], wallet[a]) :
           /\ exitSold' = [exitSold EXCEPT ![a] = @ + fill]
           /\ unsettled' = [b \in Assets |-> unsettled[b] + soldNow[b] + (IF b = a THEN fill ELSE 0)]
    BY <1>7 DEF SellFails
  <2>2. a \notin sold /\ soldNow' = Nothing /\ UNCHANGED <<entry, recorded, reduced>>
    BY <1>7 DEF SellFails
  <2>3. fill \in Nat /\ fill <= plan[a] /\ soldNow[a] = 0
    BY <1>0, <2>1, <2>2 DEF TypeOK, Least, PlanInv
  <2>4. ASSUME NEW b \in Assets
        PROVE /\ entry[b] \in Nat /\ soldNow[b] \in Nat /\ exitSold[b] \in Nat /\ unsettled[b] \in Nat
              /\ soldNow'[b] = 0 /\ soldNow[b] <= plan[b] /\ plan[b] <= entry[b] /\ plan[b] \in Nat
              /\ exitSold'[b] = exitSold[b] + (IF b = a THEN fill ELSE 0)
              /\ unsettled'[b] = unsettled[b] + soldNow[b] + (IF b = a THEN fill ELSE 0)
    BY <1>0, <2>1, <2>2, NothingZero DEF TypeOK, PlanInv
  <2>5. Atomic!Fail
    BY <2>2, <2>3, <2>4 DEF Atomic!Fail, Atomic!Sells
  <2>. QED
    BY <1>0, <2>5 DEF Atomic!Next
<1>8. CASE Restart
  <2>1. /\ entry' = Nothing /\ recorded' = Nothing /\ reduced' = Nothing
        /\ soldNow' = Nothing /\ exitSold' = Nothing /\ unsettled' = Nothing
    BY <1>8 DEF Restart
  <2>2. [a \in Assets |-> exitSold'[a] - soldNow'[a]] = Nothing
    BY <2>1, NothingZero DEF Nothing
  <2>3. Atomic!Restart
    BY <2>1, <2>2 DEF Nothing, Atomic!Restart, Atomic!Nothing
  <2>. QED
    BY <1>0, <2>3 DEF Atomic!Next
<1>. QED
  BY <1>1, <1>2, <1>3, <1>4, <1>5, <1>6, <1>7, <1>8 DEF Next, CopyStep, CheckStep

\* A check, its two critical sections and the orders between them, is as good
\* as one that happens at once, for any copies, fills and failures meanwhile.
THEOREM ExitImplementsAtomic == Spec => ImplementsAtomicExit
<1>1. IInv /\ Atomic!TypeOK' /\ [Next]_vars => [Atomic!Next]_(Atomic!vars)
  BY AtomicStep
<1>. QED
  BY <1>1, AtomicTyped, AtomicInit, Invariance, PTL DEF Spec, Atomic!Spec, ImplementsAtomicExit

\* Every share recorded is still in an entry or was taken off once, and an
\* entry shrinks by what a check takes off and by nothing else: no copy that
\* is recorded between a decision and its settlement is lost.
THEOREM ExitLedgerConserved == Spec => []Atomic!Books /\ Atomic!OnlyTakenOff
<1>1. IInv => Atomic!Books
  BY AtomicTyped DEF IInv, TypeOK, LedgerConserved, SoldInv, Atomic!Books
<1>2. Atomic!Books /\ [Atomic!Next]_(Atomic!vars) => [Atomic!Shrinks]_(Atomic!vars)
  <2> SUFFICES ASSUME Atomic!Books, Atomic!Next PROVE Atomic!Shrinks
    OBVIOUS
  <2>0. entry \in [Assets -> Nat] /\ recorded \in [Assets -> Nat]
    BY DEF Atomic!Books, Atomic!TypeOK
  <2>1. CASE Atomic!Exit
    <3>1. ASSUME NEW a \in Assets, entry'[a] < entry[a] PROVE entry[a] - entry'[a] = Atomic!TakesOff(a)
      <4>1. entry'[a] = entry[a] - Atomic!TakesOff(a) /\ Atomic!TakesOff(a) \in Int
        BY <2>1 DEF Atomic!Exit, Atomic!Next, Atomic!TypeOK, Atomic!TakesOff, Atomic!Books
      <4>. QED
        BY <2>0, <4>1
    <3>. QED
      BY <3>1 DEF Atomic!Shrinks
  <2>2. CASE Atomic!Fail
    <3>1. entry' = entry
      BY <2>2 DEF Atomic!Fail
    <3>2. ASSUME NEW a \in Assets PROVE ~(entry'[a] < entry[a])
      BY <2>0, <3>1
    <3>. QED
      BY <3>2 DEF Atomic!Shrinks
  <2>3. ASSUME NEW a \in Assets, Atomic!Record(a) PROVE Atomic!Shrinks
    <3>1. /\ recorded'[a] > recorded[a] /\ recorded'[a] \in Nat
          /\ entry' = [entry EXCEPT ![a] = entry[a] + (recorded'[a] - recorded[a])]
      BY <2>3 DEF Atomic!Record, Atomic!Next, Atomic!TypeOK
    <3>2. ASSUME NEW b \in Assets PROVE ~(entry'[b] < entry[b])
      BY <2>0, <3>1
    <3>. QED
      BY <3>2 DEF Atomic!Shrinks
  <2>4. CASE Atomic!Restart
    BY <2>4 DEF Atomic!Shrinks
  <2>. QED
    BY <2>1, <2>2, <2>3, <2>4 DEF Atomic!Next
<1>3. IInv /\ Atomic!TypeOK' /\ [Next]_vars => [Atomic!Next]_(Atomic!vars)
  BY AtomicStep
<1>. QED
  BY <1>1, <1>2, <1>3, AtomicTyped, Invariance, PTL DEF Spec, Atomic!OnlyTakenOff

-----------------------------------------------------------------------------
(* A check comes to its end. *)

\* The orders a check has still to place.
ToSell == {a \in Assets : plan[a] > 0 /\ a \notin sold}

\* The places of a check in progress and the steps that follow one another.
CheckAdvances ==
    pc # "idle" =>
        \/ pc' = "idle"
        \/ pc = "fetched" /\ pc' = "selling"
        \/ pc' = pc /\ plan' = plan /\ ToSell' \subseteq ToSell /\ ToSell' # ToSell
        \/ ~CheckStep /\ UNCHANGED <<pc, plan, ToSell>>

\* The safety half of ChecksGoOn: a check that has begun gets on with each of
\* its own steps, to the decision, through its orders, each placed once, and to
\* its settlement or failure, and what copies do meanwhile adds no order to it.
THEOREM ExitCheckAdvances == Spec => [][CheckAdvances]_vars
<1>1. ASSUME Next PROVE CheckAdvances
  <2>1. CASE Decide
    BY <2>1 DEF Decide, CheckAdvances
  <2>2. CASE Settle \/ Restart \/ \E a \in Assets : SellFails(a)
    BY <2>2 DEF Settle, Restart, SellFails, CheckAdvances
  <2>3. ASSUME NEW a \in Assets, Sell(a) PROVE CheckAdvances
    <3>1. /\ pc' = pc /\ plan' = plan /\ sold' = sold \cup {a}
          /\ plan[a] > 0 /\ a \notin sold
      BY <2>3 DEF Sell
    <3>2. ToSell' = ToSell \ {a} /\ a \in ToSell
      BY <3>1 DEF ToSell
    <3>. QED
      BY <3>1, <3>2 DEF CheckAdvances
  <2>4. CASE ~CheckStep /\ ~Restart
    <3>1. CASE Fetch
      BY <3>1 DEF Fetch, CheckAdvances
    <3>2. ASSUME NEW c \in Copies, CopyStep(c) PROVE UNCHANGED check
      BY <3>2 DEF CopyStep, RecordEntry, CopyBuys, CopyBuyLost, CopySells
    <3>3. ASSUME NEW a \in Assets, ApiCatchesUp(a) PROVE UNCHANGED check
      BY <3>3 DEF ApiCatchesUp
    <3>4. ASSUME UNCHANGED check PROVE UNCHANGED <<pc, plan, ToSell>>
      BY <3>4 DEF check, ToSell
    <3>. QED
      BY <1>1, <2>4, <3>1, <3>2, <3>3, <3>4 DEF Next, CheckAdvances
  <2>. QED
    BY <1>1, <2>1, <2>2, <2>3, <2>4 DEF CheckStep
<1>. QED
  BY <1>1, PTL DEF Spec
=============================================================================
