----------------------------- MODULE AtomicExit -----------------------------
(***************************************************************************)
(* What run_exit_check does to the entries, as if a check were one step:   *)
(* it sells, of each asset, at most what the entry holds at that moment,   *)
(* and takes off the entries exactly what it ordered; or it fails, and     *)
(* takes off nothing whatever it has sold.                                 *)
(***************************************************************************)
EXTENDS Integers

CONSTANT Assets

VARIABLES entry,       \* tracked size of each asset
          recorded,    \* all that copies have recorded in it
          reduced,     \* all that checks have taken off it
          executed,    \* all that the exchange has executed for checks that ended
          unsettled    \* the part of it that failed checks have sold

vars == <<entry, recorded, reduced, executed, unsettled>>

Nothing == [a \in Assets |-> 0]

Init ==
    /\ entry = Nothing /\ recorded = Nothing /\ reduced = Nothing
    /\ executed = Nothing /\ unsettled = Nothing

Record(a) ==
    /\ recorded'[a] > recorded[a]
    /\ recorded' = [recorded EXCEPT ![a] = recorded'[a]]
    /\ entry' = [entry EXCEPT ![a] = entry[a] + (recorded'[a] - recorded[a])]
    /\ UNCHANGED <<reduced, executed, unsettled>>

\* What a step sells, and what it takes off.
Sells(a) == executed'[a] - executed[a]
TakesOff(a) == reduced'[a] - reduced[a]

Exit ==
    /\ \A a \in Assets :
          /\ 0 <= Sells(a) /\ Sells(a) <= TakesOff(a)
          /\ TakesOff(a) <= entry[a]
          /\ entry'[a] = entry[a] - TakesOff(a)
    /\ UNCHANGED <<recorded, unsettled>>

Fail ==
    /\ \A a \in Assets :
          /\ 0 <= Sells(a) /\ Sells(a) <= entry[a]
          /\ unsettled'[a] = unsettled[a] + Sells(a)
    /\ UNCHANGED <<entry, recorded, reduced>>

\* The process ends: entries are in memory only.
Restart ==
    /\ entry' = Nothing /\ recorded' = Nothing /\ reduced' = Nothing
    /\ executed' = Nothing /\ unsettled' = Nothing

TypeOK ==
    /\ entry \in [Assets -> Nat] /\ recorded \in [Assets -> Nat] /\ reduced \in [Assets -> Nat]
    /\ executed \in [Assets -> Nat] /\ unsettled \in [Assets -> Nat]

Next == TypeOK' /\ (Exit \/ Fail \/ Restart \/ \E a \in Assets : Record(a))

Spec == Init /\ [][Next]_vars

-----------------------------------------------------------------------------
\* Every share recorded is still in an entry or was taken off by a check, once;
\* and what was sold is within what was taken off or left behind by failures.
Books == TypeOK /\ \A a \in Assets :
    /\ entry[a] + reduced[a] = recorded[a]
    /\ executed[a] <= reduced[a] + unsettled[a]

\* An entry shrinks only by what a check takes off it, which never cuts into
\* what a copy records meanwhile; only a restart drops it.
Shrinks ==
    \/ Restart
    \/ \A a \in Assets : entry'[a] < entry[a] => entry[a] - entry'[a] = TakesOff(a)

OnlyTakenOff == [][Shrinks]_vars
=============================================================================
