------------------------------ MODULE OnceCell ------------------------------
(***************************************************************************)
(* What a caller of ensure_clob_client may rely on: there is one cell for  *)
(* the client, which is filled once and never emptied or filled anew, and  *)
(* a call returns either what the cell holds or nothing.                   *)
(***************************************************************************)
EXTENDS Naturals

CONSTANT Callers

VARIABLES cell,    \* the client, 0 while there is none
          got      \* what each caller's latest call has returned, 0: nothing

vars == <<cell, got>>

Init == cell = 0 /\ got = [c \in Callers |-> 0]

Fill ==
    /\ cell = 0
    /\ cell' \in Nat \ {0} /\ UNCHANGED got

Call(c) == got' = [got EXCEPT ![c] = 0] /\ UNCHANGED cell

Return(c) ==
    /\ cell # 0
    /\ got' = [got EXCEPT ![c] = cell] /\ UNCHANGED cell

Next == Fill \/ \E c \in Callers : Call(c) \/ Return(c)

Spec == Init /\ [][Next]_vars

-----------------------------------------------------------------------------
\* Every client that a call has returned is the one in the cell: no two
\* callers go on with different clients.
Agreement ==
    /\ cell \in Nat /\ got \in [Callers -> Nat]
    /\ \A c \in Callers : got[c] \in {0, cell}

\* The cell is never emptied and never filled anew.
KeepsCell == cell # 0 => cell' = cell

FilledOnce == [][KeepsCell]_vars
=============================================================================
