-------------------------- MODULE ClobClientProofs --------------------------
(***************************************************************************)
(* Theorems about ClobClient, for every set of callers, warmed or cold.    *)
(*                                                                         *)
(* The argument: at most one creation job is outstanding, and only while   *)
(* the state is Creating (JobInv); the number of clients created is tied   *)
(* to the state (CountInv); what a call returned is what is published      *)
(* (HandleInv).  For a warmed program, the state is Ready from the moment  *)
(* a task other than main can run (WarmInv).                               *)
(* The same invariant maps every step to one of OnceCell.                  *)
(***************************************************************************)
EXTENDS ClobClient, TLAPS

JobInv ==
    /\ \A c, d \in Callers : job[c] # "none" /\ job[d] # "none" => c = d
    /\ \A c \in Callers : job[c] # "none" => clobState = "Creating"
    /\ \A c \in Callers : pc[c] = "awaitJob" => job[c] # "none"

CountInv ==
    /\ created <= 1
    /\ clobState = "Empty" => created = 0
    /\ clobState = "Ready" => clobHandle = 1 /\ created = 1
    /\ \A c \in Callers : job[c] \in {"running", "err", "panic"} => created = 0
    /\ \A c \in Callers : job[c] = "ok" => created = 1 /\ jobHandle[c] = 1

HandleInv ==
    /\ \A c \in Callers : pc[c] = "notify" => clobState = "Ready" /\ jobHandle[c] = 1
    /\ \A c \in Callers : pc[c] = "returned" => clobState = "Ready"
    /\ \A c \in Callers : got[c] # 0 => clobState = "Ready" /\ got[c] = 1

WarmInv ==
    warm => /\ phase = "running" => clobState = "Ready"
            /\ \A c \in Callers \ {Main} :
                  /\ phase # "running" => pc[c] = "idle"
                  /\ pc[c] \notin {"sawCreating", "waiting", "awaitJob", "notify"}

IInv == TypeOK /\ JobInv /\ CountInv /\ HandleInv /\ WarmInv

\* Initially no job runs and nothing is published.
LEMMA InitIInv == Init => IInv
  BY CallersAssumption
     DEF Init, IInv, TypeOK, JobInv, CountInv, HandleInv, WarmInv, PCs, Jobs

\* Every action, of any caller, preserves the types.
LEMMA TypeStep == TypeOK /\ [Next]_vars => TypeOK'
<1> SUFFICES ASSUME TypeOK, [Next]_vars PROVE TypeOK'
  OBVIOUS
<1> USE CallersAssumption DEF TypeOK, PCs, Jobs, shared, setup
<1>1. CASE UNCHANGED vars
  BY <1>1 DEF vars
<1>2. CASE FinishBoot
  BY <1>2 DEF FinishBoot
<1>3. CASE Exited
  BY <1>3 DEF Exited, vars
<1>4. ASSUME NEW c \in Callers, Call(c) \/ Cancel(c) PROVE TypeOK'
  BY <1>4 DEF Call, Cancel
<1>5. ASSUME NEW c \in Callers, JobCreates(c) \/ JobFails(c) PROVE TypeOK'
  BY <1>5 DEF JobCreates, JobFails
<1>6. ASSUME NEW c \in Callers, Progress(c) PROVE TypeOK'
  <2>1. CASE FindReady(c) \/ FindCreating(c) \/ FindEmptyBadConfig(c)
    BY <2>1 DEF FindReady, FindCreating, FindEmptyBadConfig
  <2>2. CASE FindEmpty(c) \/ Register(c)
    BY <2>2 DEF FindEmpty, Register
  <2>3. CASE ResetOnError(c) \/ FailOnPanic(c)
    BY <2>3 DEF ResetOnError, FailOnPanic
  <2>4. CASE Publish(c) \/ NotifyWaiters(c)
    BY <2>4 DEF Publish, NotifyWaiters
  <2>. QED
    BY <1>6, <2>1, <2>2, <2>3, <2>4 DEF Progress
<1>. QED
  BY <1>1, <1>2, <1>3, <1>4, <1>5, <1>6 DEF Next

\* Every action preserves the inductive invariant.
LEMMA StepIInv == IInv /\ [Next]_vars => IInv'
<1> SUFFICES ASSUME IInv, [Next]_vars PROVE IInv'
  OBVIOUS
<1>0. TypeOK /\ TypeOK'
  BY TypeStep DEF IInv
<1> USE <1>0, CallersAssumption
        DEF IInv, TypeOK, JobInv, CountInv, HandleInv, WarmInv, PCs, Jobs, shared, setup, Resting
<1>1. CASE UNCHANGED vars
  BY <1>1 DEF vars
<1>2. CASE FinishBoot
  BY <1>2 DEF FinishBoot
<1>3. CASE Exited
  BY <1>3 DEF Exited, vars
<1>4. ASSUME NEW c \in Callers, Call(c) PROVE IInv'
  BY <1>4 DEF Call, MayCall
<1>5. ASSUME NEW c \in Callers, Cancel(c) PROVE IInv'
  BY <1>5 DEF Cancel
<1>6. ASSUME NEW c \in Callers, JobCreates(c) PROVE IInv'
  BY <1>6 DEF JobCreates
<1>7. ASSUME NEW c \in Callers, JobFails(c) PROVE IInv'
  BY <1>7 DEF JobFails
<1>8. ASSUME NEW c \in Callers, Progress(c) PROVE IInv'
  <2>1. CASE FindReady(c)
    BY <2>1 DEF FindReady
  <2>2. CASE FindCreating(c)
    BY <2>2 DEF FindCreating
  <2>3. CASE FindEmptyBadConfig(c)
    BY <2>3 DEF FindEmptyBadConfig
  <2>4. CASE FindEmpty(c)
    BY <2>4 DEF FindEmpty
  <2>5. CASE Register(c)
    BY <2>5 DEF Register
  <2>6. CASE ResetOnError(c)
    BY <2>6 DEF ResetOnError
  <2>7. CASE FailOnPanic(c)
    BY <2>7 DEF FailOnPanic
  <2>8. CASE Publish(c)
    BY <2>8 DEF Publish
  <2>9. CASE NotifyWaiters(c)
    BY <2>9 DEF NotifyWaiters
  <2>. QED
    BY <1>8, <2>1, <2>2, <2>3, <2>4, <2>5, <2>6, <2>7, <2>8, <2>9 DEF Progress
<1>. QED
  BY <1>1, <1>2, <1>3, <1>4, <1>5, <1>6, <1>7, <1>8 DEF Next

\* The inductive invariant holds in every reachable state.
LEMMA Invariance == Spec => []IInv
  BY InitIInv, StepIInv, PTL DEF Spec

\* ensure_clob_client keeps its variables within their types.
THEOREM ClobTypeCorrect == Spec => []TypeOK
<1>1. IInv => TypeOK
  BY DEF IInv
<1>. QED
  BY <1>1, Invariance, PTL

\* For any number of callers, whatever fails, panics or is dropped, the
\* process creates one CLOB client at most.
THEOREM ClobOneClient == Spec => []OneClient
<1>1. IInv => OneClient
  BY DEF IInv, CountInv, OneClient
<1>. QED
  BY <1>1, Invariance, PTL

\* ensure_clob_client implements the cell that is filled once: publishing fills
\* it, finding Ready and notifying return what it holds.
THEOREM ClobImplementsOnceCell == Spec => ImplementsOnceCell
<1>1. Init => Cell!Init
  BY DEF Init, Cell!Init
<1>2. IInv /\ [Next]_vars => [Cell!Next]_(Cell!vars)
  <2> SUFFICES ASSUME IInv, [Next]_vars PROVE [Cell!Next]_(Cell!vars)
    OBVIOUS
  <2> USE DEF IInv, TypeOK, JobInv, CountInv, HandleInv, shared, setup, Cell!vars
  <2>1. CASE UNCHANGED vars \/ FinishBoot \/ Exited
    BY <2>1 DEF vars, FinishBoot, Exited
  <2>2. ASSUME NEW c \in Callers, Call(c) PROVE [Cell!Next]_(Cell!vars)
    BY <2>2 DEF Call, Cell!Next, Cell!Call
  <2>3. ASSUME NEW c \in Callers, Cancel(c) \/ JobCreates(c) \/ JobFails(c)
        PROVE  [Cell!Next]_(Cell!vars)
    BY <2>3 DEF Cancel, JobCreates, JobFails
  <2>4. ASSUME NEW c \in Callers, FindReady(c) PROVE [Cell!Next]_(Cell!vars)
    BY <2>4 DEF FindReady, Cell!Next, Cell!Return
  <2>5. ASSUME NEW c \in Callers, FindCreating(c) \/ FindEmptyBadConfig(c) \/ FindEmpty(c)
        PROVE  [Cell!Next]_(Cell!vars)
    BY <2>5 DEF FindCreating, FindEmptyBadConfig, FindEmpty
  <2>6. ASSUME NEW c \in Callers, Register(c) \/ ResetOnError(c) \/ FailOnPanic(c)
        PROVE  [Cell!Next]_(Cell!vars)
    BY <2>6 DEF Register, ResetOnError, FailOnPanic
  <2>7. ASSUME NEW c \in Callers, Publish(c) PROVE [Cell!Next]_(Cell!vars)
    BY <2>7 DEF Publish, Cell!Next, Cell!Fill
  <2>8. ASSUME NEW c \in Callers, NotifyWaiters(c) PROVE [Cell!Next]_(Cell!vars)
    BY <2>8 DEF NotifyWaiters, Cell!Next, Cell!Return
  <2>. QED
    BY <2>1, <2>2, <2>3, <2>4, <2>5, <2>6, <2>7, <2>8 DEF Next, Progress
<1>. QED
  BY <1>1, <1>2, Invariance, PTL DEF Spec, ImplementsOnceCell, Cell!Spec

\* Therefore all callers go on with one and the same client, for ever: what
\* any implementation of OnceCell promises.
THEOREM ClobAgreement == Spec => []Cell!Agreement /\ Cell!FilledOnce
<1>1. Cell!Init => Cell!Agreement
  BY DEF Cell!Init, Cell!Agreement
<1>2. Cell!Agreement /\ [Cell!Next]_(Cell!vars) => Cell!Agreement'
  BY DEF Cell!Agreement, Cell!Next, Cell!vars, Cell!Fill, Cell!Call, Cell!Return
<1>3. [Cell!Next]_(Cell!vars) => [Cell!KeepsCell]_(Cell!vars)
  BY DEF Cell!KeepsCell, Cell!Next, Cell!vars, Cell!Fill, Cell!Call, Cell!Return
<1>. QED
  BY <1>1, <1>2, <1>3, ClobImplementsOnceCell, PTL
     DEF ImplementsOnceCell, Cell!Spec, Cell!FilledOnce

\* In a warmed program no task but main meets the creation of the client.
THEOREM ClobWarmNeverWaits == Spec => []WarmCallersNeverWait
<1>1. IInv => WarmCallersNeverWait
  BY DEF IInv, WarmInv, WarmCallersNeverWait
<1>. QED
  BY <1>1, Invariance, PTL
-----------------------------------------------------------------------------
(* The part of EveryCallEnds that needs no fairness, and why it is about   *)
(* warmed programs.                                                        *)

\* While main boots a warmed program it is alone, and it creates the client at
\* its only call.
BootInv ==
    warm => /\ pc[Main] \notin {"sawCreating", "waiting"}
            /\ pc[Main] = "lock" => clobState # "Creating"
            /\ phase = "boot" /\ pc[Main] = "idle" => clobState = "Empty"

\* What a call in progress finds lets it go on: the state is decided, or a job
\* of its own is outstanding, or it has only to notify.
CanGoOn(c) ==
    \/ pc[c] = "lock" /\ clobState \in {"Empty", "Ready"}
    \/ pc[c] = "awaitJob" /\ job[c] # "none"
    \/ pc[c] = "notify"

WarmCallsGoOn == warm => \A c \in Callers : pc[c] \in Resting \/ CanGoOn(c)

\* The steps a call of a warmed program has still to take.
Remaining(place, outcome) ==
    IF place = "lock" THEN 4
    ELSE IF place = "awaitJob" THEN IF outcome = "running" THEN 3 ELSE 2
    ELSE IF place = "notify" THEN 1 ELSE 0

Closer(c) == Remaining(pc'[c], job'[c]) < Remaining(pc[c], job[c])

Stays(c) == pc'[c] = pc[c] /\ job'[c] = job[c]

\* A step of a call in progress, or of its job, brings the call closer to its
\* end; steps of others leave it where it is.
WarmCallsAdvance ==
    warm => \A c \in Callers :
        pc[c] \notin Resting => Closer(c) \/ Stays(c)

\* The boot of a warmed program stays alone.
LEMMA BootStep == IInv /\ BootInv /\ [Next]_vars => BootInv'
<1> SUFFICES ASSUME IInv, BootInv, [Next]_vars PROVE BootInv'
  OBVIOUS
<1> USE CallersAssumption
        DEF IInv, TypeOK, JobInv, CountInv, HandleInv, WarmInv, BootInv, PCs, Jobs, shared, setup,
            Resting
<1>1. CASE UNCHANGED vars \/ FinishBoot \/ Exited
  BY <1>1 DEF vars, FinishBoot, Exited
<1>2. ASSUME NEW c \in Callers, Call(c) \/ Cancel(c) PROVE BootInv'
  BY <1>2 DEF Call, Cancel, MayCall
<1>3. ASSUME NEW c \in Callers, JobCreates(c) \/ JobFails(c) PROVE BootInv'
  BY <1>3 DEF JobCreates, JobFails
<1>4. ASSUME NEW c \in Callers, FindReady(c) \/ FindCreating(c) \/ FindEmptyBadConfig(c)
      PROVE  BootInv'
  BY <1>4 DEF FindReady, FindCreating, FindEmptyBadConfig
<1>5. ASSUME NEW c \in Callers, FindEmpty(c) \/ Register(c) PROVE BootInv'
  BY <1>5 DEF FindEmpty, Register
<1>6. ASSUME NEW c \in Callers, ResetOnError(c) \/ FailOnPanic(c) PROVE BootInv'
  BY <1>6 DEF ResetOnError, FailOnPanic
<1>7. ASSUME NEW c \in Callers, Publish(c) \/ NotifyWaiters(c) PROVE BootInv'
  BY <1>7 DEF Publish, NotifyWaiters
<1>. QED
  BY <1>1, <1>2, <1>3, <1>4, <1>5, <1>6, <1>7 DEF Next, Progress

\* In a warmed program no call waits for another call, and each is at most four
\* steps from its end, whoever else calls, fails or is dropped.
THEOREM ClobWarmCallsEnd == Spec => []WarmCallsGoOn /\ [][WarmCallsAdvance]_vars
<1>1. Init => BootInv
  BY CallersAssumption DEF Init, BootInv
<1>2. IInv /\ BootInv => WarmCallsGoOn
  BY CallersAssumption DEF IInv, TypeOK, JobInv, WarmInv, BootInv, WarmCallsGoOn, CanGoOn, PCs, Resting
<1>3. IInv /\ BootInv /\ [Next]_vars => [WarmCallsAdvance]_vars
  <2> SUFFICES ASSUME IInv, BootInv, Next, warm, NEW d \in Callers, pc[d] \notin Resting
               PROVE  Closer(d) \/ Stays(d)
    BY DEF WarmCallsAdvance
  <2>0. pc[d] \in {"lock", "awaitJob", "notify"} /\ CanGoOn(d)
    BY CallersAssumption
       DEF IInv, TypeOK, JobInv, WarmInv, BootInv, CanGoOn, PCs, Resting
  <2>1. pc \in [Callers -> PCs] /\ job \in [Callers -> Jobs] /\ pc[d] # "waiting"
    BY <2>0 DEF IInv, TypeOK
  <2>2. CASE FinishBoot \/ Exited
    BY <2>2 DEF FinishBoot, Exited, vars, Stays
  <2>3. ASSUME NEW c \in Callers \ {d},
               Call(c) \/ Progress(c) \/ JobCreates(c) \/ JobFails(c) \/ Cancel(c)
        PROVE  Stays(d)
    <3>1. CASE NotifyWaiters(c)
      BY <2>1, <3>1 DEF NotifyWaiters, Stays
    <3>2. CASE ~NotifyWaiters(c)
      <4>1. \E place : pc' = [pc EXCEPT ![c] = place] \/ pc' = pc
        BY <2>3, <3>2 DEF Call, Progress, JobCreates, JobFails, Cancel, FindReady, FindCreating,
           FindEmptyBadConfig, FindEmpty, Register, ResetOnError, FailOnPanic, Publish
      <4>2. \E outcome : job' = [job EXCEPT ![c] = outcome] \/ job' = job
        BY <2>3, <3>2 DEF Call, Progress, JobCreates, JobFails, Cancel, FindReady, FindCreating,
           FindEmptyBadConfig, FindEmpty, Register, ResetOnError, FailOnPanic, Publish
      <4>. QED
        BY <2>1, <2>3, <4>1, <4>2 DEF Stays
    <3>. QED
      BY <3>1, <3>2
  <2>4. ASSUME Call(d) \/ Progress(d) \/ JobCreates(d) \/ JobFails(d) \/ Cancel(d)
        PROVE  Closer(d)
    <3> USE <2>0, <2>1 DEF Closer, Remaining, Resting, CanGoOn
    <3>1. CASE Call(d) \/ Cancel(d) \/ FindReady(d) \/ FindCreating(d) \/ FindEmptyBadConfig(d)
      BY <3>1 DEF Call, Cancel, FindReady, FindCreating, FindEmptyBadConfig
    <3>2. CASE JobCreates(d) \/ JobFails(d)
      <4>1. pc[d] = "awaitJob" /\ pc'[d] = "awaitJob" /\ job[d] = "running" /\ job'[d] # "running"
        BY <3>2 DEF JobCreates, JobFails, IInv, JobInv, HandleInv
      <4>. QED
        BY <4>1
    <3>3. CASE FindEmpty(d) \/ Register(d)
      BY <3>3 DEF FindEmpty, Register
    <3>4. CASE ResetOnError(d) \/ FailOnPanic(d) \/ Publish(d)
      BY <3>4 DEF ResetOnError, FailOnPanic, Publish
    <3>5. CASE NotifyWaiters(d)
      BY <3>5 DEF NotifyWaiters
    <3>. QED
      BY <2>4, <3>1, <3>2, <3>3, <3>4, <3>5 DEF Progress
  <2>. QED
    BY <2>2, <2>3, <2>4 DEF Next
<1>. QED
  BY <1>1, <1>2, <1>3, BootStep, Invariance, PTL DEF Spec

\* A creation that panicked, or whose caller was dropped, has left Creating
\* behind: no call is left that could end it.
Abandoned == clobState = "Creating" /\ \A c \in Callers : pc[c] # "awaitJob"

StaysAbandoned == Abandoned => Abandoned'

\* In a cold program an abandoned creation is never repaired: the state stays
\* Creating, and whoever calls from then on waits for ever.  (Why the bots warm
\* the client, and why EveryCallEnds speaks of warmed programs.)
THEOREM ClobAbandonedForGood == Spec => [][StaysAbandoned]_vars
<1>1. IInv /\ Next => StaysAbandoned
  <2> SUFFICES ASSUME IInv, Next, Abandoned PROVE Abandoned'
    BY DEF StaysAbandoned
  <2> USE DEF IInv, TypeOK, Abandoned, shared, setup
  <2>1. CASE FinishBoot \/ Exited
    BY <2>1 DEF FinishBoot, Exited, vars
  <2>2. ASSUME NEW c \in Callers, Call(c) \/ Cancel(c) \/ JobCreates(c) \/ JobFails(c)
        PROVE  Abandoned'
    BY <2>2 DEF Call, Cancel, JobCreates, JobFails
  <2>3. ASSUME NEW c \in Callers, Progress(c) PROVE Abandoned'
    BY <2>3 DEF Progress, FindReady, FindCreating, FindEmptyBadConfig, FindEmpty, Register,
       ResetOnError, FailOnPanic, Publish, NotifyWaiters
  <2>. QED
    BY <2>1, <2>2, <2>3 DEF Next
<1>. QED
  BY <1>1, Invariance, PTL DEF Spec
=============================================================================
