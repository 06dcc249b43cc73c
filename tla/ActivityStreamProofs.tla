------------------------ MODULE ActivityStreamProofs ------------------------
(***************************************************************************)
(* Theorems about ActivityStream, for any feed, concurrency, number of     *)
(* connections and number of tasks.                                        *)
(*                                                                         *)
(* The argument: slots are used in order (SlotInv); as long as nothing was *)
(* evicted, seen holds the id of every task of the present connection      *)
(* (SeenInv); what a task will report agrees with what happened to its     *)
(* order (FateInv); a permit is held from Acquire to Report exactly        *)
(* (PermitsConserved, which also bounds free).                             *)
(***************************************************************************)
EXTENDS ActivityStream, FiniteSetTheorems, TLAPS

SlotInv ==
    /\ up => conn >= 1
    /\ evicted \subseteq 1..conn
    /\ \A t \in Tasks : IF t <= spawned THEN pc[t] # "unused" /\ from[t] \in 1..conn
                        ELSE pc[t] = "unused" /\ from[t] = 0

SeenInv ==
    \A t \in Tasks : t <= spawned /\ from[t] = conn /\ conn \notin evicted => trade[t].id \in seen

FateInv ==
    \A t \in Tasks :
        /\ pc[t] \in {"unused", "queued", "running"} => ~ordered[t]
        /\ pc[t] = "filled" => status[t] = "ok" /\ ordered[t]
        /\ pc[t] \in {"reporting", "logging", "done"} =>
              /\ status[t] # "none"
              /\ status[t] = "ok" => ordered[t]
              /\ status[t] \in {"filtered", "skipped", "timeout"} => ~ordered[t]

IInv == TypeOK /\ SlotInv /\ SeenInv /\ TakenUpOnce /\ FateInv /\ PermitsConserved

\* The holders of a semaphore are finitely many.
LEMMA HoldersFinite ==
  ASSUME NEW c
  PROVE  IsFiniteSet(Holders(c)) /\ Cardinality(Holders(c)) \in Nat
<1>1. IsFiniteSet(Tasks)
  BY FS_Interval, StreamAssumption DEF Tasks
<1>2. Holders(c) \subseteq Tasks
  BY DEF Holders
<1>. QED
  BY <1>1, <1>2, FS_Subset, FS_CardinalityType

\* A step that changes neither where a task came from nor who holds a permit
\* leaves the holders alone.
LEMMA HoldersSame ==
  ASSUME TypeOK, TypeOK',
         \A t \in Tasks : pc'[t] \in Holding <=> pc[t] \in Holding,
         \A t \in Tasks : pc[t] \in Holding => from'[t] = from[t]
  PROVE  \A c \in Conns : Holders(c)' = Holders(c)
  BY DEF Holders

\* Initially no slot is used and every permit is free.
LEMMA InitIInv == Init => IInv
<1> SUFFICES ASSUME Init PROVE IInv
  OBVIOUS
<1>1. TypeOK
  <2>1. StreamTypeOK
    <3>1. simulation \in BOOLEAN /\ up \in BOOLEAN /\ evicted \subseteq Conns /\ seen \subseteq Ids
      BY DEF Init
    <3>2. conn \in 0..MaxConns /\ spawned \in 0..MaxTasks
      BY StreamAssumption DEF Init
    <3>. QED
      BY <3>1, <3>2 DEF StreamTypeOK
  <2>2. trade \in [Tasks -> Payloads \cup {NoTrade}] /\ from \in [Tasks -> 0..MaxConns]
    BY StreamAssumption DEF Init
  <2>3. pc \in [Tasks -> PCs] /\ status \in [Tasks -> Statuses] /\ ordered \in [Tasks -> BOOLEAN]
    BY DEF Init, PCs, Statuses
  <2>4. free \in [Conns -> 0..Concurrency]
    BY StreamAssumption DEF Init
  <2>. QED
    BY <2>1, <2>2, <2>3, <2>4 DEF TypeOK, TaskTypeOK
<1>2. SlotInv /\ SeenInv /\ TakenUpOnce /\ FateInv
  BY StreamAssumption DEF Init, SlotInv, SeenInv, TakenUpOnce, FateInv, Tasks
<1>3. ASSUME NEW c \in Conns PROVE free[c] + Cardinality(Holders(c)) = Concurrency
  <2>1. Holders(c) = {}
    BY DEF Init, Holders, Holding
  <2>. QED
    BY <2>1, FS_EmptySet, StreamAssumption DEF Init
<1>. QED
  BY <1>1, <1>2, <1>3 DEF IInv, PermitsConserved

\* The types are preserved; that a released permit fits needs the ledger of
\* permits.
LEMMA TypeStep == IInv /\ [Next]_vars => TypeOK'
<1> SUFFICES ASSUME IInv, [Next]_vars PROVE TypeOK'
  OBVIOUS
<1>0. StreamTypeOK /\ TaskTypeOK /\ SlotInv /\ PermitsConserved
  BY DEF IInv, TypeOK
<1>1. CASE UNCHANGED vars
  BY <1>0, <1>1 DEF vars, TypeOK, StreamTypeOK, TaskTypeOK
<1>2. CASE Connect \/ Disconnect
  <2>1. StreamTypeOK'
    <3>1. conn' \in 0..MaxConns
      BY <1>0, <1>2, StreamAssumption DEF Connect, Disconnect, StreamTypeOK
    <3>2. up' \in BOOLEAN /\ seen' \subseteq Ids /\ UNCHANGED <<simulation, spawned, evicted>>
      BY <1>0, <1>2 DEF Connect, Disconnect, StreamTypeOK
    <3>. QED
      BY <1>0, <3>1, <3>2 DEF StreamTypeOK
  <2>2. TaskTypeOK'
    BY <1>0, <1>2 DEF Connect, Disconnect, TaskTypeOK
  <2>. QED
    BY <2>1, <2>2 DEF TypeOK
<1>3. ASSUME NEW p \in Payloads, Deliver(p) PROVE TypeOK'
  <2>1. p.id \in Ids /\ conn \in Conns
    BY <1>0, <1>3 DEF Ids, Deliver, Fresh, SlotInv, StreamTypeOK, Conns
  <2>2. seen' \subseteq Ids /\ evicted' \subseteq Conns
    BY <1>0, <1>3, <2>1 DEF Deliver, Remember, StreamTypeOK
  <2>3. StreamTypeOK'
    BY <1>0, <1>3, <2>2, StreamAssumption DEF Deliver, StreamTypeOK
  <2>4. trade' \in [Tasks -> Payloads \cup {NoTrade}] /\ from' \in [Tasks -> 0..MaxConns]
    BY <1>0, <1>3 DEF Deliver, StreamTypeOK, TaskTypeOK
  <2>5. pc' \in [Tasks -> PCs] /\ status' \in [Tasks -> Statuses]
    BY <1>0, <1>3 DEF Deliver, TaskTypeOK, PCs, Statuses
  <2>. QED
    BY <1>0, <1>3, <2>3, <2>4, <2>5 DEF Deliver, TypeOK, TaskTypeOK
<1>4. ASSUME NEW t \in Tasks, TaskStep(t) PROVE TypeOK'
  <2>1. UNCHANGED stream
    BY <1>4 DEF TaskStep, Acquire, Skip, Succeed, Fail, Timeout, Record, Report
  <2>2. StreamTypeOK' /\ UNCHANGED <<trade, from>>
    BY <1>0, <2>1 DEF stream, StreamTypeOK
  <2>3. pc' \in [Tasks -> PCs] /\ status' \in [Tasks -> Statuses] /\ ordered' \in [Tasks -> BOOLEAN]
    BY <1>0, <1>4 DEF TaskStep, Acquire, Skip, Succeed, Fail, Timeout, Record, Report,
       TaskTypeOK, PCs, Statuses
  <2>4. free' \in [Conns -> 0..Concurrency]
    <3>0. pc[t] # "unused" => from[t] \in Conns
      <4>1. 1..conn \subseteq Conns
        BY <1>0, StreamAssumption DEF StreamTypeOK, Conns
      <4>. QED
        BY <1>0, <4>1 DEF SlotInv
    <3>1. CASE Acquire(t)
      BY <1>0, <3>0, <3>1, StreamAssumption DEF Acquire, TaskTypeOK
    <3>2. CASE Report(t) /\ pc[t] = "reporting"
      <4>1. from[t] \in Conns /\ t \in Holders(from[t])
        BY <3>0, <3>2 DEF Holders, Holding
      <4>2. Cardinality(Holders(from[t])) # 0
        BY <4>1, HoldersFinite, FS_EmptySet
      <4>3. free[from[t]] + 1 \in 0..Concurrency
        BY <1>0, <4>1, <4>2, HoldersFinite, StreamAssumption DEF PermitsConserved, TaskTypeOK
      <4>. QED
        BY <1>0, <3>2, <4>1, <4>3 DEF Report, TaskTypeOK
    <3>3. CASE ~Acquire(t) /\ ~(Report(t) /\ pc[t] = "reporting")
      BY <1>0, <1>4, <3>3 DEF TaskStep, Skip, Succeed, Fail, Timeout, Record, Report, TaskTypeOK
    <3>. QED
      BY <3>1, <3>2, <3>3
  <2>. QED
    BY <1>0, <2>2, <2>3, <2>4 DEF TypeOK, TaskTypeOK
<1>. QED
  BY <1>1, <1>2, <1>3, <1>4 DEF Next

\* A task step touches the stream's variables in no way.
LEMMA TaskStepStream ==
  ASSUME NEW t \in Tasks, TaskStep(t)
  PROVE  UNCHANGED stream
  BY DEF TaskStep, Acquire, Skip, Succeed, Fail, Timeout, Record, Report

\* Slots, seen ids and the uniqueness of tasks are preserved.
LEMMA SlotStep == IInv /\ [Next]_vars => (SlotInv /\ SeenInv /\ TakenUpOnce)'
<1> SUFFICES ASSUME IInv, [Next]_vars PROVE (SlotInv /\ SeenInv /\ TakenUpOnce)'
  OBVIOUS
<1>0. TypeOK /\ TypeOK'
  BY TypeStep DEF IInv
<1> USE StreamAssumption DEF SlotInv, SeenInv, TakenUpOnce
<1>1. CASE UNCHANGED vars
  BY <1>1 DEF vars, IInv
<1>2. CASE Connect
  BY <1>0, <1>2 DEF Connect, IInv, TypeOK, StreamTypeOK, TaskTypeOK, Tasks
<1>3. CASE Disconnect
  BY <1>0, <1>3 DEF Disconnect, IInv
<1>4. ASSUME NEW p \in Payloads, Deliver(p) PROVE (SlotInv /\ SeenInv /\ TakenUpOnce)'
  <2> DEFINE new == spawned + 1
  <2>1. /\ up /\ conn >= 1 /\ p.id \notin seen /\ conn' = conn /\ up' = up
        /\ spawned' = new /\ new \in Tasks /\ pc[new] = "unused"
        /\ from' = [from EXCEPT ![new] = conn] /\ trade' = [trade EXCEPT ![new] = p]
        /\ pc'[new] # "unused" /\ \A t \in Tasks \ {new} : pc'[t] = pc[t]
    BY <1>0, <1>4 DEF Deliver, Fresh, IInv, TypeOK, StreamTypeOK, TaskTypeOK, Tasks
  <2>2. /\ p.id \in seen'
        /\ evicted' = evicted \/ evicted' = evicted \cup {conn}
        /\ conn \notin evicted' => seen' = seen \cup {p.id}
    BY <1>4 DEF Deliver, Remember
  <2>3. /\ \A t \in 1..spawned : t \in Tasks /\ t # new /\ from'[t] = from[t] /\ trade'[t] = trade[t]
        /\ from'[new] = conn /\ trade'[new] = p
    BY <1>0, <2>1 DEF TypeOK, StreamTypeOK, TaskTypeOK, Tasks
  <2>4. SlotInv'
    BY <1>0, <2>1, <2>2, <2>3 DEF IInv, TypeOK, StreamTypeOK, TaskTypeOK, Tasks
  <2>5. SeenInv'
    BY <1>0, <2>1, <2>2, <2>3 DEF IInv, TypeOK, StreamTypeOK, TaskTypeOK, Tasks
  <2>6. \A t \in 1..spawned : from[t] = conn /\ conn \notin evicted' => trade[t].id # p.id
    BY <1>0, <2>1, <2>2, <2>3 DEF IInv, TypeOK, StreamTypeOK, TaskTypeOK, Tasks
  <2>7. TakenUpOnce'
    <3> SUFFICES ASSUME NEW s \in 1..new, NEW t \in 1..new, from'[s] = from'[t],
                        trade'[s].id = trade'[t].id, from'[s] \notin evicted'
                 PROVE  s = t
      BY <2>1
    <3>0. spawned \in Nat
      BY <1>0 DEF TypeOK, StreamTypeOK, TaskTypeOK
    <3>1. CASE s \in 1..spawned /\ t \in 1..spawned
      BY <2>2, <2>3, <3>1 DEF IInv
    <3>2. CASE s = new /\ t \in 1..spawned
      BY <2>3, <2>6, <3>2
    <3>3. CASE t = new /\ s \in 1..spawned
      BY <2>3, <2>6, <3>3
    <3>. QED
      BY <3>0, <3>1, <3>2, <3>3
  <2>. QED
    BY <2>4, <2>5, <2>7
<1>5. ASSUME NEW t \in Tasks, TaskStep(t) PROVE (SlotInv /\ SeenInv /\ TakenUpOnce)'
  <2>1. UNCHANGED stream
    BY <1>5, TaskStepStream
  <2>2. \A s \in Tasks : pc'[s] = "unused" <=> pc[s] = "unused"
    BY <1>0, <1>5 DEF TaskStep, Acquire, Skip, Succeed, Fail, Timeout, Record, Report, TypeOK, StreamTypeOK, TaskTypeOK
  <2>. QED
    BY <1>0, <2>1, <2>2 DEF stream, IInv, TypeOK, StreamTypeOK, TaskTypeOK, Tasks
<1>. QED
  BY <1>1, <1>2, <1>3, <1>4, <1>5 DEF Next

\* What a task reports goes on agreeing with what happened to its order.
LEMMA FateStep == IInv /\ [Next]_vars => FateInv'
<1> SUFFICES ASSUME IInv, [Next]_vars PROVE FateInv'
  OBVIOUS
<1>0. TypeOK
  BY DEF IInv
<1> USE <1>0 DEF FateInv, IInv, TypeOK, StreamTypeOK, TaskTypeOK, stream
<1>1. CASE UNCHANGED vars
  BY <1>1 DEF vars
<1>2. CASE Connect \/ Disconnect
  BY <1>2 DEF Connect, Disconnect
<1>3. ASSUME NEW p \in Payloads, Deliver(p) PROVE FateInv'
  BY <1>3, StreamAssumption DEF Deliver, SlotInv, Tasks
<1>4. ASSUME NEW t \in Tasks, Acquire(t) \/ Record(t) \/ Report(t) PROVE FateInv'
  BY <1>4 DEF Acquire, Record, Report
<1>5. ASSUME NEW t \in Tasks, Skip(t) \/ Succeed(t) \/ Timeout(t) PROVE FateInv'
  BY <1>5 DEF Skip, Succeed, Timeout
<1>6. ASSUME NEW t \in Tasks, Fail(t) PROVE FateInv'
  BY <1>6 DEF Fail
<1>. QED
  BY <1>1, <1>2, <1>3, <1>4, <1>5, <1>6 DEF Next, TaskStep

\* Acquire takes the permit it counts, Report gives it back, no other step
\* does either.
LEMMA PermitStep == IInv /\ [Next]_vars => PermitsConserved'
<1> SUFFICES ASSUME IInv, [Next]_vars, NEW c \in Conns
             PROVE  (free[c] + Cardinality(Holders(c)) = Concurrency)'
  BY DEF PermitsConserved
<1>0. TypeOK /\ TypeOK' /\ free[c] + Cardinality(Holders(c)) = Concurrency
  BY TypeStep DEF IInv, PermitsConserved
<1>a. ASSUME free' = free, \A t \in Tasks : pc'[t] \in Holding <=> pc[t] \in Holding,
             \A t \in Tasks : pc[t] \in Holding => from'[t] = from[t]
      PROVE  (free[c] + Cardinality(Holders(c)) = Concurrency)'
  BY <1>0, <1>a, HoldersSame
<1>1. CASE UNCHANGED vars
  BY <1>1, <1>a DEF vars
<1>2. CASE Connect \/ Disconnect
  BY <1>2, <1>a DEF Connect, Disconnect
<1>3. ASSUME NEW p \in Payloads, Deliver(p)
      PROVE  (free[c] + Cardinality(Holders(c)) = Concurrency)'
  <2>1. spawned + 1 \in Tasks /\ pc[spawned + 1] = "unused" /\ pc'[spawned + 1] \in {"queued", "logging"}
    BY <1>0, <1>3, StreamAssumption DEF Deliver, IInv, SlotInv, TypeOK, StreamTypeOK, TaskTypeOK, Tasks
  <2>2. \A t \in Tasks \ {spawned + 1} : pc'[t] = pc[t] /\ from'[t] = from[t]
    BY <1>0, <1>3 DEF Deliver, TypeOK, StreamTypeOK, TaskTypeOK
  <2>. QED
    BY <1>3, <2>1, <2>2, <1>a DEF Deliver, Holding
<1>4. ASSUME NEW t \in Tasks, Acquire(t)
      PROVE  (free[c] + Cardinality(Holders(c)) = Concurrency)'
  <2>1. from' = from /\ pc' = [pc EXCEPT ![t] = "running"] /\ t \notin Holders(c)
    BY <1>4 DEF Acquire, stream, Holders, Holding
  <2>2. CASE c = from[t]
    <3>1. Holders(c)' = Holders(c) \cup {t}
      BY <1>0, <2>1, <2>2 DEF Holders, Holding, TypeOK, StreamTypeOK, TaskTypeOK
    <3>2. Cardinality(Holders(c)') = Cardinality(Holders(c)) + 1
      BY <2>1, <3>1, HoldersFinite, FS_AddElement
    <3>3. free'[c] = free[c] - 1 /\ free[c] \in Nat
      BY <1>0, <1>4, <2>2 DEF Acquire, TypeOK, StreamTypeOK, TaskTypeOK
    <3>. QED
      BY <1>0, <3>2, <3>3, HoldersFinite, StreamAssumption
  <2>3. CASE c # from[t]
    <3>1. Holders(c)' = Holders(c)
      BY <1>0, <2>1, <2>3 DEF Holders, TypeOK, StreamTypeOK, TaskTypeOK
    <3>2. free'[c] = free[c]
      BY <1>0, <1>4, <2>3 DEF Acquire, TypeOK, StreamTypeOK, TaskTypeOK
    <3>. QED
      BY <1>0, <3>1, <3>2
  <2>. QED
    BY <2>2, <2>3
<1>5. ASSUME NEW t \in Tasks, Skip(t) \/ Succeed(t) \/ Fail(t) \/ Timeout(t) \/ Record(t)
      PROVE  (free[c] + Cardinality(Holders(c)) = Concurrency)'
  BY <1>0, <1>5, <1>a DEF Skip, Succeed, Fail, Timeout, Record, stream, Holding, TypeOK, StreamTypeOK, TaskTypeOK
<1>6. ASSUME NEW t \in Tasks, Report(t)
      PROVE  (free[c] + Cardinality(Holders(c)) = Concurrency)'
  <2>1. from' = from /\ pc' = [pc EXCEPT ![t] = "done"]
    BY <1>6 DEF Report, stream
  <2>2. CASE pc[t] = "reporting" /\ c = from[t]
    <3>1. t \in Holders(c) /\ Holders(c)' = Holders(c) \ {t}
      BY <1>0, <2>1, <2>2 DEF Holders, Holding, TypeOK, StreamTypeOK, TaskTypeOK
    <3>2. Cardinality(Holders(c)') = Cardinality(Holders(c)) - 1
      BY <3>1, HoldersFinite, FS_RemoveElement
    <3>3. free'[c] = free[c] + 1 /\ free[c] \in Nat
      BY <1>0, <1>6, <2>2 DEF Report, TypeOK, StreamTypeOK, TaskTypeOK
    <3>. QED
      BY <1>0, <3>2, <3>3, HoldersFinite, StreamAssumption
  <2>3. CASE ~(pc[t] = "reporting" /\ c = from[t])
    <3>1. Holders(c)' = Holders(c)
      BY <1>0, <1>6, <2>1, <2>3 DEF Holders, Holding, TypeOK, TaskTypeOK, Report
    <3>2. free'[c] = free[c]
      BY <1>0, <1>6, <2>3 DEF Report, TypeOK, StreamTypeOK, TaskTypeOK
    <3>. QED
      BY <1>0, <3>1, <3>2
  <2>. QED
    BY <2>2, <2>3
<1>. QED
  BY <1>1, <1>2, <1>3, <1>4, <1>5, <1>6 DEF Next, TaskStep

\* The inductive invariant holds in every reachable state.
LEMMA Invariance == Spec => []IInv
<1>1. IInv /\ [Next]_vars => IInv'
  BY TypeStep, SlotStep, FateStep, PermitStep DEF IInv
<1>. QED
  BY InitIInv, <1>1, PTL DEF Spec

\* The stream keeps its variables within their types; in particular no
\* semaphore ever has more than COPY_TRADE_CONCURRENCY permits.
THEOREM StreamTypeCorrect == Spec => []TypeOK
<1>1. IInv => TypeOK
  BY DEF IInv
<1>. QED
  BY <1>1, Invariance, PTL

\* On one connection, before any eviction, no trade id is taken up twice.
THEOREM StreamTakenUpOnce == Spec => []TakenUpOnce
<1>1. IInv => TakenUpOnce
  BY DEF IInv
<1>. QED
  BY <1>1, Invariance, PTL

\* No way for a task to end leaks its permit or returns one it did not take.
THEOREM StreamPermitsConserved == Spec => []PermitsConserved
<1>1. IInv => PermitsConserved
  BY DEF IInv
<1>. QED
  BY <1>1, Invariance, PTL

\* What the web log says of a trade is what happened to its order.
THEOREM StreamImplementsLifecycle == Spec => ImplementsLifecycle
<1>1. Init => Life!Init
  BY DEF Init, Life!Init
<1>2. IInv /\ [Next]_vars => [Life!Next]_(Life!vars)
  <2> SUFFICES ASSUME IInv, [Next]_vars PROVE [Life!Next]_(Life!vars)
    OBVIOUS
  <2> DEFINE fate == [t \in Tasks |-> IF pc[t] = "unused" THEN "none"
                                      ELSE IF pc[t] = "done" THEN status[t] ELSE "pending"]
  <2>0. TypeOK /\ FateInv
    BY DEF IInv
  <2>1. CASE UNCHANGED vars
    BY <2>1 DEF vars, Life!vars
  <2>2. CASE Connect \/ Disconnect
    BY <2>2 DEF Connect, Disconnect, Life!vars
  <2>3. ASSUME NEW p \in Payloads, Deliver(p) PROVE [Life!Next]_(Life!vars)
    <3> DEFINE new == spawned + 1
    <3> HIDE DEF fate
    <3>0. spawned \in Nat /\ MaxTasks \in Nat /\ spawned < MaxTasks /\ ordered' = ordered
      BY <2>0, <2>3, StreamAssumption DEF Deliver, TypeOK, StreamTypeOK
    <3>a. new \in Tasks /\ ~(new <= spawned)
      BY <3>0 DEF Tasks
    <3>1. new \in Tasks /\ pc[new] = "unused" /\ ordered' = ordered
      BY <3>0, <3>a DEF IInv, SlotInv
    <3>2. pc'[new] \in {"queued", "logging"} /\ \A t \in Tasks \ {new} : pc'[t] = pc[t] /\ status'[t] = status[t]
      BY <2>0, <2>3, <3>1 DEF Deliver, TypeOK, StreamTypeOK, TaskTypeOK
    <3>3. fate[new] = "none" /\ fate' = [fate EXCEPT ![new] = "pending"]
      BY <3>1, <3>2 DEF fate
    <3>. QED
      BY <3>1, <3>3 DEF fate, Life!Next, Life!TakeUp
  <2>4. ASSUME NEW t \in Tasks, Acquire(t) \/ Skip(t) \/ Timeout(t) \/ Record(t)
        PROVE [Life!Next]_(Life!vars)
    BY <2>0, <2>4 DEF Acquire, Skip, Timeout, Record, Life!vars, TypeOK, StreamTypeOK, TaskTypeOK
  <2>5. ASSUME NEW t \in Tasks, Succeed(t) \/ Fail(t) PROVE [Life!Next]_(Life!vars)
    <3>1. fate' = fate /\ fate[t] = "pending" /\ ~ordered[t]
      BY <2>0, <2>5 DEF Succeed, Fail, TypeOK, StreamTypeOK, TaskTypeOK
    <3>2. ordered' = ordered \/ ordered' = [ordered EXCEPT ![t] = TRUE]
      BY <2>0, <2>5, <3>1 DEF Succeed, Fail, TypeOK, StreamTypeOK, TaskTypeOK
    <3>. QED
      BY <3>1, <3>2 DEF Life!Next, Life!Execute, Life!vars
  <2>6. ASSUME NEW t \in Tasks, Report(t) PROVE [Life!Next]_(Life!vars)
    <3>1. fate[t] = "pending" /\ fate' = [fate EXCEPT ![t] = status[t]] /\ ordered' = ordered
      BY <2>0, <2>6 DEF Report, TypeOK, TaskTypeOK, stream
    <3>2. /\ status[t] \in Life!Fates
          /\ status[t] = "ok" => ordered[t]
          /\ status[t] \in {"filtered", "skipped", "timeout"} => ~ordered[t]
      BY <2>0, <2>6 DEF Report, TypeOK, TaskTypeOK, Statuses, FateInv, Life!Fates
    <3>. QED
      BY <3>1, <3>2 DEF Life!Next, Life!Finish
  <2>. QED
    BY <2>1, <2>2, <2>3, <2>4, <2>5, <2>6 DEF Next, TaskStep
<1>. QED
  BY <1>1, <1>2, Invariance, PTL DEF Spec, ImplementsLifecycle, Life!Spec
\* What the web log says is true of every trade, and final: a trade it calls
\* timed out, skipped or filtered was not ordered and will not be.  (It is what
\* any implementation of TradeLifecycle promises.)
THEOREM StreamFatesFinal == Spec => []Life!Truthful /\ Life!FatesFinal
<1>1. Life!Init => Life!Truthful
  BY DEF Life!Init, Life!Truthful
<1>a. Life!Spec => [](Life!Typed)
  <2>1. Life!Init => Life!Typed
    BY DEF Life!Init, Life!Typed
  <2>2. Life!Typed /\ [Life!Next]_(Life!vars) => Life!Typed'
    BY DEF Life!Typed, Life!Next, Life!vars, Life!TakeUp, Life!Execute, Life!Finish, Life!Fates
  <2>. QED
    BY <2>1, <2>2, PTL DEF Life!Spec
<1>2. Life!Typed /\ Life!Truthful /\ [Life!Next]_(Life!vars) => Life!Truthful'
  <2> SUFFICES ASSUME Life!Typed, Life!Truthful, [Life!Next]_(Life!vars) PROVE Life!Truthful'
    OBVIOUS
  <2> USE DEF Life!Typed, Life!Truthful
  <2>1. CASE UNCHANGED Life!vars
    BY <2>1 DEF Life!vars
  <2>2. ASSUME NEW t \in Tasks, Life!TakeUp(t) PROVE Life!Truthful'
    BY <2>2 DEF Life!TakeUp
  <2>3. ASSUME NEW t \in Tasks, Life!Execute(t) PROVE Life!Truthful'
    BY <2>3 DEF Life!Execute
  <2>4. ASSUME NEW t \in Tasks, Life!Finish(t) PROVE Life!Truthful'
    BY <2>4 DEF Life!Finish, Life!Fates
  <2>. QED
    BY <2>1, <2>2, <2>3, <2>4 DEF Life!Next
<1>3. Life!Typed /\ [Life!Next]_(Life!vars) => [Life!KeepsFates]_(Life!vars)
  BY DEF Life!Typed, Life!KeepsFates, Life!Next, Life!vars, Life!TakeUp, Life!Execute,
     Life!Finish, Life!Fates
<1>. QED
  BY <1>1, <1>a, <1>2, <1>3, StreamImplementsLifecycle, PTL
     DEF ImplementsLifecycle, Life!Spec, Life!FatesFinal

-----------------------------------------------------------------------------
(* The part of EveryTradeReported that needs no fairness.                  *)

\* A task that waits for a permit waits for another task of its connection,
\* which holds one.
WaitsForHolder ==
    \A t \in Tasks :
        pc[t] = "queued" /\ free[from[t]] = 0 =>
            \E s \in Tasks \ {t} : from[s] = from[t] /\ pc[s] \in Holding

\* The steps a task has still to take: four at most from the queue on.
Remaining == [unused |-> 5, queued |-> 4, running |-> 3, filled |-> 2,
              reporting |-> 1, logging |-> 1, done |-> 0]

\* No task goes back: a step changes one task's place, towards its end.
Advances ==
    \A t \in Tasks : pc'[t] # pc[t] =>
        /\ Remaining[pc'[t]] < Remaining[pc[t]]
        /\ \A s \in Tasks \ {t} : pc'[s] = pc[s]

\* The copies of a connection are never blocked by one another for good: with
\* every permit taken some task that holds one has still to end, no task waits
\* for one that waits, and none goes back.
THEOREM StreamAdvances == Spec => []WaitsForHolder /\ [][Advances]_vars
<1>1. IInv => WaitsForHolder
  <2> SUFFICES ASSUME IInv, NEW t \in Tasks, pc[t] = "queued", free[from[t]] = 0
               PROVE  \E s \in Tasks \ {t} : from[s] = from[t] /\ pc[s] \in Holding
    BY DEF WaitsForHolder
  <2>1. from[t] \in Conns
    BY StreamAssumption DEF IInv, SlotInv, TypeOK, StreamTypeOK, Tasks, Conns
  <2>2. Cardinality(Holders(from[t])) = Concurrency /\ Concurrency # 0
    BY <2>1, HoldersFinite, StreamAssumption DEF IInv, PermitsConserved
  <2>3. PICK s \in Holders(from[t]) : TRUE
    BY <2>2, FS_EmptySet
  <2>. QED
    BY <2>3 DEF Holders, Holding
<1>2. IInv /\ [Next]_vars => [Advances]_vars
  <2> SUFFICES ASSUME IInv, Next PROVE Advances
    OBVIOUS
  <2>0. pc \in [Tasks -> PCs] /\ spawned \in 0..MaxTasks
    BY DEF IInv, TypeOK, TaskTypeOK, StreamTypeOK
  <2>1. CASE Connect \/ Disconnect
    BY <2>1 DEF Connect, Disconnect, Advances
  <2>2. ASSUME NEW p \in Payloads, Deliver(p) PROVE Advances
    <3> DEFINE new == spawned + 1
    <3>1. new \in Tasks /\ pc[new] = "unused"
      BY <2>0, <2>2, StreamAssumption DEF Deliver, Tasks, IInv, SlotInv
    <3>2. PICK q \in {"queued", "logging"} : pc' = [pc EXCEPT ![new] = q]
      BY <2>2 DEF Deliver
    <3> HIDE DEF new
    <3>. QED
      BY <2>0, <3>1, <3>2 DEF Advances, Remaining
  <2>3. ASSUME NEW t \in Tasks, TaskStep(t) PROVE Advances
    <3>1. PICK q \in PCs : pc' = [pc EXCEPT ![t] = q] /\ Remaining[q] < Remaining[pc[t]]
      BY <2>3 DEF TaskStep, Acquire, Skip, Succeed, Fail, Timeout, Record, Report, Remaining, PCs
    <3>. QED
      BY <2>0, <3>1 DEF Advances
  <2>. QED
    BY <2>1, <2>2, <2>3 DEF Next
<1>. QED
  BY <1>1, <1>2, Invariance, PTL DEF Spec
=============================================================================
