------------------------- MODULE MarketOrderProofs --------------------------
(***************************************************************************)
(* Theorems about MarketOrder for every set of amounts and balances: its   *)
(* safety invariants, and that the retry loop implements OneShotOrder.     *)
(*                                                                         *)
(* The argument: until the call ends nothing was executed for it, except   *)
(* by a post whose answer was lost, and such an error carries none of the  *)
(* words the loop retries on (ExecutedInv); the amount the call is about   *)
(* to post satisfies the request (AmountInv); a SELL waits for a retry     *)
(* only with an attempt left (AttemptInv).                                 *)
(***************************************************************************)
EXTENDS MarketOrder, TLAPS

Posting == {"funds", "client", "clamp", "post", "error", "update", "sleep"}

Postable(r, a) ==
    IF r.side = "SELL" THEN MinLot <= a /\ a <= r.amount
    ELSE a = MinMarketable \/ (Cent <= a /\ a <= r.amount /\ (a < 1000 \/ a >= 1020))

ExecutedInv ==
    /\ pc \in {"idle", "validate", "dropped"} \cup (Posting \ {"error"}) => executed = 0
    /\ pc = "error" => executed = 0 \/ (executed = current /\ words = {})

AmountInv == pc \in Posting => Postable(req, current)

AttemptInv ==
    /\ attempt <= MaxRetries(req.side)
    /\ pc \in {"clamp", "update", "sleep"} => req.side = "SELL"
    /\ pc \in {"update", "sleep"} => attempt < MaxRetries(req.side)

IInv == TypeOK /\ ExecutedInv /\ AmountInv /\ AttemptInv

\* A request is a BUY or a SELL of a natural amount.
LEMMA RequestTypes ==
  ASSUME NEW r \in Requests
  PROVE  r.side \in {"BUY", "SELL"} /\ r.fast \in BOOLEAN /\ r.amount \in Nat
  BY AmountsAssumption DEF Requests

\* normalize_buy_usdc_amount truncates to cents and lifts the one dollar cliff.
LEMMA NormalizeBounds ==
  ASSUME NEW a \in Nat
  PROVE  /\ Normalize(a) \in Nat
         /\ \/ Normalize(a) = 0
            \/ Normalize(a) = MinMarketable
            \/ /\ Cent <= Normalize(a) /\ Normalize(a) <= a
               /\ Normalize(a) < 1000 \/ Normalize(a) >= 1020
<1> DEFINE n == (a \div Cent) * Cent
<1>1. n \in Nat /\ n <= a /\ (n = 0 \/ Cent <= n)
  BY DEF Cent
<1>2. Normalize(a) = IF n >= 1000 /\ n < 1020 THEN MinMarketable ELSE n
  BY DEF Normalize
<1>3. MinMarketable \in Nat
  BY DEF MinMarketable, Cent
<1> HIDE DEF n
<1>. QED
  BY <1>1, <1>2, <1>3

\* A postable amount satisfies the request.
LEMMA PostableAllowed ==
  ASSUME NEW r \in Requests, NEW a \in Nat, Postable(r, a)
  PROVE  a \in Allowed(r) /\ a # 0
  BY RequestTypes DEF Postable, Allowed, MinLot, Cent, MinMarketable

\* Before the first call nothing was executed.
LEMMA InitIInv == Init => IInv
  BY RequestTypes DEF Init, IInv, TypeOK, ExecutedInv, AmountInv, AttemptInv, PCs, Resting,
     Posting, ErrorWords, MaxRetries

\* Every step preserves the inductive invariant.
LEMMA StepIInv == IInv /\ [Next]_vars => IInv'
<1> SUFFICES ASSUME IInv, [Next]_vars PROVE IInv'
  OBVIOUS
<1>0. req.side \in {"BUY", "SELL"} /\ req.fast \in BOOLEAN /\ req.amount \in Nat
  BY RequestTypes DEF IInv, TypeOK
<1> USE AmountsAssumption
        DEF IInv, TypeOK, ExecutedInv, AmountInv, AttemptInv, PCs, Resting, Posting, MaxRetries
<1>1. CASE UNCHANGED vars
  BY <1>1 DEF vars
<1>2. CASE Submit
  BY <1>2, RequestTypes DEF Submit
<1>3. CASE Validate
  <2>1. CASE req.side = "BUY"
    BY <1>0, <1>3, <2>1, NormalizeBounds DEF Validate, Postable
  <2>2. CASE req.side = "SELL"
    BY <1>0, <1>3, <2>2 DEF Validate, Postable, MinLot
  <2>. QED
    BY <1>0, <2>1, <2>2
<1>4. CASE CheckFunds
  BY <1>4, <1>0 DEF CheckFunds
<1>5. CASE EnsureClient
  BY <1>5, <1>0 DEF EnsureClient
<1>6. CASE ClampBeforePost
  BY <1>6, <1>0 DEF ClampBeforePost, Clamp, Postable, MinLot
<1>7. CASE PostExecuted \/ PostAnswerLost \/ PostRefused
  <2>1. CASE PostExecuted
    BY <2>1, <1>0 DEF PostExecuted
  <2>2. CASE PostAnswerLost
    BY <2>2, <1>0 DEF PostAnswerLost, ErrorWords
  <2>3. CASE PostRefused
    BY <2>3, <1>0 DEF PostRefused
  <2>. QED
    BY <1>7, <2>1, <2>2, <2>3
<1>8. CASE HandleError
  <2>1. CASE RaiseToMinimum
    BY <1>8, <2>1, <1>0 DEF HandleError, RaiseToMinimum, RetryAllowance, Postable, MinMarketable, Cent
  <2>2. CASE ~RaiseToMinimum
    BY <1>8, <2>2, <1>0 DEF HandleError, RetryAllowance
  <2>. QED
    BY <2>1, <2>2
<1>9. CASE UpdateAllowance
  BY <1>9, <1>0 DEF UpdateAllowance, Clamp, Postable, MinLot
<1>10. CASE WakeUp
  BY <1>10, <1>0 DEF WakeUp
<1>11. CASE Drop
  BY <1>11, <1>0 DEF Drop
<1>. QED
  BY <1>1, <1>2, <1>3, <1>4, <1>5, <1>6, <1>7, <1>8, <1>9, <1>10, <1>11 DEF Next, Step

\* The inductive invariant holds in every reachable state.
LEMMA Invariance == Spec => []IInv
  BY InitIInv, StepIInv, PTL DEF Spec

\* The order call keeps its variables within their types.
THEOREM OrderTypeCorrect == Spec => []TypeOK
<1>1. IInv => TypeOK
  BY DEF IInv
<1>. QED
  BY <1>1, Invariance, PTL

\* The `unreachable!()` behind the retry loop is never reached.
THEOREM OrderLoopNeverExhausted == Spec => []LoopNeverExhausted
<1>1. IInv => LoopNeverExhausted
  BY RequestTypes DEF IInv, TypeOK, AttemptInv, LoopNeverExhausted, MaxRetries
<1>. QED
  BY <1>1, Invariance, PTL

\* Neither the clamp nor a retry leads to an order the exchange cannot take.
THEOREM OrderPostableAmount == Spec => []PostableAmount
<1>1. IInv => PostableAmount
  BY RequestTypes DEF IInv, TypeOK, AmountInv, Postable, Posting, PostableAmount, MinMarketable, Cent
<1>. QED
  BY <1>1, Invariance, PTL

\* However often it is retried, an order is executed at most once, and a copy
\* that was dropped by its timeout was not executed.
THEOREM OrderImplementsOneShot == Spec => ImplementsOneShot
<1>1. Init => OneShot!Init
  BY DEF Init, OneShot!Init, Resting
<1>2. IInv /\ IInv' /\ [Next]_vars => [OneShot!Next]_(OneShot!vars)
  <2> SUFFICES ASSUME IInv, IInv', [Next]_vars
               PROVE  [OneShot!Next]_(OneShot!vars)
    OBVIOUS
  <2>0. /\ req \in Requests /\ req' \in Requests /\ current \in Nat /\ executed \in Nat
        /\ pc \in Posting => current \in Allowed(req) /\ current # 0
    BY PostableAllowed DEF IInv, TypeOK, AmountInv
  <2>1. CASE UNCHANGED vars
    BY <2>1 DEF vars, OneShot!vars, Resting
  <2>2. CASE Submit
    BY <2>2, <2>0 DEF Submit, OneShot!Next, OneShot!Begin, OneShot!Final, Resting
  <2>3. CASE Validate \/ CheckFunds \/ EnsureClient
    BY <2>3, <2>0 DEF Validate, CheckFunds, EnsureClient, IInv, ExecutedInv, Posting,
       OneShot!Next, OneShot!Fail, OneShot!vars, Resting
  <2>4. CASE ClampBeforePost \/ UpdateAllowance
    BY <2>4, <2>0 DEF ClampBeforePost, UpdateAllowance, Clamp, IInv, ExecutedInv, Posting,
       OneShot!Next, OneShot!Fail, OneShot!vars, Resting
  <2>5. CASE PostExecuted
    BY <2>5, <2>0 DEF PostExecuted, IInv, ExecutedInv, Posting, OneShot!Next, OneShot!Succeed,
       Resting
  <2>6. CASE PostAnswerLost \/ PostRefused
    BY <2>6, <2>0 DEF PostAnswerLost, PostRefused, IInv, ExecutedInv, Posting, OneShot!vars, Resting
  <2>7. CASE HandleError
    <3>1. CASE pc' = "failed"
      BY <2>7, <3>1, <2>0 DEF HandleError, IInv, ExecutedInv, Posting, OneShot!Next, OneShot!Fail,
         Resting
    <3>2. CASE pc' # "failed"
      <4>1. words # {} /\ executed = 0
        BY <2>7, <3>2 DEF HandleError, RaiseToMinimum, RetryAllowance, IInv, ExecutedInv
      <4>. QED
        BY <2>7, <3>2, <4>1 DEF HandleError, OneShot!vars, Resting
    <3>. QED
      BY <3>1, <3>2
  <2>8. CASE WakeUp
    BY <2>8 DEF WakeUp, IInv, ExecutedInv, Posting, OneShot!vars, Resting
  <2>9. CASE Drop
    BY <2>9, <2>0 DEF Drop, IInv, ExecutedInv, Posting, OneShot!Next, OneShot!Drop, Resting
  <2>. QED
    BY <2>1, <2>2, <2>3, <2>4, <2>5, <2>6, <2>7, <2>8, <2>9 DEF Next, Step
<1>. QED
  BY <1>1, <1>2, Invariance, PTL DEF Spec, ImplementsOneShot, OneShot!Spec
\* Of every call that ends with Ok an amount its request allows was executed,
\* of a dropped one nothing; and what was executed for a call is settled when
\* it ends.  (Nothing here looks into the loop: it is what any implementation
\* of OneShotOrder promises.)
THEOREM OrderOutcome == Spec => []OneShot!Outcome /\ OneShot!Settled
<1>1. OneShot!Init => OneShot!Outcome
  BY DEF OneShot!Init, OneShot!Outcome
<1>2. OneShot!Outcome /\ [OneShot!Next]_(OneShot!vars) => OneShot!Outcome'
  BY DEF OneShot!Outcome, OneShot!Next, OneShot!vars, OneShot!Begin, OneShot!Succeed,
     OneShot!Fail, OneShot!Drop, OneShot!Final
<1>3. [OneShot!Next]_(OneShot!vars) => [OneShot!StaysSettled]_(OneShot!vars)
  BY DEF OneShot!StaysSettled, OneShot!Next, OneShot!vars, OneShot!Begin, OneShot!Succeed, OneShot!Fail, OneShot!Drop,
     OneShot!Final
<1>. QED
  BY <1>1, <1>2, <1>3, OrderImplementsOneShot, PTL
     DEF ImplementsOneShot, OneShot!Spec, OneShot!Settled

\* How far a call is from its end: attempts left first, then the place in the
\* attempt.
Place == [validate |-> 7, funds |-> 6, client |-> 5, clamp |-> 4,
          post |-> 3, error |-> 2, update |-> 1, sleep |-> 0]

Rank == IF pc \in Resting THEN 0 ELSE 1 + 4 * (6 - attempt) + Place[pc]

\* Whatever the exchange and the balances answer, every step of a call that has
\* not ended brings it closer to its end: no call takes more than 28 steps, and
\* the retries cannot go on for ever.  (That a step is taken is the fairness of
\* CallEnds.)
THEOREM OrderRankFalls == Spec => [](Rank \in 0..28) /\ [][pc \notin Resting => Rank' < Rank]_vars
<1>1. IInv => Rank \in 0..28
  <2> SUFFICES ASSUME IInv PROVE Rank \in 0..28
    OBVIOUS
  <2>1. pc \in PCs /\ attempt \in 1..6
    BY DEF IInv, TypeOK
  <2>2. CASE attempt = 1 \/ pc \in Resting
    BY <2>1, <2>2 DEF PCs, Rank, Place, Resting
  <2>3. CASE attempt > 1
    BY <2>1, <2>3 DEF PCs, Rank, Place, Resting
  <2>. QED
    BY <2>1, <2>2, <2>3
<1>2. IInv /\ IInv' /\ [Next]_vars => [pc \notin Resting => Rank' < Rank]_vars
  <2> SUFFICES ASSUME IInv, IInv', Next, pc \notin Resting PROVE Rank' < Rank
    OBVIOUS
  <2>1. /\ pc \in PCs /\ attempt \in 1..6 /\ pc' \in PCs /\ attempt' \in 1..6
    BY DEF IInv, TypeOK
  <2> USE <2>1 DEF Rank, Place, PCs, Resting
  <2>2. CASE Submit
    BY <2>2 DEF Submit
  <2>3. CASE Validate \/ CheckFunds
    BY <2>3 DEF Validate, CheckFunds
  <2>4. CASE EnsureClient \/ ClampBeforePost
    BY <2>4 DEF EnsureClient, ClampBeforePost, Clamp
  <2>5. CASE PostExecuted \/ PostAnswerLost \/ PostRefused
    BY <2>5 DEF PostExecuted, PostAnswerLost, PostRefused
  <2>6. CASE HandleError
    BY <2>6 DEF HandleError
  <2>7. CASE UpdateAllowance
    BY <2>7 DEF UpdateAllowance, Clamp
  <2>8. CASE WakeUp \/ Drop
    BY <2>8 DEF WakeUp, Drop
  <2>. QED
    BY <2>2, <2>3, <2>4, <2>5, <2>6, <2>7, <2>8 DEF Next, Step
<1>. QED
  BY <1>1, <1>2, Invariance, PTL DEF Spec
=============================================================================
