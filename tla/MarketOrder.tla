---------------------------- MODULE MarketOrder -----------------------------
(***************************************************************************)
(* One market order through api.rs: place_market_order and its hot-path    *)
(* twin place_market_order_fast, with the BUY normalisation, the balance   *)
(* checks, the SELL clamp and the retry loop around the FFI post.          *)
(*                                                                         *)
(* Amounts are integers: thousandths of a dollar for a BUY, thousandths of *)
(* a share for a SELL.  Balances move between reads (other orders fill),   *)
(* so each read returns any value of Balances.  The exchange is external:  *)
(* a post is executed and answered, executed with its answer lost, or      *)
(* refused with a message, of which the code only looks for words.         *)
(***************************************************************************)
EXTENDS Naturals, FiniteSets

CONSTANTS BuyAmounts, SellAmounts,   \* what callers ask for
          Balances                   \* what a balance read may return

ASSUME AmountsAssumption ==
    BuyAmounts \subseteq Nat /\ SellAmounts \subseteq Nat /\ Balances \subseteq Nat

Cent == 10                   \* two decimals of a dollar
MinMarketable == 101 * Cent  \* 1.01 USD
MinLot == 10                 \* 0.01 shares
ErrorWords == {"allowance", "balance", "signer", "minSize"}

VARIABLES req,        \* [side, fast, amount] of the call
          pc,
          attempt,    \* of the retry loop, from 1
          current,    \* current_amount
          words,      \* the words of the last error message
          executed    \* what the exchange executed for this call, in total

vars == <<req, pc, attempt, current, words, executed>>

Requests ==
    [side : {"BUY"}, fast : BOOLEAN, amount : BuyAmounts] \cup
    [side : {"SELL"}, fast : BOOLEAN, amount : SellAmounts]

Normalize_NoCliff(a) == (a \div Cent) * Cent

Normalize(a) ==
    LET n == (a \div Cent) * Cent
    IN  IF n >= 1000 /\ n < 1020 THEN MinMarketable ELSE n

MaxRetries(side) == IF side = "BUY" THEN 2 ELSE 6

Resting == {"idle", "ok", "failed", "dropped"}

-----------------------------------------------------------------------------
Init ==
    /\ req \in Requests /\ pc = "idle"
    /\ attempt = 1 /\ current = 0 /\ words = {} /\ executed = 0

Submit ==
    /\ pc \in Resting
    /\ req' \in Requests
    /\ pc' = "validate"
    /\ attempt' = 1 /\ current' = 0 /\ words' = {} /\ executed' = 0

Validate ==
    /\ pc = "validate"
    /\ LET n == IF req.side = "BUY" THEN Normalize(req.amount) ELSE req.amount
           tooSmall == IF req.side = "BUY" THEN n = 0 ELSE n < MinLot
       IN  /\ current' = n
           /\ pc' = IF tooSmall THEN "failed"
                    ELSE IF req.side = "BUY" /\ ~req.fast THEN "funds" ELSE "client"
    /\ UNCHANGED <<req, attempt, words, executed>>

\* The pre-check is skipped when the balance cannot be read.
CheckFunds ==
    /\ pc = "funds"
    /\ \/ \E usdc \in Balances : pc' = IF usdc < current THEN "failed" ELSE "client"
       \/ pc' = "client"
    /\ UNCHANGED <<req, attempt, current, words, executed>>

EnsureClient ==
    /\ pc = "client"
    /\ \/ pc' = IF req.side = "SELL" /\ ~req.fast THEN "clamp" ELSE "post"
       \/ pc' = "failed"
    /\ UNCHANGED <<req, attempt, current, words, executed>>

\* clamp_sell_to_available_shares, then go on at `next`.
Clamp(next) ==
    \/ current' = current /\ pc' = next           \* the read failed
    \/ \E avail \in Balances :
          \/ current <= avail /\ current' = current /\ pc' = next
          \/ current > avail /\ avail < MinLot /\ current' = current /\ pc' = "failed"
          \/ current > avail /\ avail >= MinLot /\ current' = avail /\ pc' = next

ClampBeforePost ==
    /\ pc = "clamp" /\ Clamp("post")
    /\ UNCHANGED <<req, attempt, words, executed>>

PostExecuted ==
    /\ pc = "post"
    /\ executed' = executed + current
    /\ pc' = "ok"
    /\ UNCHANGED <<req, attempt, current, words>>

\* The order is executed but the FFI call reports a transport error.
PostAnswerLost ==
    /\ pc = "post"
    /\ executed' = executed + current
    /\ words' = {} /\ pc' = "error"
    /\ UNCHANGED <<req, attempt, current>>

PostRefused ==
    /\ pc = "post"
    /\ words' \in SUBSET ErrorWords /\ pc' = "error"
    /\ UNCHANGED <<req, attempt, current, executed>>

IsBalance == "balance" \in words /\ "allowance" \notin words

Fatal == "signer" \in words \/ IsBalance

RaiseToMinimum ==
    /\ ~Fatal /\ req.side = "BUY" /\ "minSize" \in words
    /\ current < MinMarketable /\ attempt < MaxRetries(req.side)

RetryAllowance_Unclassified ==
    /\ ~Fatal /\ req.side = "SELL" /\ attempt < MaxRetries(req.side)

RetryAllowance_NoLimit ==
    /\ ~Fatal /\ req.side = "SELL" /\ "allowance" \in words

RetryAllowance ==
    /\ ~Fatal /\ req.side = "SELL" /\ "allowance" \in words
    /\ attempt < MaxRetries(req.side)

HandleError ==
    /\ pc = "error"
    /\ \/ /\ RaiseToMinimum
          /\ current' = MinMarketable /\ attempt' = attempt + 1 /\ pc' = "post"
       \/ /\ RetryAllowance
          /\ pc' = "update" /\ UNCHANGED <<current, attempt>>
       \/ /\ ~RaiseToMinimum /\ ~RetryAllowance
          /\ pc' = "failed" /\ UNCHANGED <<current, attempt>>
    /\ UNCHANGED <<req, words, executed>>

\* The result of update_balance_allowance_for_sell is ignored.
UpdateAllowance ==
    /\ pc = "update"
    /\ IF "balance" \in words THEN Clamp("sleep") ELSE pc' = "sleep" /\ UNCHANGED current
    /\ UNCHANGED <<req, attempt, words, executed>>

WakeUp_SameAttempt ==
    /\ pc = "sleep"
    /\ pc' = "post"
    /\ UNCHANGED <<req, attempt, current, words, executed>>

WakeUp ==
    /\ pc = "sleep"
    /\ pc' = "post" /\ attempt' = attempt + 1
    /\ UNCHANGED <<req, current, words, executed>>

\* The copy timeout drops the fast call at an await.  The post itself is a
\* blocking FFI call: nothing is dropped between it and what follows it.
Drop ==
    /\ req.fast /\ pc \in {"client", "update", "sleep"}
    /\ pc' = "dropped"
    /\ UNCHANGED <<req, attempt, current, words, executed>>

Step == \/ Validate \/ CheckFunds \/ EnsureClient \/ ClampBeforePost
        \/ PostExecuted \/ PostAnswerLost \/ PostRefused
        \/ HandleError \/ UpdateAllowance \/ WakeUp

Next == Submit \/ Step \/ Drop

Spec == Init /\ [][Next]_vars

\* The runtime goes on polling a call; every await in it ends by itself.
FairSpec == Spec /\ WF_vars(Step)

-----------------------------------------------------------------------------
PCs == Resting \cup {"validate", "funds", "client", "clamp", "post", "error",
                     "update", "sleep"}

TypeOK ==
    /\ req \in Requests /\ pc \in PCs
    /\ attempt \in 1..6 /\ current \in Nat
    /\ words \subseteq ErrorWords /\ executed \in Nat

\* The amounts whose execution satisfies a request: a SELL sells no more than
\* asked for, a BUY spends no more except for the 1.01 USD exchange minimum.
Allowed(r) ==
    {a \in Nat : a > 0 /\ (a <= r.amount \/ (r.side = "BUY" /\ a = MinMarketable))}

\* The `unreachable!()` behind the loop is unreachable: the loop never asks
\* for an attempt it does not have.
LoopNeverExhausted == pc \in {"post", "sleep"} =>
    attempt + (IF pc = "sleep" THEN 1 ELSE 0) <= MaxRetries(req.side)

\* Whatever the clamp and the retries do to the amount, no order is posted
\* that the exchange would round to nothing or count as just under a dollar.
PostableAmount == pc = "post" =>
    IF req.side = "SELL" THEN current >= MinLot
    ELSE current >= Cent /\ ~(current >= 1000 /\ current < MinMarketable)

\* Every call ends: the retries are finite.
CallEnds == (pc = "validate") ~> (pc \in Resting)

OneShot == INSTANCE OneShotOrder WITH
    status <- IF pc \in Resting THEN pc ELSE "pending",
    request <- req,
    executed <- IF pc = "error" THEN 0 ELSE executed

\* The retry loop implements the one-shot order.
ImplementsOneShot == OneShot!Spec
=============================================================================
