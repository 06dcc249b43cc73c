----------------------------- MODULE ClobClient -----------------------------
(***************************************************************************)
(* The shared CLOB client of api.rs: ensure_clob_client creates it at most *)
(* once (Empty -> Creating -> Ready) behind an async mutex, and callers    *)
(* that find it being created wait on a tokio Notify.                      *)
(*                                                                         *)
(* A critical section of the mutex contains no await, so each is one       *)
(* action.  What lies between them is an action of its own: the window     *)
(* between drop(guard) and the creation of the Notified future, the        *)
(* blocking FFI job, the publication and the notification.  A caller can   *)
(* be cancelled (its future dropped by a timeout) at an await only.        *)
(***************************************************************************)
EXTENDS Naturals, FiniteSets

CONSTANTS Callers,      \* the tasks that need the client
          Main,         \* the task that runs the program's main function
          Cancellable   \* callers that run under tokio::time::timeout

ASSUME CallersAssumption ==
    /\ Main \in Callers
    /\ Cancellable \subseteq Callers \ {Main}

VARIABLES warm,         \* main authenticates before it spawns anything, as
                        \* the bots do; other users of the library need not
          configOk,     \* private key and signature type are accepted
          clobState,    \* clob_client_state: its variant
          clobHandle,   \* the handle of Ready(h), 0 otherwise
          created,      \* clients the FFI has created; the last one's handle
          phase,        \* "boot" until main's authenticate has returned
          pc,           \* where each caller is in ensure_clob_client
          job,          \* the blocking creation job each caller started
          jobHandle,    \* what the job returned
          got           \* the handle the caller's last call returned

vars == <<warm, configOk, clobState, clobHandle, created, phase, pc, job, jobHandle, got>>

setup == <<warm, configOk>>

shared == <<clobState, clobHandle, created>>

PCs == {"idle", "lock", "sawCreating", "waiting", "awaitJob", "notify",
        "returned", "failed", "cancelled"}

Jobs == {"none", "running", "ok", "err", "panic"}

Resting == {"idle", "returned", "failed", "cancelled"}

-----------------------------------------------------------------------------
Init ==
    /\ warm \in BOOLEAN /\ configOk \in BOOLEAN
    /\ clobState = "Empty" /\ clobHandle = 0 /\ created = 0
    /\ phase = IF warm THEN "boot" ELSE "running"
    /\ pc = [c \in Callers |-> "idle"]
    /\ job = [c \in Callers |-> "none"]
    /\ jobHandle = [c \in Callers |-> 0]
    /\ got = [c \in Callers |-> 0]

MayCall_NoBoot(c) == TRUE

\* During the boot main is the only task there is.
MayCall(c) == phase = "running" \/ (phase = "boot" /\ c = Main /\ pc[Main] = "idle")

Call(c) ==
    /\ pc[c] \in Resting /\ MayCall(c)
    /\ job[c] = "none"       \* a slot whose detached job lives on is retired
    /\ pc' = [pc EXCEPT ![c] = "lock"]
    /\ got' = [got EXCEPT ![c] = 0]
    /\ UNCHANGED <<setup, shared, phase, job, jobHandle>>

FindReady(c) ==
    /\ pc[c] = "lock" /\ clobState = "Ready"
    /\ pc' = [pc EXCEPT ![c] = "returned"]
    /\ got' = [got EXCEPT ![c] = clobHandle]
    /\ UNCHANGED <<setup, shared, phase, job, jobHandle>>

FindCreating(c) ==
    /\ pc[c] = "lock" /\ clobState = "Creating"
    /\ pc' = [pc EXCEPT ![c] = "sawCreating"]
    /\ UNCHANGED <<setup, shared, phase, job, jobHandle, got>>

\* The `?` and the two bail!s of the Empty arm leave the state Empty.
FindEmptyBadConfig(c) ==
    /\ pc[c] = "lock" /\ clobState = "Empty" /\ ~configOk
    /\ pc' = [pc EXCEPT ![c] = "failed"]
    /\ UNCHANGED <<setup, shared, phase, job, jobHandle, got>>

FindEmpty_NoClaim(c) ==
    /\ pc[c] = "lock" /\ clobState = "Empty" /\ configOk
    /\ pc' = [pc EXCEPT ![c] = "awaitJob"]
    /\ job' = [job EXCEPT ![c] = "running"]
    /\ UNCHANGED <<setup, clobState, clobHandle, created, phase, jobHandle, got>>

FindEmpty(c) ==
    /\ pc[c] = "lock" /\ clobState = "Empty" /\ configOk
    /\ clobState' = "Creating"
    /\ pc' = [pc EXCEPT ![c] = "awaitJob"]
    /\ job' = [job EXCEPT ![c] = "running"]
    /\ UNCHANGED <<setup, clobHandle, created, phase, jobHandle, got>>

\* notify.notified(): from here on the caller receives notify_waiters.
Register(c) ==
    /\ pc[c] = "sawCreating"
    /\ pc' = [pc EXCEPT ![c] = "waiting"]
    /\ UNCHANGED <<setup, shared, phase, job, jobHandle, got>>

JobCreates(c) ==
    /\ job[c] = "running"
    /\ created' = created + 1
    /\ job' = [job EXCEPT ![c] = "ok"]
    /\ jobHandle' = [jobHandle EXCEPT ![c] = created + 1]
    /\ UNCHANGED <<setup, clobState, clobHandle, phase, pc, got>>

JobFails(c) ==
    /\ job[c] = "running"
    /\ \E how \in {"err", "panic"} : job' = [job EXCEPT ![c] = how]
    /\ UNCHANGED <<setup, shared, phase, pc, jobHandle, got>>

ResetOnError(c) ==
    /\ pc[c] = "awaitJob" /\ job[c] = "err"
    /\ clobState' = "Empty"
    /\ pc' = [pc EXCEPT ![c] = "failed"]
    /\ job' = [job EXCEPT ![c] = "none"]
    /\ UNCHANGED <<setup, clobHandle, created, phase, jobHandle, got>>

FailOnPanic_Poison(c) ==
    /\ pc[c] = "awaitJob" /\ job[c] = "panic"
    /\ clobState' = "Poisoned"
    /\ pc' = [pc EXCEPT ![c] = "failed"]
    /\ job' = [job EXCEPT ![c] = "none"]
    /\ UNCHANGED <<setup, clobHandle, created, phase, jobHandle, got>>

\* A JoinError returns at once: the state stays Creating.
FailOnPanic(c) ==
    /\ pc[c] = "awaitJob" /\ job[c] = "panic"
    /\ pc' = [pc EXCEPT ![c] = "failed"]
    /\ job' = [job EXCEPT ![c] = "none"]
    /\ UNCHANGED <<setup, shared, phase, jobHandle, got>>

Publish(c) ==
    /\ pc[c] = "awaitJob" /\ job[c] = "ok"
    /\ clobState' = "Ready" /\ clobHandle' = jobHandle[c]
    /\ pc' = [pc EXCEPT ![c] = "notify"]
    /\ job' = [job EXCEPT ![c] = "none"]
    /\ UNCHANGED <<setup, created, phase, jobHandle, got>>

\* notify_waiters wakes the registered callers only; they look again.
NotifyWaiters(c) ==
    /\ pc[c] = "notify"
    /\ pc' = [d \in Callers |-> IF d = c THEN "returned"
                                ELSE IF pc[d] = "waiting" THEN "lock" ELSE pc[d]]
    /\ got' = [got EXCEPT ![c] = jobHandle[c]]
    /\ UNCHANGED <<setup, shared, phase, job, jobHandle>>

\* The timeout drops the future where it awaits; a job it started runs on,
\* detached, and its result is dropped.
Cancel(c) ==
    /\ c \in Cancellable /\ pc[c] \in {"lock", "waiting", "awaitJob"}
    /\ pc' = [pc EXCEPT ![c] = "cancelled"]
    /\ UNCHANGED <<setup, shared, phase, job, jobHandle, got>>

\* authenticate()? in main: the other tasks are spawned after it succeeds,
\* and its error ends the program.
FinishBoot ==
    /\ phase = "boot" /\ pc[Main] \in {"returned", "failed"}
    /\ phase' = IF pc[Main] = "returned" THEN "running" ELSE "exited"
    /\ UNCHANGED <<setup, shared, pc, job, jobHandle, got>>

Exited == phase = "exited" /\ UNCHANGED vars

Progress(c) ==
    \/ FindReady(c) \/ FindCreating(c) \/ FindEmptyBadConfig(c) \/ FindEmpty(c)
    \/ Register(c) \/ ResetOnError(c) \/ FailOnPanic(c)
    \/ Publish(c) \/ NotifyWaiters(c)

Next ==
    \/ \E c \in Callers : \/ Call(c) \/ Progress(c) \/ JobCreates(c) \/ JobFails(c)
                          \/ Cancel(c)
    \/ FinishBoot
    \/ Exited

\* The runtime polls every runnable task, the FFI call ends (it has its own
\* HTTP timeouts); nobody is obliged to call or to be cancelled.
Fairness ==
    /\ \A c \in Callers : WF_vars(Progress(c)) /\ WF_vars(JobCreates(c) \/ JobFails(c))
    /\ WF_vars(FinishBoot)

Spec == Init /\ [][Next]_vars

FairSpec == Spec /\ Fairness

-----------------------------------------------------------------------------
TypeOK ==
    /\ warm \in BOOLEAN /\ configOk \in BOOLEAN
    /\ clobState \in {"Empty", "Creating", "Ready"}
    /\ clobHandle \in Nat /\ created \in Nat
    /\ phase \in {"boot", "running", "exited"}
    /\ pc \in [Callers -> PCs]
    /\ job \in [Callers -> Jobs]
    /\ jobHandle \in [Callers -> Nat]
    /\ got \in [Callers -> Nat]

\* However calls, errors, panics and cancellations interleave, the process
\* creates one CLOB client at most: clients are never destroyed, so a second
\* one would be leaked and orders would be signed by two sessions.
OneClient == created <= 1

Cell == INSTANCE OnceCell WITH cell <- IF clobState = "Ready" THEN clobHandle ELSE 0

\* The mutex, the three states and the notification make a cell that is filled
\* once: no late error and no second creator replaces or removes a published
\* client, and every handle a call has returned is the one published now.
ImplementsOnceCell == Cell!Spec

\* main_copytrading.rs warms the client so that a copied trade never meets its
\* creation: no task but main creates, or waits for, the client.  With it a
\* copy timeout cannot drop a creator, which would leave Creating for ever.
WarmCallersNeverWait ==
    warm => \A c \in Callers \ {Main} :
                pc[c] \notin {"sawCreating", "waiting", "awaitJob", "notify"}

\* Every call of a warmed program ends.  (Of a cold one it need not: see the
\* window of Register, JobFails with "panic", and Cancel of a creator.)
EveryCallEnds ==
    \A c \in Callers : (warm /\ pc[c] = "lock") ~> (pc[c] \in Resting)
=============================================================================
