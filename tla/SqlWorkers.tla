----------------------------- MODULE SqlWorkers -----------------------------
(***************************************************************************)
(* The worker pool of the SQL runners (agent/integrations/sql_threads.py):  *)
(* run_blocking_sql admits a call through an asyncio.Semaphore of Slots     *)
(* permits, hands it to a thread pool, and gives the permit back only when  *)
(* the driver call is over, whatever became of its caller.                  *)
(*                                                                         *)
(* Two kinds of actors: the event loop, where a caller suspends in          *)
(* acquire() and in the wait for the result, and the worker threads, which  *)
(* start and end driver calls at any time and reach the loop only through   *)
(* call_soon_threadsafe.                                                    *)
(***************************************************************************)
EXTENDS Integers, Sequences, FiniteSets, SequencesExt

CONSTANTS
    Queries,    \* calls of run_blocking_sql on one event loop
    Slots,      \* SQL_WORKER_THREADS: permits, and threads of the pool
    MaxLost     \* permits whose return may fail (_release_slot's error branch)

ASSUME PoolAssumption ==
    /\ IsFiniteSet(Queries)
    /\ Slots \in Nat \ {0}
    /\ MaxLost \in Nat

VARIABLES
    caller,     \* new, waiting, awaiting, and how a call ended
    value,      \* Semaphore._value
    waiters,    \* Semaphore._waiters
    fut,        \* the future a waiting caller awaits: pending, set, cancelled
    doomed,     \* callers whose task was cancelled and has not seen it yet
    expired,    \* waiting callers whose asyncio.timeout has fired
    job,        \* the pool's future: none, queued, running, returned, dropped
    returning,  \* calls whose slot.release is scheduled on the loop
    lost        \* permits that could not be returned

vars == <<caller, value, waiters, fut, doomed, expired, job, returning, lost>>

Ended == {"answered", "rejected", "unsubmitted", "cancelled"}

Init ==
    /\ caller    = [q \in Queries |-> "new"]
    /\ value     = Slots
    /\ waiters   = <<>>
    /\ fut       = [q \in Queries |-> "pending"]
    /\ doomed    = {}
    /\ expired   = {}
    /\ job       = [q \in Queries |-> "none"]
    /\ returning = {}
    /\ lost      = 0

-----------------------------------------------------------------------------
(* asyncio.Semaphore, as the code uses it. *)

\* Semaphore.locked(): no permit is left, or somebody is in line for one.
SlotLocked == value = 0 \/ \E i \in DOMAIN waiters : fut[waiters[i]] # "cancelled"

Unserved(w) == {i \in DOMAIN w : fut[w[i]] = "pending"}

\* Mutant of GivePermits: a returned permit wakes nobody.
GivePermitsSilently(n, w, k) == value' = n /\ fut' = fut

\* Mutant of GivePermits: the newest caller in line comes first.
GivePermitsNewest(n, w, k) ==
    LET handed == {i \in Unserved(w) : Cardinality({j \in Unserved(w) : j > i}) < Min({n, k})}
    IN  /\ value' = n - Cardinality(handed)
        /\ fut' = [q \in Queries |-> IF \E i \in handed : w[i] = q THEN "set" ELSE fut[q]]

\* The semaphore has n permits, and w in line: up to k times _wake_up_next hands
\* one to the first caller that is still waiting.
GivePermits(n, w, k) ==
    LET handed == {i \in Unserved(w) : Cardinality({j \in Unserved(w) : j < i}) < Min({n, k})}
    IN  /\ value' = n - Cardinality(handed)
        /\ fut' = [q \in Queries |-> IF \E i \in handed : w[i] = q THEN "set" ELSE fut[q]]

Without(w, q) == RemoveAt(w, CHOOSE i \in DOMAIN w : w[i] = q)

-----------------------------------------------------------------------------
(* The caller, on the event loop. *)

\* submit() queues the call, or fails: no thread could be started, the pool is
\* shut down.
Submitted(q) ==
    /\ caller' = [caller EXCEPT ![q] = "awaiting"]
    /\ job' = [job EXCEPT ![q] = "queued"]

\* The call has its permit from the start, or gets in line for one.
Call(q) ==
    /\ caller[q] = "new"
    /\ \/ /\ ~SlotLocked
          /\ \/ Submitted(q) /\ value' = value - 1 /\ UNCHANGED fut
             \/ /\ caller' = [caller EXCEPT ![q] = "unsubmitted"]
                /\ UNCHANGED <<value, fut, job>>
          /\ UNCHANGED waiters
       \/ /\ SlotLocked
          /\ caller' = [caller EXCEPT ![q] = "waiting"]
          /\ waiters' = Append(waiters, q)
          /\ UNCHANGED <<value, fut, job>>
    /\ UNCHANGED <<doomed, expired, returning, lost>>

\* A caller that was handed a permit leaves the line and submits its call; a
\* failed submit gives the permit back.
Admitted(q) ==
    LET rest == Without(waiters, q) IN
    /\ caller[q] = "waiting" /\ fut[q] = "set" /\ q \notin doomed \cup expired
    /\ waiters' = rest
    /\ \/ Submitted(q) /\ GivePermits(value, rest, 1)
       \/ /\ caller' = [caller EXCEPT ![q] = "unsubmitted"]
          /\ GivePermits(value + 1, rest, 2)
          /\ UNCHANGED job
    /\ UNCHANGED <<doomed, expired, returning, lost>>

\* task.cancel(), by the client or by the timer, of a caller in line: it ends
\* the wait, unless the permit was handed over and the task has yet to run.
EndWait(q) == fut' = IF fut[q] = "pending" THEN [fut EXCEPT ![q] = "cancelled"] ELSE fut

CancelWait(q) ==
    /\ caller[q] = "waiting" /\ q \notin doomed
    /\ doomed' = doomed \cup {q}
    /\ EndWait(q)
    /\ UNCHANGED <<caller, value, waiters, expired, job, returning, lost>>

\* Mutant of TimerFires: acquire() without a wait limit.
TimerFiresNever(q) == FALSE /\ UNCHANGED vars

\* asyncio.timeout(WORKER_WAIT_TIMEOUT_S) fires.
TimerFires(q) ==
    /\ caller[q] = "waiting" /\ q \notin expired
    /\ expired' = expired \cup {q}
    /\ EndWait(q)
    /\ UNCHANGED <<caller, value, waiters, doomed, job, returning, lost>>

\* Mutant of WaitEnds: the permit a cancelled caller was handed is not passed on.
WaitEndsKeepingPermit(q) ==
    /\ caller[q] = "waiting" /\ q \in doomed \cup expired
    /\ waiters' = Without(waiters, q)
    /\ caller' = [caller EXCEPT ![q] = IF q \in doomed THEN "cancelled" ELSE "rejected"]
    /\ UNCHANGED <<value, fut, doomed, expired, job, returning, lost>>

\* The caller sees CancelledError in acquire(): it leaves the line and passes a
\* permit it was handed on.  asyncio.timeout turns the error into TimeoutError,
\* and the call into SqlWorkersBusyError, only if nobody else cancelled it.
WaitEnds(q) ==
    LET rest == Without(waiters, q) IN
    /\ caller[q] = "waiting" /\ q \in doomed \cup expired
    /\ waiters' = rest
    /\ IF fut[q] = "set" THEN GivePermits(value + 1, rest, 1) ELSE UNCHANGED <<value, fut>>
    /\ caller' = [caller EXCEPT ![q] = IF q \in doomed THEN "cancelled" ELSE "rejected"]
    /\ UNCHANGED <<doomed, expired, job, returning, lost>>

\* The client cancels a caller that awaits its result.
CancelCall(q) ==
    /\ caller[q] = "awaiting"
    /\ caller' = [caller EXCEPT ![q] = "cancelled"]
    /\ UNCHANGED <<value, waiters, fut, doomed, expired, job, returning, lost>>

\* The cancellation reaches the pool's future while no thread has taken it.
DropQueued(q) ==
    /\ caller[q] = "cancelled" /\ job[q] = "queued"
    /\ job' = [job EXCEPT ![q] = "dropped"]
    /\ returning' = returning \cup {q}
    /\ UNCHANGED <<caller, value, waiters, fut, doomed, expired, lost>>

\* slot.release on the loop, scheduled by the future's done callback.
PermitReturns(q) ==
    /\ q \in returning
    /\ returning' = returning \ {q}
    /\ GivePermits(value + 1, waiters, 1)
    /\ UNCHANGED <<caller, waiters, doomed, expired, job, lost>>

\* The result follows the permit into the loop.
Answer(q) ==
    /\ caller[q] = "awaiting" /\ job[q] = "returned" /\ q \notin returning
    /\ caller' = [caller EXCEPT ![q] = "answered"]
    /\ UNCHANGED <<value, waiters, fut, doomed, expired, job, returning, lost>>

-----------------------------------------------------------------------------
(* The worker threads. *)

Running == {q \in Queries : job[q] = "running"}

StartCall(q) ==
    /\ job[q] = "queued" /\ Cardinality(Running) < Slots
    /\ job' = [job EXCEPT ![q] = "running"]
    /\ UNCHANGED <<caller, value, waiters, fut, doomed, expired, returning, lost>>

\* The driver returns or raises; the done callback schedules slot.release, or
\* fails to and the permit is lost.
CallReturns(q) ==
    /\ job[q] = "running"
    /\ job' = [job EXCEPT ![q] = "returned"]
    /\ \/ returning' = returning \cup {q} /\ UNCHANGED lost
       \/ lost < MaxLost /\ lost' = lost + 1 /\ UNCHANGED returning
    /\ UNCHANGED <<caller, value, waiters, fut, doomed, expired>>

Next ==
    \E q \in Queries :
        \/ Call(q) \/ Admitted(q) \/ CancelWait(q) \/ TimerFires(q) \/ WaitEnds(q)
        \/ CancelCall(q) \/ DropQueued(q) \/ PermitReturns(q) \/ Answer(q)
        \/ StartCall(q) \/ CallReturns(q)

\* Nothing is left to happen but driver calls nobody waits for any more.
Done == \A q \in Queries : caller[q] \in Ended /\ job[q] \notin {"queued", "running"} /\ q \notin returning

Spec == Init /\ [][Next]_vars

(* The event loop runs what is due, the timer included.  No driver call is    *)
(* assumed to return: statement_timeout_ms may be 0.                         *)
Fairness ==
    \A q \in Queries : WF_vars(Admitted(q)) /\ WF_vars(WaitEnds(q)) /\ WF_vars(TimerFires(q))

-----------------------------------------------------------------------------
TypeOK ==
    /\ caller \in [Queries -> {"new", "waiting", "awaiting"} \cup Ended]
    /\ value \in 0..Slots
    /\ waiters \in Seq(Queries)
    /\ ToSet(waiters) = {q \in Queries : caller[q] = "waiting"} /\ IsInjective(waiters)
    /\ fut \in [Queries -> {"pending", "set", "cancelled"}]
    /\ doomed \in SUBSET Queries
    /\ expired \in SUBSET Queries
    /\ job \in [Queries -> {"none", "queued", "running", "returned", "dropped"}]
    /\ returning \in SUBSET Queries
    /\ lost \in 0..MaxLost

Holders == {q \in Queries : job[q] \in {"queued", "running"}}
Granted == {q \in Queries : caller[q] = "waiting" /\ fut[q] = "set"}

(* Every permit is somewhere: free, handed to a caller in line, held by a call *)
(* in the pool, on its way back, or lost.  None is made or dropped by a        *)
(* cancellation, a timeout or a failed submit.                               *)
PermitsConserved ==
    value + Cardinality(Granted) + Cardinality(Holders) + Cardinality(returning) + lost = Slots

(* "A burst of slow queries holds no more than that many threads"             *)
(* (sql_threads.py:12): calls whose caller has gone count as well, so no call  *)
(* waits inside the pool for a thread.                                       *)
NoCallQueuesInThePool == Cardinality(Holders) <= Slots

(* A call that was rejected as busy, or cancelled in line, never runs, also    *)
(* when the permit and the cancellation come in one tick (sql_threads.py:153). *)
EndedWaitsNeverRun ==
    \A q \in Queries : q \in doomed \cup expired \/ caller[q] = "rejected" => job[q] = "none"

(* A free permit is never left beside a caller that waits for one, unless a    *)
(* caller ahead was handed a permit and, when it runs, will wake the next: a   *)
(* newcomer that joins the line behind it relies on that wake-up.            *)
NoIdlePermit ==
    value > 0 => \A i \in Unserved(waiters) : \E j \in 1 .. i - 1 : fut[waiters[j]] = "set"

(* Callers get permits in the order of arrival: none is handed out, and no     *)
(* newcomer admitted, past a caller that still waits.                        *)
ServedInOrder ==
    [][\A i \in DOMAIN waiters : fut[waiters[i]] = "pending" /\ fut'[waiters[i]] = "pending" =>
            /\ \A j \in i + 1 .. Len(waiters) : fut'[waiters[j]] = "set" => fut[waiters[j]] = "set"
            /\ \A q \in Queries : caller[q] = "new" => caller'[q] # "awaiting"]_vars

(* The wait limit: every caller in line leaves it, even if no driver call ever *)
(* returns.                                                                  *)
EveryWaitEnds == \A q \in Queries : caller[q] = "waiting" ~> caller[q] # "waiting"
=============================================================================
