----------------------------- MODULE TurnQueue -----------------------------
(***************************************************************************)
(* The per-conversation turn queue of the query_database tool              *)
(* (tools/query_database.py): the registry _CONVERSATION_QUEUES of entries *)
(* (a lock and a user count), and the asyncio.Lock inside each entry.      *)
(*                                                                         *)
(* Everything runs on one event loop, so an action is the code between two *)
(* suspension points.  A call suspends in one place here, inside           *)
(* lock.acquire(); the run of the agent that the turn protects is the time *)
(* between Arrive or Resume and Leave, and QueryTurns fills it in.         *)
(*                                                                         *)
(* An entry is named after the call that minted it: a call mints at most   *)
(* one, and two entries minted for one conversation are different objects. *)
(***************************************************************************)
EXTENDS Integers, Sequences, FiniteSets, SequencesExt

CONSTANTS
    Calls,      \* query_database calls, each one request of a client
    Convs,      \* conversation ids
    None        \* no conversation, no entry

ASSUME CallsAssumption == IsFiniteSet(Calls) /\ None \notin Calls \cup Convs

VARIABLES
    pc,         \* where each call is: new, waiting, turn, done
    conv,       \* the conversation_id of the call
    entry,      \* the call's local `entry`
    queues,     \* _CONVERSATION_QUEUES: the entry registered for an id
    users,      \* entry.users
    locked,     \* entry.lock._locked
    waiters,    \* entry.lock._waiters, the calls in the order of the deque
    fut,        \* the future a parked call awaits: pending, set, cancelled
    doomed      \* calls whose task was cancelled and has not seen it yet

queueVars == <<pc, conv, entry, queues, users, locked, waiters, fut, doomed>>

Live == {c \in Calls : pc[c] \in {"waiting", "turn"}}

QueueInit ==
    /\ pc      = [c \in Calls |-> "new"]
    /\ conv    = [c \in Calls |-> None]
    /\ entry   = [c \in Calls |-> None]
    /\ queues  = [k \in Convs |-> None]
    /\ users   = [e \in Calls |-> 0]
    /\ locked  = [e \in Calls |-> FALSE]
    /\ waiters = [e \in Calls |-> <<>>]
    /\ fut     = [c \in Calls |-> "pending"]
    /\ doomed  = {}

-----------------------------------------------------------------------------
(* asyncio.Lock, as the code uses it. *)

\* Lock.acquire takes the lock at once only if nobody is due to get it.
FreeToTake(e) ==
    /\ ~locked[e]
    /\ \A i \in DOMAIN waiters[e] : fut[waiters[e][i]] = "cancelled"

\* Mutant of WakeFirst: the newest waiter is woken.
WakeFirstNewest(w) ==
    IF w # <<>> /\ fut[w[Len(w)]] = "pending"
    THEN [fut EXCEPT ![w[Len(w)]] = "set"]
    ELSE fut

\* Lock._wake_up_first on the deque w.
WakeFirst(w) ==
    IF w # <<>> /\ fut[Head(w)] = "pending"
    THEN [fut EXCEPT ![Head(w)] = "set"]
    ELSE fut

\* self._waiters.remove(fut), which acquire runs however its wait ended.
Without(w, c) == RemoveAt(w, CHOOSE i \in DOMAIN w : w[i] = c)

-----------------------------------------------------------------------------
\* Mutant of ReleaseEntry: the entry goes with its holder, waiters or not.
ReleaseEntryOfHolder(c) ==
    LET e == entry[c] IN
    /\ users' = [users EXCEPT ![e] = @ - 1]
    /\ queues' = IF queues[conv[c]] = e THEN [queues EXCEPT ![conv[c]] = None] ELSE queues

\* Mutant of ReleaseEntry: a claim is given back twice.
ReleaseEntryTwice(c) ==
    LET e == entry[c] IN
    /\ users' = [users EXCEPT ![e] = @ - 2]
    /\ queues' = IF users[e] - 2 <= 0 /\ queues[conv[c]] = e
                 THEN [queues EXCEPT ![conv[c]] = None]
                 ELSE queues

(* _release_queue_entry: one user less; the last one removes the entry, if *)
(* it is still the registered one.                                         *)
ReleaseEntry(c) ==
    LET e == entry[c] IN
    /\ users' = [users EXCEPT ![e] = @ - 1]
    /\ queues' = IF users[e] - 1 <= 0 /\ queues[conv[c]] = e
                 THEN [queues EXCEPT ![conv[c]] = None]
                 ELSE queues

(* _conversation_turn up to its yield or to the suspension in acquire: look *)
(* the entry up or mint it, count this call as a user, take the lock or     *)
(* join the deque.                                                          *)
Arrive(c, k) ==
    LET e == IF queues[k] = None THEN c ELSE queues[k] IN
    /\ pc[c] = "new"
    /\ conv' = [conv EXCEPT ![c] = k]
    /\ entry' = [entry EXCEPT ![c] = e]
    /\ queues' = [queues EXCEPT ![k] = e]
    /\ users' = [users EXCEPT ![e] = @ + 1]
    /\ \/ /\ FreeToTake(e)
          /\ locked' = [locked EXCEPT ![e] = TRUE]
          /\ pc' = [pc EXCEPT ![c] = "turn"]
          /\ UNCHANGED waiters
       \/ /\ ~FreeToTake(e)
          /\ waiters' = [waiters EXCEPT ![e] = Append(@, c)]
          /\ pc' = [pc EXCEPT ![c] = "waiting"]
          /\ UNCHANGED locked
    /\ UNCHANGED <<fut, doomed>>

\* task.cancel() on a parked call: it cancels the future, or, when that one
\* is already set, leaves the cancellation for the task's next step.
CancelWait(c) ==
    /\ pc[c] = "waiting" /\ c \notin doomed
    /\ doomed' = doomed \cup {c}
    /\ fut' = IF fut[c] = "pending" THEN [fut EXCEPT ![c] = "cancelled"] ELSE fut
    /\ UNCHANGED <<pc, conv, entry, queues, users, locked, waiters>>

\* A woken call leaves the deque and holds the lock.
Resume(c) ==
    LET e == entry[c] IN
    /\ pc[c] = "waiting" /\ fut[c] = "set" /\ c \notin doomed
    /\ pc' = [pc EXCEPT ![c] = "turn"]
    /\ locked' = [locked EXCEPT ![e] = TRUE]
    /\ waiters' = [waiters EXCEPT ![e] = Without(@, c)]
    /\ UNCHANGED <<conv, entry, queues, users, fut, doomed>>

\* Mutant of AbortWait: a cancelled waiter keeps its claim on the entry.
AbortWaitKeepingEntry(c) ==
    LET e == entry[c]  rest == Without(waiters[e], c) IN
    /\ pc[c] = "waiting" /\ c \in doomed
    /\ pc' = [pc EXCEPT ![c] = "done"]
    /\ waiters' = [waiters EXCEPT ![e] = rest]
    /\ fut' = IF locked[e] THEN fut ELSE WakeFirst(rest)
    /\ UNCHANGED <<conv, entry, queues, users, locked, doomed>>

\* Mutant of AbortWait: a cancelled waiter keeps the wake-up it was given.
AbortWaitKeepingWakeUp(c) ==
    LET e == entry[c] IN
    /\ pc[c] = "waiting" /\ c \in doomed
    /\ pc' = [pc EXCEPT ![c] = "done"]
    /\ waiters' = [waiters EXCEPT ![e] = Without(@, c)]
    /\ ReleaseEntry(c)
    /\ UNCHANGED <<conv, entry, locked, fut, doomed>>

\* CancelledError in acquire: leave the deque, pass a wake-up on if the lock
\* is free, give the claim on the entry back.
AbortWait(c) ==
    LET e == entry[c]  rest == Without(waiters[e], c) IN
    /\ pc[c] = "waiting" /\ c \in doomed
    /\ pc' = [pc EXCEPT ![c] = "done"]
    /\ waiters' = [waiters EXCEPT ![e] = rest]
    /\ fut' = IF locked[e] THEN fut ELSE WakeFirst(rest)
    /\ ReleaseEntry(c)
    /\ UNCHANGED <<conv, entry, locked, doomed>>

\* The end of the turn, whatever ended it: unlock and wake, then drop the user.
Leave(c) ==
    LET e == entry[c] IN
    /\ pc[c] = "turn"
    /\ pc' = [pc EXCEPT ![c] = "done"]
    /\ locked' = [locked EXCEPT ![e] = FALSE]
    /\ fut' = WakeFirst(waiters[e])
    /\ ReleaseEntry(c)
    /\ UNCHANGED <<conv, entry, waiters, doomed>>

Next ==
    \E c \in Calls :
        \/ \E k \in Convs : Arrive(c, k)
        \/ CancelWait(c) \/ Resume(c) \/ AbortWait(c) \/ Leave(c)

Done == \A c \in Calls : pc[c] = "done"

Spec == QueueInit /\ [][Next]_queueVars

(* The event loop runs every callback that is due, and the work a turn      *)
(* protects is bounded by the request timeouts of the model client and the  *)
(* database.  Nothing forces a client to send a call or to cancel one.      *)
Fairness ==
    \A c \in Calls :
        WF_queueVars(Resume(c)) /\ WF_queueVars(AbortWait(c)) /\ WF_queueVars(Leave(c))

-----------------------------------------------------------------------------
QueueTypeOK ==
    /\ pc \in [Calls -> {"new", "waiting", "turn", "done"}]
    /\ conv \in [Calls -> Convs \cup {None}]
    /\ entry \in [Calls -> Calls \cup {None}]
    /\ queues \in [Convs -> Calls \cup {None}]
    /\ users \in [Calls -> Nat]
    /\ locked \in [Calls -> BOOLEAN]
    /\ waiters \in [Calls -> Seq(Calls)]
    /\ fut \in [Calls -> {"pending", "set", "cancelled"}]
    /\ doomed \in SUBSET Calls

(* At most one call at a time runs the agent on a conversation: "the        *)
(* overlap the queue exists to prevent" (query_database.py:144).            *)
OneTurnPerConversation ==
    \A c, d \in Calls :
        pc[c] = "turn" /\ pc[d] = "turn" /\ conv[c] = conv[d] => c = d

(* Every call that holds or awaits a conversation's turn uses the entry the *)
(* registry holds, so a later call can never mint a second lock beside it.  *)
OneEntryPerConversation ==
    \A c \in Live : queues[conv[c]] = entry[c]

(* The registry is bounded by concurrency: an entry stays only while some   *)
(* live call uses it (query_database.py:151), however the calls ended.      *)
NoEntryLeaks ==
    \A k \in Convs : queues[k] # None => \E c \in Live : conv[c] = k

(* The queue implements SerialTurns: turns are exclusive and given in the   *)
(* order of arrival, and no call overtakes one that waits and has not been  *)
(* cancelled.  A cancelled waiter is out of line from the cancellation on,  *)
(* not from the later step in which its task sees it.                       *)
phaseBar ==
    [c \in Calls |->
        IF pc[c] = "done" \/ (pc[c] = "waiting" /\ c \in doomed) THEN "over"
        ELSE IF pc[c] = "waiting" THEN "line"
        ELSE pc[c]]

Before(d, c) ==
    \E i, j \in DOMAIN waiters[entry[c]] :
        i < j /\ waiters[entry[c]][i] = d /\ waiters[entry[c]][j] = c

aheadBar ==
    [c \in Calls |->
        IF phaseBar[c] = "line"
        THEN {d \in Calls : phaseBar[d] = "line" /\ Before(d, c)}
        ELSE {}]

Serial == INSTANCE SerialTurns
              WITH phase <- phaseBar, at <- conv, ahead <- aheadBar

ImplementsSerialTurns == Serial!Spec

(* No wake-up is lost: a call that waits gets its turn or is cancelled.     *)
EveryWaitEnds == \A c \in Calls : pc[c] = "waiting" ~> pc[c] # "waiting"
=============================================================================
