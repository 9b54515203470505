---------------------------- MODULE QueryTurns ----------------------------
(***************************************************************************)
(* A query_database call from its arrival to its result: the turn queue    *)
(* (TurnQueue), the agent's run on the conversation it protects            *)
(* (agent/core/agent/agent.py), the LRU conversation store                 *)
(* (conversation_store.py), the trim and the rollback of the call's        *)
(* messages, and the one agent memory all runs share.                      *)
(*                                                                         *)
(* A run suspends in four places: a slash command in the memory store, the *)
(* memory search before the first model request, the model request, and    *)
(* the tools of one round.  Everything between two of them is one action,  *)
(* so the end of a run saves, trims, reads open_error, rolls back and      *)
(* gives the turn back in a single step.                                   *)
(*                                                                         *)
(* A Conversation object is named after the call that created it: it lives *)
(* in the store, in the run that is using it, or, once evicted, only there.*)
(***************************************************************************)
EXTENDS TurnQueue

CONSTANTS
    MaxConversations,   \* BoundedConversationStore._max
    MaxRounds,          \* the effective max_tool_iterations
    MaxBadRounds        \* MAX_CONSECUTIVE_ARGUMENT_FAILURES

ASSUME BoundsAssumption ==
    /\ MaxConversations \in Nat \ {0}
    /\ MaxRounds \in Nat \ {0}
    /\ MaxBadRounds \in Nat \ {0}

VARIABLES
    lru,        \* the store's ids, least recently used first
    held,       \* the Conversation object stored under an id
    msgs,       \* the messages of each Conversation object
    mine,       \* the object a run works on
    base,       \* the run's baseline: the messages it found
    step,       \* where a run is suspended: idle (nowhere), command, search, model, tools
    rounds,     \* tool_iterations
    bad,        \* consecutive_argument_failures
    outcome,    \* how a call ended: none, answered, stopped, failed, memory, cancelled
    memory,     \* the shared ChromaAgentMemory: closed, failed, open
    blind       \* runs whose own memory search could not open the store

runVars == <<lru, held, msgs, mine, base, step, rounds, bad, outcome, memory, blind>>
vars == <<queueVars, runVars>>

(* A message is known by the call that added it and by its kind: `user`,     *)
(* `results`, `answer`, or one with tool_use blocks.  `calls` is an assistant *)
(* message whose tool_use blocks are all tool calls; `mixed` also carries a   *)
(* block that is no tool call (one without a name, kept in provider_content   *)
(* only); `asking` is a final reply that carries such a block.  The results   *)
(* of one round are added together: one message here.                        *)
Msg(c, kind) == [by |-> c, kind |-> kind]

Init ==
    /\ QueueInit
    /\ lru     = <<>>
    /\ held    = [k \in Convs |-> None]
    /\ msgs    = [o \in Calls |-> <<>>]
    /\ mine    = [c \in Calls |-> None]
    /\ base    = [c \in Calls |-> 0]
    /\ step    = [c \in Calls |-> "idle"]
    /\ rounds  = [c \in Calls |-> 0]
    /\ bad     = [c \in Calls |-> 0]
    /\ outcome = [c \in Calls |-> "none"]
    /\ memory  = "closed"
    /\ blind   = {}

-----------------------------------------------------------------------------
(* BoundedConversationStore. *)

\* move_to_end of an id that may be new.
MoveToEnd(k) == Append(RemoveFirst(lru, k), k)

\* get_conversation marks recency when it finds the conversation.
Touched(k) == IF held[k] = None THEN lru ELSE MoveToEnd(k)

\* _remember: store object o under k, then evict the oldest while over the cap.
Remember(k, o) ==
    LET grown == MoveToEnd(k)
        kept  == SubSeq(grown, 1 + Max({0, Len(grown) - MaxConversations}), Len(grown))
    IN  /\ lru' = kept
        /\ held' = [x \in Convs |-> IF ~Contains(kept, x) THEN None
                                     ELSE IF x = k THEN o ELSE held[x]]

\* truncate_messages on a message list: nothing to drop unless it is longer.
Truncated(m, length) == SubSeq(m, 1, Min({length, Len(m)}))

-----------------------------------------------------------------------------
(* The trim (_tool_use_ids, _first_unanswered_tool_use). *)

Unanswered(m, i) ==
    \/ m[i].kind \in {"mixed", "asking"}
    \/ m[i].kind = "calls" /\ (i = Len(m) \/ m[i + 1].kind # "results")

\* Mutant of Trimmed: the call's history is left as it is.
TrimmedNever(m, start) == m

\* The list a finished call leaves: cut before its first unanswered tool use.
Trimmed(m, start) ==
    LET open == {i \in start + 1 .. Len(m) : Unanswered(m, i)}
    IN  IF open = {} THEN m ELSE SubSeq(m, 1, Min(open) - 1)

-----------------------------------------------------------------------------
(* The shared memory: _get_client tries to open the store whenever it has no *)
(* client yet, records a failure, and never closes an open one.              *)
UseMemory == memory' \in IF memory = "open" THEN {"open"} ELSE {"failed", "open"}

\* Start-up warming, a memory tool, the search thread of a cancelled call.
MemoryUsedElsewhere ==
    /\ memory # "open"
    /\ UseMemory
    /\ UNCHANGED <<queueVars, lru, held, msgs, mine, base, step, rounds, bad, outcome, blind>>

-----------------------------------------------------------------------------
(* The run. *)

\* Persist a conversation that was new when the run loaded it, add the user's
\* message, suspend in the memory search.
AskQuestion(c, k, o, found) ==
    /\ IF o = c THEN Remember(k, o) ELSE lru' = Touched(k) /\ UNCHANGED held
    /\ msgs' = [msgs EXCEPT ![o] = Append(found, Msg(c, "user"))]
    /\ step' = [step EXCEPT ![c] = "search"]

\* Mutant of StartRun: the rollback goes back to an empty conversation.
StartRunNoBaseline(c, k) ==
    LET o == IF held[k] = None THEN c ELSE held[k] IN
    /\ mine' = [mine EXCEPT ![c] = o]
    /\ UNCHANGED base
    /\ \/ AskQuestion(c, k, o, msgs[o])
       \/ /\ step' = [step EXCEPT ![c] = "command"]
          /\ lru' = Touched(k)
          /\ UNCHANGED <<held, msgs>>
    /\ UNCHANGED <<rounds, bad, outcome, memory, blind>>

\* The turn is held: read the baseline, load or create the conversation, then
\* either a slash command takes the message or it goes to the model.
StartRun(c, k) ==
    LET o == IF held[k] = None THEN c ELSE held[k] IN
    /\ mine' = [mine EXCEPT ![c] = o]
    /\ base' = [base EXCEPT ![c] = Len(msgs[o])]
    /\ \/ AskQuestion(c, k, o, msgs[o])
       \/ /\ step' = [step EXCEPT ![c] = "command"]
          /\ lru' = Touched(k)
          /\ UNCHANGED <<held, msgs>>
    /\ UNCHANGED <<rounds, bad, outcome, memory, blind>>

CallArrives(c, k) ==
    /\ Arrive(c, k)
    /\ IF pc'[c] = "turn" THEN StartRun(c, k) ELSE UNCHANGED runVars

CallResumes(c) == Resume(c) /\ StartRun(c, conv[c])

WaitCancelled(c) == CancelWait(c) /\ UNCHANGED runVars

WaitAborted(c) ==
    /\ AbortWait(c)
    /\ outcome' = [outcome EXCEPT ![c] = "cancelled"]
    /\ UNCHANGED <<lru, held, msgs, mine, base, step, rounds, bad, memory, blind>>

\* The locals of a run end with it.
LocalsGone(c) ==
    /\ step' = [step EXCEPT ![c] = "idle"]
    /\ mine' = [mine EXCEPT ![c] = None]
    /\ base' = [base EXCEPT ![c] = 0]
    /\ rounds' = [rounds EXCEPT ![c] = 0]
    /\ bad' = [bad EXCEPT ![c] = 0]

\* The end of a call that was not cancelled, its conversation holding m: trim
\* the stored conversation, roll it back if the memory reports an open error,
\* release the turn.  `how` is what the caller sees unless the memory is shut.
Finish(c, m, how) ==
    LET kept == IF held'[conv[c]] = None THEN m
                ELSE IF memory' = "failed" THEN Truncated(Trimmed(m, base[c]), base[c])
                ELSE Trimmed(m, base[c])
    IN  /\ msgs' = [msgs EXCEPT ![mine[c]] = kept]
        /\ outcome' = [outcome EXCEPT ![c] = IF memory' = "failed" THEN "memory" ELSE how]
        /\ LocalsGone(c)
        /\ Leave(c)

\* Mutant of FinishSaved: the conversation is not saved at the end of a run.
FinishUnsaved(c, m, how) ==
    /\ lru' = Touched(conv[c])
    /\ UNCHANGED held
    /\ Finish(c, m, how)

\* A run that reached its end saves its conversation first, evicted or not.
FinishSaved(c, m, how) ==
    /\ Remember(conv[c], mine[c])
    /\ Finish(c, m, how)

\* A slash command ends, with or without a look into the memory: no message,
\* but the conversation is saved.
CommandEnds(c) ==
    /\ step[c] = "command"
    /\ UseMemory \/ UNCHANGED memory
    /\ FinishSaved(c, msgs[mine[c]], "answered")
    /\ UNCHANGED blind

\* The memory search ends; a failed one leaves the prompt as it was.
SearchEnds(c) ==
    /\ step[c] = "search"
    /\ UseMemory
    /\ blind' = IF memory' = "failed" THEN blind \cup {c} ELSE blind
    /\ step' = [step EXCEPT ![c] = "model"]
    /\ UNCHANGED <<queueVars, lru, held, msgs, mine, base, rounds, bad, outcome>>

\* The model asks for tools: the request is kept in the history before they run.
ModelCallsTools(c) ==
    /\ step[c] = "model"
    /\ \E kind \in {"calls", "mixed"} :
        msgs' = [msgs EXCEPT ![mine[c]] = Append(@, Msg(c, kind))]
    /\ rounds' = [rounds EXCEPT ![c] = @ + 1]
    /\ step' = [step EXCEPT ![c] = "tools"]
    /\ UNCHANGED <<queueVars, lru, held, mine, base, bad, outcome, memory, blind>>

\* The model answers: with text, with a stray tool_use block, or with nothing.
ModelAnswers(c) ==
    /\ step[c] = "model"
    /\ UNCHANGED memory
    /\ \E reply \in {<<>>, <<Msg(c, "answer")>>, <<Msg(c, "asking")>>} :
        FinishSaved(c, msgs[mine[c]] \o reply, "answered")
    /\ UNCHANGED blind

\* The model request raises: send_message turns it into an error answer and the
\* final save is skipped, so an evicted conversation is gone.
ModelFails(c) ==
    /\ step[c] = "model"
    /\ lru' = Touched(conv[c])
    /\ UNCHANGED <<held, memory>>
    /\ Finish(c, msgs[mine[c]], "failed")
    /\ UNCHANGED blind

\* One round of tools ends (the registry turns every tool's exception into a
\* result): its results are added; the loop stops after MaxBadRounds rounds in
\* a row whose calls all had bad arguments, or when no iteration is left.
ToolsEnd(c, allBad) ==
    LET m == Append(msgs[mine[c]], Msg(c, "results"))
        failures == IF allBad THEN bad[c] + 1 ELSE 0
        stop == failures >= MaxBadRounds \/ rounds[c] >= MaxRounds
    IN  /\ step[c] = "tools"
        /\ UNCHANGED <<memory, blind>>
        /\ \/ /\ stop
              /\ FinishSaved(c, m, "stopped")
           \/ /\ ~stop
              /\ bad' = [bad EXCEPT ![c] = failures]
              /\ msgs' = [msgs EXCEPT ![mine[c]] = m]
              /\ step' = [step EXCEPT ![c] = "model"]
              /\ UNCHANGED <<queueVars, lru, held, mine, base, rounds, outcome>>

\* Mutant of RunCancelled: a cancelled call keeps its messages.
RunCancelledKeepingMessages(c) ==
    /\ pc[c] = "turn"
    /\ outcome' = [outcome EXCEPT ![c] = "cancelled"]
    /\ LocalsGone(c)
    /\ Leave(c)
    /\ UNCHANGED <<lru, held, msgs, memory, blind>>

\* Mutant of RunCancelled: the conversation is dropped with the call's messages.
RunCancelledForgetting(c) ==
    /\ pc[c] = "turn"
    /\ lru' = RemoveFirst(lru, conv[c])
    /\ held' = [held EXCEPT ![conv[c]] = None]
    /\ outcome' = [outcome EXCEPT ![c] = "cancelled"]
    /\ LocalsGone(c)
    /\ Leave(c)
    /\ UNCHANGED <<msgs, memory, blind>>

\* CancelledError at any suspension of the run: roll the stored conversation
\* back to the baseline (nothing to do when it was evicted), release the turn.
RunCancelled(c) ==
    LET o == held[conv[c]] IN
    /\ pc[c] = "turn"
    /\ msgs' = IF o = None THEN msgs ELSE [msgs EXCEPT ![o] = Truncated(@, base[c])]
    /\ outcome' = [outcome EXCEPT ![c] = "cancelled"]
    /\ LocalsGone(c)
    /\ Leave(c)
    /\ UNCHANGED <<lru, held, memory, blind>>

RunProgress(c) ==
    \/ CommandEnds(c) \/ SearchEnds(c)
    \/ ModelCallsTools(c) \/ ModelAnswers(c) \/ ModelFails(c)
    \/ \E allBad \in BOOLEAN : ToolsEnd(c, allBad)

TurnsNext ==
    \/ \E c \in Calls :
        \/ \E k \in Convs : CallArrives(c, k)
        \/ CallResumes(c) \/ WaitCancelled(c) \/ WaitAborted(c)
        \/ RunProgress(c) \/ RunCancelled(c)
    \/ MemoryUsedElsewhere

TurnsSpec == Init /\ [][TurnsNext]_vars

(* The event loop runs what is due, and every request a run waits for ends:  *)
(* the model client, the database drivers and the memory threads return or   *)
(* time out.  That is what TurnQueue assumes of Leave, no longer assumed.    *)
TurnsFairness ==
    \A c \in Calls :
        WF_vars(CallResumes(c)) /\ WF_vars(WaitAborted(c)) /\ WF_vars(RunProgress(c))

-----------------------------------------------------------------------------
StoredMessages(k) == IF held[k] = None THEN <<>> ELSE msgs[held[k]]

(* The messages of two calls never interleave in a conversation: each call's *)
(* messages are one block of it.                                             *)
TurnsNeverInterleave ==
    \A k \in Convs : LET m == StoredMessages(k) IN
        \A i, j, l \in DOMAIN m :
            i < j /\ j < l /\ m[i].by = m[l].by => m[j].by = m[i].by

(* A call that was cancelled, or that ended while the memory store could not *)
(* be opened, leaves no message for the next call to build on.               *)
DroppedCallsLeaveNothing ==
    \A k \in Convs : \A i \in DOMAIN StoredMessages(k) :
        outcome[StoredMessages(k)[i].by] \notin {"cancelled", "memory"}

(* A conversation no run is using can be replayed to the model API: every    *)
(* stored tool_use is answered by the message after it.                      *)
HistoryReplayable ==
    \A k \in Convs :
        (\A c \in Calls : pc[c] = "turn" => conv[c] # k)
        => \A i \in DOMAIN StoredMessages(k) : ~Unanswered(StoredMessages(k), i)

(* Neither the trim nor a rollback cuts an earlier call's history: while a   *)
(* conversation stays stored, the messages of calls that are over stay.      *)
EarlierTurnsKept ==
    [][\A k \in Convs : held[k] # None /\ held'[k] = held[k] =>
         \A i \in DOMAIN StoredMessages(k) :
             pc[StoredMessages(k)[i].by] = "done" =>
                 i \in DOMAIN StoredMessages(k)' /\ StoredMessages(k)'[i] = StoredMessages(k)[i]]_vars

(* A run that reached its end leaves its conversation in the store, also when *)
(* other conversations pushed it out while the run was suspended.            *)
FinishedTurnIsStored ==
    [][\A c \in Calls : outcome[c] = "none" /\ outcome'[c] \in {"answered", "stopped"}
         => held'[conv[c]] = mine[c]]_vars

(* Every call that waits for its turn or holds it ends.                      *)
EveryCallEnds == \A c \in Calls : pc[c] \in {"waiting", "turn"} ~> pc[c] = "done"

(* Whole calls implement AtomicTurns: on its conversation a call is a         *)
(* transaction.  While a run is under way the conversation is what the run    *)
(* found, and its end replaces that in one step.                             *)
fateBar ==
    [c \in Calls |->
        IF pc[c] = "turn" THEN "turn"
        ELSE IF pc[c] # "done" THEN "new"
        ELSE IF outcome[c] \in {"cancelled", "memory"} THEN "dropped"
        ELSE IF outcome[c] = "failed" THEN "failed"
        ELSE "finished"]

atBar == [c \in Calls |-> IF pc[c] = "turn" THEN conv[c] ELSE None]

foundBar ==
    [c \in Calls |-> IF pc[c] = "turn" THEN SubSeq(msgs[mine[c]], 1, base[c]) ELSE <<>>]

historyBar ==
    [k \in Convs |->
        LET run == {c \in Calls : pc[c] = "turn" /\ conv[c] = k} IN
        IF held[k] = None THEN <<>>
        ELSE IF run = {} THEN msgs[held[k]]
        ELSE SubSeq(msgs[held[k]], 1, base[CHOOSE c \in run : TRUE])]

Atomic == INSTANCE AtomicTurns
              WITH fate <- fateBar, at <- atBar, found <- foundBar, history <- historyBar

TurnsAreAtomic == Atomic!Spec

(* What query_database.py:754 says of open_error: "a turn that ran without   *)
(* saved memory never reads as a success".                                   *)
BlindTurnsNeverSucceed == \A c \in blind : outcome[c] # "answered"

(* What agent.py:1119 asks of the history: "a tool message followed directly *)
(* by the next user message breaks the history".                             *)
NoUserAfterResults ==
    \A k \in Convs : LET m == StoredMessages(k) IN
        \A i \in DOMAIN m : i < Len(m) /\ m[i].kind = "results" => m[i + 1].kind # "user"
=============================================================================
