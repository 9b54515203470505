----------------------------- MODULE MemoryOpen -----------------------------
(***************************************************************************)
(* The agent's memory opens its Chroma client on first use                  *)
(* (ChromaAgentMemory._get_client), on whichever of its two threads gets     *)
(* there, without a lock; query_database reads open_error on the event loop  *)
(* when a turn ends, and tells its caller that saved memory is unavailable.  *)
(* A step below is one access to the shared attributes.                     *)
(***************************************************************************)
EXTENDS Integers, FiniteSets

CONSTANTS
    Turns,          \* query_database calls that share the memory
    MemoryThreads   \* max_workers of the memory's executor (2)

ASSUME MemoryOpenAssumption == IsFiniteSet(Turns) /\ MemoryThreads \in Nat \ {0}

VARIABLES
    client,      \* _client is set
    openError,   \* _open_error is set
    turn,        \* each turn: where it, or its search, is; what came of the
                 \* search, and what its caller was told
    opened       \* history: an open has succeeded

memoryVars == <<client, openError, turn, opened>>

\* A search on its thread.
OnThread == {"opening", "opened", "cleared", "raised"}

MemoryOpenInit ==
    /\ client = FALSE /\ openError = FALSE /\ opened = FALSE
    /\ turn = [t \in Turns |-> [at |-> "running", search |-> "none", told |-> "nothing"]]

-----------------------------------------------------------------------------
Goes(t, place) == turn' = [turn EXCEPT ![t].at = place]
SearchEnds(t, how) == turn' = [turn EXCEPT ![t].at = "running", ![t].search = how]

\* A thread takes the search of a turn.  It finds a client, or opens one.
SearchStarts(t) ==
    /\ turn[t].at = "running" /\ turn[t].search = "none"
    /\ Cardinality({u \in Turns : turn[u].at \in OnThread}) < MemoryThreads
    /\ IF client THEN SearchEnds(t, "found") ELSE Goes(t, "opening")
    /\ UNCHANGED <<client, openError, opened>>

\* PersistentClient and collection_state return, or one of them raises.
OpenEnds(t) ==
    /\ turn[t].at = "opening"
    /\ \/ Goes(t, "opened") /\ opened' = TRUE
       \/ Goes(t, "raised") /\ UNCHANGED opened
    /\ UNCHANGED <<client, openError>>

\* self._open_error = None, then self._client = client
ErrorCleared(t) ==
    /\ turn[t].at = "opened" /\ Goes(t, "cleared")
    /\ openError' = FALSE
    /\ UNCHANGED <<client, opened>>

ClientSet(t) ==
    /\ turn[t].at = "cleared" /\ SearchEnds(t, "found")
    /\ client' = TRUE
    /\ UNCHANGED <<openError, opened>>

\* self._open_error = exc
ErrorSet(t) ==
    /\ turn[t].at = "raised" /\ SearchEnds(t, "failed")
    /\ openError' = TRUE
    /\ UNCHANGED <<client, opened>>

Told(t, what) == turn' = [turn EXCEPT ![t].at = "over", ![t].told = what]

\* Mutant of TurnEnds: open_error is the attribute, whether a client is open or not.
TurnEndsByError(t) ==
    /\ turn[t].at = "running" /\ Goes(t, "ending")
    /\ UNCHANGED <<client, openError, opened>>

\* The turn ends, with a search or without: open_error looks for a client first.
TurnEnds(t) ==
    /\ turn[t].at = "running"
    /\ IF client THEN Told(t, "answer") ELSE Goes(t, "ending")
    /\ UNCHANGED <<client, openError, opened>>

\* Without one, for the error of the latest failed open.
ErrorRead(t) ==
    /\ turn[t].at = "ending"
    /\ Told(t, IF openError THEN "memory unavailable" ELSE "answer")
    /\ UNCHANGED <<client, openError, opened>>

MemoryStep(t) ==
    \/ SearchStarts(t) \/ OpenEnds(t) \/ ErrorCleared(t) \/ ClientSet(t) \/ ErrorSet(t)
    \/ TurnEnds(t) \/ ErrorRead(t)

-----------------------------------------------------------------------------
\* "a failed open that finishes after a concurrent successful one (two executor
\* threads) cannot leave it set" (agent_memory.py:158), and the error is not lost
\* either: a turn that found the memory open is never told that it is not, and one
\* that could not open it is told so, unless another open succeeded meanwhile.
OpenErrorIsTrue ==
    \A t \in Turns : turn[t].at = "over" =>
        /\ turn[t].search = "found" => turn[t].told = "answer"
        /\ turn[t].search = "failed" /\ ~opened => turn[t].told = "memory unavailable"
=============================================================================
