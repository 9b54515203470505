---------------------------- MODULE AtomicTurns ----------------------------
(***************************************************************************)
(* What query_database promises about conversations, without locks, agents  *)
(* or objects: a call has a conversation to itself from the moment it reads *)
(* it to the moment it is over, and then, in one step, either leaves what   *)
(* it found followed by its own messages, or leaves nothing.  Conversations *)
(* are kept in a bounded store, so any one may be forgotten as a whole; a   *)
(* call whose conversation was forgotten under it brings it back.           *)
(***************************************************************************)
EXTENDS Naturals, Sequences

CONSTANTS Calls, Convs, None

VARIABLES
    fate,       \* new, turn, and how it went: finished, failed, dropped
    at,         \* the conversation a call has to itself
    found,      \* what it held when the call's turn began
    history     \* the messages of each conversation

vars == <<fate, at, found, history>>

Busy(k) == \E c \in Calls : fate[c] = "turn" /\ at[c] = k

\* Every tool use is answered by the message after it.
Closed(m) ==
    \A i \in DOMAIN m :
        /\ m[i].kind \notin {"mixed", "asking"}
        /\ m[i].kind = "calls" => i < Len(m) /\ m[i + 1].kind = "results"

\* What c found, and after it messages of c alone.
Continues(h, c) ==
    /\ Len(found[c]) <= Len(h)
    /\ \A i \in DOMAIN h : IF i <= Len(found[c]) THEN h[i] = found[c][i] ELSE h[i].by = c
    /\ Closed(h)

\* Conversations other than k stay as they are or are forgotten.
OthersStay(k) ==
    /\ DOMAIN history' = Convs
    /\ \A x \in Convs \ {k} : history'[x] \in {history[x], <<>>}

Init ==
    /\ fate    = [c \in Calls |-> "new"]
    /\ at      = [c \in Calls |-> None]
    /\ found   = [c \in Calls |-> <<>>]
    /\ history = [k \in Convs |-> <<>>]

Begin(c, k) ==
    /\ fate[c] = "new"
    /\ fate' = [fate EXCEPT ![c] = "turn"]
    /\ at' = [at EXCEPT ![c] = k]
    /\ ~Busy(k)
    /\ found' = [found EXCEPT ![c] = history[k]]
    /\ history'[k] = history[k] /\ OthersStay(k)

\* The turn of c is over.
Over(c, how) ==
    /\ fate[c] = "turn"
    /\ fate' = [fate EXCEPT ![c] = how]
    /\ at' = [at EXCEPT ![c] = None]
    /\ found' = [found EXCEPT ![c] = <<>>]
    /\ OthersStay(at[c])

Finish(c) == Over(c, "finished") /\ Continues(history'[at[c]], c)

\* A failed call saves nothing: a conversation that was forgotten stays so.
Fail(c) ==
    /\ Over(c, "failed")
    /\ \/ Continues(history'[at[c]], c)
       \/ history[at[c]] = <<>> /\ history'[at[c]] = <<>>

Drop(c) == Over(c, "dropped") /\ history'[at[c]] \in {history[at[c]], found[c]}

GiveUp(c) ==
    /\ fate[c] = "new"
    /\ fate' = [fate EXCEPT ![c] = "dropped"]
    /\ UNCHANGED <<at, found, history>>

Next ==
    \E c \in Calls :
        \/ \E k \in Convs : Begin(c, k)
        \/ Finish(c) \/ Fail(c) \/ Drop(c) \/ GiveUp(c)

Spec == Init /\ [][Next]_vars
=============================================================================
