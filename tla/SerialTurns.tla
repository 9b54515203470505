---------------------------- MODULE SerialTurns ----------------------------
(***************************************************************************)
(* What the turn queue promises its callers, with no lock and no registry: *)
(* a conversation is one resource, a call asks for it, gets it in the order *)
(* of asking, and gives it back; a call that is still in line may give up.  *)
(***************************************************************************)
CONSTANTS Calls, Convs, None

VARIABLES
    phase,  \* new, line, turn, over
    at,     \* the conversation a call asked for
    ahead   \* the calls still in line before a call in line

vars == <<phase, at, ahead>>

Line(k) == {c \in Calls : phase[c] = "line" /\ at[c] = k}
Busy(k) == \E c \in Calls : phase[c] = "turn" /\ at[c] = k

Init ==
    /\ phase = [c \in Calls |-> "new"]
    /\ at    = [c \in Calls |-> None]
    /\ ahead = [c \in Calls |-> {}]

\* Nobody is before it: the call asks and begins at once.
AskAndBegin(c, k) ==
    /\ phase[c] = "new" /\ ~Busy(k) /\ Line(k) = {}
    /\ phase' = [phase EXCEPT ![c] = "turn"]
    /\ at' = [at EXCEPT ![c] = k]
    /\ UNCHANGED ahead

Ask(c, k) ==
    /\ phase[c] = "new"
    /\ phase' = [phase EXCEPT ![c] = "line"]
    /\ at' = [at EXCEPT ![c] = k]
    /\ ahead' = [ahead EXCEPT ![c] = Line(k)]

LeaveLine(c) == ahead' = [d \in Calls |-> IF d = c THEN {} ELSE ahead[d] \ {c}]

Begin(c) ==
    /\ phase[c] = "line" /\ ~Busy(at[c]) /\ ahead[c] = {}
    /\ phase' = [phase EXCEPT ![c] = "turn"]
    /\ LeaveLine(c)
    /\ UNCHANGED at

GiveUp(c) ==
    /\ phase[c] = "line"
    /\ phase' = [phase EXCEPT ![c] = "over"]
    /\ LeaveLine(c)
    /\ UNCHANGED at

End(c) ==
    /\ phase[c] = "turn"
    /\ phase' = [phase EXCEPT ![c] = "over"]
    /\ UNCHANGED <<at, ahead>>

Next ==
    \E c \in Calls :
        \/ \E k \in Convs : AskAndBegin(c, k) \/ Ask(c, k)
        \/ Begin(c) \/ GiveUp(c) \/ End(c)

Spec == Init /\ [][Next]_vars
=============================================================================
