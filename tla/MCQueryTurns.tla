--------------------------- MODULE MCQueryTurns ---------------------------
(***************************************************************************)
(* QueryTurns for TLC: calls that are over stutter, everything else that   *)
(* stops is a deadlock.                                                     *)
(***************************************************************************)
EXTENDS QueryTurns

Termination == Done /\ UNCHANGED vars

MCNext == TurnsNext \/ Termination

MCSpec == Init /\ [][MCNext]_vars

\* Calls and conversations are interchangeable.
Symmetry == Permutations(Calls) \cup Permutations(Convs)

MCFairSpec == MCSpec /\ TurnsFairness
=============================================================================
