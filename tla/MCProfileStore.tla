--------------------------- MODULE MCProfileStore ---------------------------
(***************************************************************************)
(* ProfileStore for TLC: once every call is over the process may stutter;   *)
(* everything else that stops is a deadlock.                                *)
(***************************************************************************)
EXTENDS ProfileStore

Termination == Done /\ UNCHANGED vars

MCNext == Next \/ Termination

MCSpec == Init /\ [][MCNext]_vars

Symmetry == Permutations(Calls) \cup Permutations(Values)
=============================================================================
