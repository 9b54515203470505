---------------------------- MODULE MCTurnQueue ----------------------------
(***************************************************************************)
(* TurnQueue for TLC.  A state in which every call is over has no next      *)
(* step; Termination lets it stutter, so that the deadlock check refuses    *)
(* every other state that is stuck.                                         *)
(***************************************************************************)
EXTENDS TurnQueue

Termination == Done /\ UNCHANGED queueVars

MCNext == Next \/ Termination

MCSpec == QueueInit /\ [][MCNext]_queueVars

MCFairSpec == MCSpec /\ Fairness
=============================================================================
