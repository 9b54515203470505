---------------------------- MODULE MCSqlWorkers ----------------------------
(***************************************************************************)
(* SqlWorkers for TLC: once every call is over and every permit back, the   *)
(* system stutters; every other state without a step is a deadlock.         *)
(***************************************************************************)
EXTENDS SqlWorkers

Termination == Done /\ UNCHANGED vars

MCNext == Next \/ Termination

MCFairSpec == Init /\ [][MCNext]_vars /\ Fairness
=============================================================================
