-------------------------- MODULE MCMemoryListing --------------------------
(***************************************************************************)
(* MemoryListing for TLC.  No deadlock to look for: a listing can always be *)
(* asked for again.                                                         *)
(***************************************************************************)
EXTENDS MemoryListing

\* Writers are interchangeable, and so are ids.
Symmetry == Permutations(Writers) \cup Permutations(Ids)

FairSpec == Spec /\ Fairness
=============================================================================
