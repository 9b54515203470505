-------------------------- MODULE MCMemoryImports --------------------------
(***************************************************************************)
(* MemoryImports for TLC.  Calls are numbers, in the order in which they are *)
(* sent: they are interchangeable, and this names them.  Two are of any kind; *)
(* the third one joins an export, so that rows can be cleared and counted     *)
(* again between its two steps.  Calls that are over stutter, everything else *)
(* that stops is a deadlock.                                                *)
(***************************************************************************)
EXTENDS MemoryImports

CONSTANTS p1, d1

MCCalls == 1..3
MCBatches == {<<p1, p1>>, <<p1, d1>>, <<Malformed, d1>>}

Sent == {c \in Calls : call[c].at # "new"}

\* Three calls: an export, a clear and an addition that all go well.
ExportClearAdd ==
    /\ {call[c].kind : c \in Calls} = {"export", "clear", "add"}
    /\ \A c \in Calls : call[c].at # "cancelled" /\ call[c].items \in {<<>>, <<p1, d1>>}
    /\ failures = 0

Bounded ==
    /\ \A c \in Sent : 1..c \subseteq Sent
    /\ 3 \in Sent => ExportClearAdd

Termination ==
    /\ \A c \in Sent : call[c].at \in Over
    /\ Cardinality(Sent) > 1 /\ \A p \in Processes : worker[p] = <<>>
    /\ submitted = {} /\ saving = {}
    /\ UNCHANGED vars

MCNext == (Next /\ Bounded') \/ Termination
MCSpec == Init /\ [][MCNext]_vars /\ Fairness
=============================================================================
