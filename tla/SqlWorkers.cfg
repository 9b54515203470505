\* Four calls for two permits: two hold them, a woken caller and one behind it or
\* a newcomer.  One permit may be lost, and a driver call may keep its permit
\* for ever.
SPECIFICATION MCFairSpec
CONSTANTS
    Queries = {q1, q2, q3, q4}
    Slots = 2
    MaxLost = 1
INVARIANTS
    PermitsConserved
    NoIdlePermit
PROPERTIES
    ServedInOrder
    EveryWaitEnds
