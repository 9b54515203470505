\* Three calls on two conversations in a store that holds one: a history of two
\* turns under a third one, and conversations evicted, resaved and recreated.
SPECIFICATION MCSpec
SYMMETRY Symmetry
CONSTANTS
    Calls = {c1, c2, c3}
    Convs = {k1, k2}
    None = None
    MaxConversations = 1
    MaxRounds = 2
    MaxBadRounds = 2
INVARIANTS
    DroppedCallsLeaveNothing
    HistoryReplayable
PROPERTIES
    EarlierTurnsKept
    FinishedTurnIsStored
    TurnsAreAtomic
