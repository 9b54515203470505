\* Three calls queue on one conversation; each run may take one round of tools.
SPECIFICATION MCFairSpec
CONSTANTS
    Calls = {c1, c2, c3}
    Convs = {k1}
    None = None
    MaxConversations = 1
    MaxRounds = 1
    MaxBadRounds = 1
PROPERTY
    EveryCallEnds
