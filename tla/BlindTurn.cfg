\* Two calls on two conversations share the agent memory.
SPECIFICATION MCSpec
CONSTANTS
    Calls = {c1, c2}
    Convs = {k1, k2}
    None = None
    MaxConversations = 2
    MaxRounds = 1
    MaxBadRounds = 1
INVARIANT
    BlindTurnsNeverSucceed
