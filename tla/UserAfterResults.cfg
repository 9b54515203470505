\* Two calls, one after the other, on one conversation.
SPECIFICATION MCSpec
CONSTANTS
    Calls = {c1, c2}
    Convs = {k1}
    None = None
    MaxConversations = 1
    MaxRounds = 1
    MaxBadRounds = 1
INVARIANT
    NoUserAfterResults
