\* Four calls on two conversations: a holder, a woken waiter, a waiter behind
\* it and a newcomer can meet on one conversation while the other one is used.
SPECIFICATION MCFairSpec
CONSTANTS
    Calls = {c1, c2, c3, c4}
    Convs = {k1, k2}
    None = None
INVARIANTS
    QueueTypeOK
    OneTurnPerConversation
    NoEntryLeaks
PROPERTIES
    ImplementsSerialTurns
    EveryWaitEnds
