\* Two calls of any kind, two items, a stored row the models reject and a foreign
\* one; or an export, a clear and an addition.
SPECIFICATION MCSpec
CONSTANTS
    p1 = p1
    d1 = d1
    Calls <- MCCalls
    Pairs = {p1}
    Docs = {d1}
    Malformed = Malformed
    Foreign = Foreign
    Batches <- MCBatches
    Agent = Agent
    StoreThreads = 2
    MinRows = 2
    MaxFailures = 1
INVARIANT
    NoDoubleSave
PROPERTIES
    AddedIsStored
    ExportHeldEverything
    EveryCallEnds
