SPECIFICATION FairSpec
CONSTANTS
    Workers = {w1, w2}
    Client = c
    Threads <- MCThreads
    EventIds = {1, 2}
    Batches <- MCBatches
    MaxEvents = 3
    MaxPuts = 3
    MaxStarts = 3
    None = None
INVARIANTS IngestionSound
PROPERTIES AcceptedProcessed StopEnds
CHECK_DEADLOCK FALSE
