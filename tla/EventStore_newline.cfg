CONSTANTS
    Procs = {p1}
    EventIds = {1, 2}
    Partitions = {1, 2}
    Bodies = {"x", "y"}
    Batches <- MCBatches
    MaxFaults = 2
    TearAtNewline = TRUE
    None = None
SPECIFICATION Spec

INVARIANT AckedStored
CHECK_DEADLOCK FALSE
