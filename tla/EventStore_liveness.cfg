CONSTANTS
    Procs = {p1}
    EventIds = {1, 2}
    Partitions = {1, 2}
    Bodies = {"x", "y"}
    Batches <- MCBatches
    MaxFaults = 2
    TearAtNewline = TRUE
    None = None
SPECIFICATION RecoverySpec
PROPERTIES LockReleased StaleManifestRebuiltUnlessTorn
CHECK_DEADLOCK FALSE
