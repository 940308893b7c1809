CONSTANTS
    Procs = {p1, p2}
    EventIds = {1, 2}
    Partitions = {1, 2}
    Bodies = {"x", "y"}
    Batches <- MCBatches
    MaxFaults = 2
    TearAtNewline = FALSE
    None = None
SPECIFICATION Spec
SYMMETRY Symm
INVARIANTS StoreInv  GlobalIdempotency AckedStored QuarantineJustified DerivedFromRaw RecoverRebuilds
PROPERTIES AppendOnly ImplementsEventLog
CHECK_DEADLOCK FALSE
