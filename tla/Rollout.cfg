SPECIFICATION FairSpec
CONSTANTS
    BatchSize = 2
    GroupOf <- OneGroup
    MinimumGroupSize = 2
    MaxAttempts = 2
    MaxRequests = 2
    MaxStep = 2
    MaxSessions = 1
    MaxDuplicates = 0
    MaxStragglers = 1
    MaxLate = 0
    EngineReports = TRUE
    SyncMayLag = TRUE
    FrameworkFaults = FALSE
    None = None
INVARIANTS OnPolicy RedrawsAudited
PROPERTIES CallEnds
CHECK_DEADLOCK FALSE
