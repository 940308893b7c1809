SPECIFICATION Spec
CONSTANTS
    BatchSize = 4
    GroupOf <- TwoGroups
    MinimumGroupSize = 2
    MaxAttempts = 1
    MaxRequests = 1
    MaxStep = 1
    MaxSessions = 2
    MaxDuplicates = 1
    MaxStragglers = 1
    MaxLate = 1
    EngineReports = FALSE
    SyncMayLag = FALSE
    FrameworkFaults = TRUE
    None = None
INVARIANTS TrainsCertified GroupSignal
 
CHECK_DEADLOCK FALSE
