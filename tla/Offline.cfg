CONSTANTS
    None = None
    Requests = {1, 2, 3}
    MaxPrompt = 1
    MaxResponse = 3
    MaxTokens = 2
    MaxRequests = 2
    ExpectedStep = 7
    OtherStep = 8
    Observations = {1}
    Stages = 3
    Gated = {2}
    Unattended = {2, 3}
    MaxStarts = 3
    MaxEdits = 2
    EvalCap = 2
    MaxCases = 3
SPECIFICATION Spec
INVARIANTS
    TokensTruthful
    LoopRestartSafe
    AdmissionSound
    AdaptedTraceSound
    
    
    FailuresContained
    RoundsSound
    DocumentsBind
CHECK_DEADLOCK FALSE
