CONSTANTS
    None = None
    Calls = {c1}
    MaxCalls = 1
    Answers = {"bare", "error"}
    HasObserver = TRUE
    NativeTransport = FALSE
    Outputs = {"o1"}
    MaxPosts = 1
SPECIFICATION Spec
INVARIANTS VerdictEarned
PROPERTY ExecutionEnds
CHECK_DEADLOCK FALSE
