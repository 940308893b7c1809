CONSTANTS
    None = None
    Calls = {c1, c2, c3}
    MaxCalls = 2
    Answers = {"bare"}
    HasObserver = TRUE
    NativeTransport = FALSE
    Outputs = {}
    MaxPosts = 0
SPECIFICATION Spec
SYMMETRY CallSymmetry
INVARIANTS TransactionSound CaptureSound
CHECK_DEADLOCK FALSE
