CONSTANTS
    None = None
    Calls = {c1, c2}
    MaxCalls = 2
    Answers = {"native", "error"}
    HasObserver = FALSE
    NativeTransport = TRUE
    Specs <- MCSpecs
    Endings <- MCEndings
SPECIFICATION Spec
INVARIANTS TrainedIsWhole PiVerdictEarned
PROPERTY PiRunEnds
CHECK_DEADLOCK FALSE
