SPECIFICATION QFairSpec
CONSTANTS
    Threads = {t1, t2, t3}
    Batches <- MCBatches
    MaxEvents = 3
    MaxPuts = 3
INVARIANTS QueueSound NoLostWakeup
PROPERTIES TimedCallsReturn
CHECK_DEADLOCK FALSE
