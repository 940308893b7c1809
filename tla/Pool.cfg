SPECIFICATION FairSpec
CONSTANTS
    Episodes = {1, 2, 3, 4}
    SpecLists <- MCSpecLists
    MaxConcurrency = 2
INVARIANTS PoolTruthful
PROPERTIES RunEnds
CHECK_DEADLOCK FALSE
