SPECIFICATION FairSpec
CONSTANTS
    Assets = {a1, a2}
    Transports = {"ix", "uring"}
    Threads = {"main", "ingest", "log", "other"}
INVARIANTS
    StopIsSafe
    ServerFollowsSet
PROPERTIES
    RunEnds
CHECK_DEADLOCK FALSE
