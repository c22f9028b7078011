CONSTANTS
    Initial = {a}
    Later = {}
    QueueDepth = 3
    MaxConnections = 2
    MaxInFlight = 2
SPECIFICATION FairSpec
PROPERTY ReconnectsAfterLoss
CHECK_DEADLOCK FALSE
