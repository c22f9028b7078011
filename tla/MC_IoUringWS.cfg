CONSTANTS
    Initial = {a}
    Later = {b}
    QueueDepth = 3
    MaxConnections = 2
    MaxInFlight = 2
SPECIFICATION Spec
INVARIANTS
    TypeOK
    LossIsNoticed
    SubscriptionsAgree
CHECK_DEADLOCK FALSE
