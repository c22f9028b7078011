SPECIFICATION FairSpec
CONSTANTS
    Markets = {m1, m3}
    OtherMarket = m2
    BatchSize = 2
    MaxOrders = 2
    MaxDepth = 7
INVARIANTS
    FillsReportedOnce
    NoFillForgotten
    CancelIsFinal
PROPERTY
    StopEndsRun
CHECK_DEADLOCK FALSE
