SPECIFICATION FairSpec
CONSTANTS
    Capacity = 2
    BatchSize = 2
    SpinCount = 1
    Padding = 1
    InitialBuffer = 2
    Frames <- MCFrames
    MaxMessages = 4
INVARIANTS
    TypeOK
    NothingLostSilently
PROPERTIES
    AcceptedIsDispatched
    StopEndsLoop
CHECK_DEADLOCK FALSE
