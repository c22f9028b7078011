SPECIFICATION FairSpec
CONSTANTS
    Slots = 4
    MaxPushes = 6
    NoValue = NoValue
INVARIANTS
    TypeOK
    NoSlotRace
    NoOverwriteNoEmptyRead
    DeliveredInOrder
PROPERTIES
    ImplementsFifo
    EveryValueDelivered
