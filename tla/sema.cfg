SPECIFICATION FairSpec
CONSTANTS
    NumPerBlock = 1
    MaxEpoch = 3
    Co = {a, b}
    NoCo = NoCo
    NoSema = NoSema
    MaxCount = 2
    GcHandled = FALSE
CHECK_DEADLOCK FALSE
INVARIANTS
    WaitersExact
    NoLostWakeup
    AllAllocated
    BlocksExact
PROPERTIES
    ServedInOrder
    Served
