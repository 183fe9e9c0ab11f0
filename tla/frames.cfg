SPECIFICATION FairSpec
CONSTANTS
    p1 = p1
    p2 = p2
    NULL = NULL
    Proc = {p1, p2}
    First = p1
    MaxSegments = 3
    Frame = {0, 1, 2}
    Slot = {0, 1, 2, 3, 4}
    Scenarios <- AllScenarios
INVARIANTS
    TypeOK
    FramesOwned
    SlotsOwned
    DataKept
    AlwaysProvides
PROPERTIES
    FaultReturns
