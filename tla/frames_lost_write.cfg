\* A parent and its child; the child writes while its page is being evicted.
SPECIFICATION FairSpec
CONSTANTS
    p1 = p1
    p2 = p2
    NULL = NULL
    Proc = {p1, p2}
    First = p1
    MaxSegments = 2
    Frame = {0, 1, 2}
    Slot = {0, 1, 2, 3, 4}
    Scenarios <- FamilyOnly
INVARIANTS
    NoLostWrite
