\* One process whose stack grows after its top was swapped out.
SPECIFICATION FairSpec
CONSTANTS
    p1 = p1
    p2 = p2
    NULL = NULL
    Proc = {p1, p2}
    First = p1
    MaxSegments = 3
    Frame = {0, 1, 2}
    Slot = {0, 1, 2, 3, 4}
    Scenarios <- AloneOnly
INVARIANTS
    StackKept
