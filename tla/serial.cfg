SPECIFICATION Spec
CONSTANTS
    r1 = r1
    w1 = w1
    w2 = w2
    NULL = NULL
    Readers = {r1}
    Writers = {w1, w2}
    INTQ_BUFSIZE = 3
    Numbers = 6
    MaxPrints = 1
INVARIANTS
    TypeOK
    NoPanic
    BytesInOrder
PROPERTIES
    PutcReturns
    GetcReturns
