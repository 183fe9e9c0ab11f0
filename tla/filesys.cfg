SPECIFICATION Spec
CONSTANTS
    p1 = p1
    p2 = p2
    prog = prog
    text = text
    word = word
    NULL = NULL
    Zeros = Zeros
    Proc = {p1}
    Name = {prog, text}
    Program = prog
    Slot = {0, 1}
    Sector = {2, 3, 4, 5}
    Fd = {3, 4}
    Size = {1, 2}
    Data = {word}
    MaxLeaks = 1
INVARIANTS
    TypeOK
    DiskConsistent
    OpensCounted
    NothingElseLost
PROPERTIES
    ImplementsFileStore
