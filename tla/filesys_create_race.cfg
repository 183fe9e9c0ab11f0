\* Two processes create the same file.
SPECIFICATION CreatorsSpec
CONSTANTS
    p1 = p1
    p2 = p2
    prog = prog
    text = text
    word = word
    NULL = NULL
    Zeros = Zeros
    Proc = {p1, p2}
    Name = {text}
    Program = prog
    Slot = {0, 1}
    Sector = {2, 3, 4, 5}
    Fd = {3}
    Size = {1}
    Data = {word}
    MaxLeaks = 0
INVARIANTS
    NamesDistinct
