SPECIFICATION Spec
CONSTANTS
    m = m
    idle = idle
    a = a
    b = b
    c = c
    tl = tl
    l1 = l1
    s1 = s1
    NULL = NULL
    Thread = {m, a, b, c, idle}
    Main = m
    Idle = idle
    TIME_SLICE = 2
    Sema = {tl, s1}
    Lock = {tl}
    tid_lock = tl
    Cond = {}
    MaxValue = 2
    SleepTicks = {}
    MaxTicks = 0
    NewPriorities = {0, 31}
    MaxTid = 5
SYMMETRY Symm
INVARIANTS
    TypeOK
    ElemExclusive
    NoLostWakeup
    RunsHighest
    TidsUnique
    NoThreadLost
PROPERTIES
    SwitchToHighest
    WakesHighest
CHECK_DEADLOCK FALSE
