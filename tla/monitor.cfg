SPECIFICATION Spec
CONSTANTS
    m = m
    idle = idle
    a = a
    b = b
    c = c
    tl = tl
    l1 = l1
    s1 = s1
    NULL = NULL
    Thread = {m, a, b, idle}
    Main = m
    Idle = idle
    TIME_SLICE = 2
    Sema = {tl, l1}
    Lock = {tl, l1}
    tid_lock = tl
    Cond = {l1}
    MaxValue = 1
    SleepTicks = {}
    MaxTicks = 0
    NewPriorities = {0, 31}
    MaxTid = 4
SYMMETRY Symm
INVARIANTS
    MutualExclusion
    NoPanic
    SignalNotLost
PROPERTIES
    ImplementsMutex
