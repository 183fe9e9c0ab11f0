SPECIFICATION FairSpec
CONSTANTS
    m = m
    idle = idle
    a = a
    b = b
    c = c
    tl = tl
    l1 = l1
    s1 = s1
    NULL = NULL
    Thread = {m, a, idle}
    Main = m
    Idle = idle
    TIME_SLICE = 2
    Sema = {tl}
    Lock = {tl}
    tid_lock = tl
    Cond = {}
    MaxValue = 1
    SleepTicks = {0, 2}
    MaxTicks = 4
    NewPriorities = {31, 32}
    MaxTid = 3
INVARIANTS
    ElemExclusive
PROPERTIES
    SleepsLongEnough
    SleepersWake
    PreemptsLower
    RoundRobin
