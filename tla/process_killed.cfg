SPECIFICATION FairSpec
CONSTANTS
    m = m
    idle = idle
    a = a
    b = b
    NULL = NULL
    Page = {m, idle, a, b}
    Main = m
    Idle = idle
    ExitStatus = {7}
    MaxTid = 4
PROPERTY KilledAnswersMinusOne
CHECK_DEADLOCK FALSE
