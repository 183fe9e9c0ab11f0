SPECIFICATION FairSpec
CONSTANTS
    m = m
    idle = idle
    a = a
    b = b
    NULL = NULL
    Page = {m, idle, a, b}
    Main = m
    Idle = idle
    ExitStatus = {7}
    MaxTid = 5
INVARIANTS
    TypeOK
    NoDanglingChild
    MessagesNotConfused
PROPERTIES
    ImplementsExecWait
    ExecuteAnswers
    WaitAnswers
    ReapedIsFreed
CHECK_DEADLOCK FALSE
