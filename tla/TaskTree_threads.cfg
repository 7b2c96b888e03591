SPECIFICATION Spec
CONSTANTS
    Jobs = {root}
    Procs = {p1}
    Threads = {t1, t2}
    Callers = {c1, c2}
    RootJob = root
    None = none
    MaxSuspend = 1
    Calls <- AllCalls
SYMMETRY Symmetry
CHECK_DEADLOCK FALSE
INVARIANTS
    EmptyExitedProcessLeaves
    ExitReachesThreads
    DeadThreadLeaves
    OneDeadlock
PROPERTIES
    ExitIsFinal
