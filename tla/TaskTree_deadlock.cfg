SPECIFICATION Spec
CONSTANTS
    Jobs = {root}
    Procs = {p1}
    Threads = {t1}
    Callers = {c1, c2}
    RootJob = root
    None = none
    MaxSuspend = 1
    Calls <- KillCalls
SYMMETRY Symmetry
CHECK_DEADLOCK FALSE
INVARIANTS
    NoDeadlock
