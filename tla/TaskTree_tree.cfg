SPECIFICATION FairSpec
CONSTANTS
    Jobs = {root, j1, j2}
    Procs = {p1}
    Threads = {t1}
    Callers = {c1, c2}
    RootJob = root
    None = none
    MaxSuspend = 1
    Calls <- KillCalls
CHECK_DEADLOCK FALSE
INVARIANTS
    KillReachesProcesses
    KillReachesChildren
    EmptyKilledJobLeaves
    OnlyOwnEndsBlock
PROPERTIES
    LifeSpec
    JobTerminates
