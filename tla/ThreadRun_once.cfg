SPECIFICATION FairSpec
CONSTANTS
    Runners = {r1, r2}
    Thread = thread
    None = none
    Restart = FALSE
    MaxSuspend = 3
CHECK_DEADLOCK FALSE
INVARIANTS
    NoLostWakeup
    NoPanic
PROPERTIES
    KilledDies
    ResumedRuns
