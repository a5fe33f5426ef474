CONSTANTS
    Procs = {p1, p2, p3}
    MaxRetries = 2
    NoFile = NoFile
SPECIFICATION Spec
INVARIANTS
    TypeOK
    ExclusiveWhileFresh
PROPERTIES
    AbandonedLockCleared
    EveryCallReturns
CHECK_DEADLOCK FALSE
