CONSTANTS
    Procs = {p1, p2, p3}
    MaxRetries = 2
    NoFile = NoFile
SPECIFICATION Spec
INVARIANT ExclusiveUnlessStalled
SYMMETRY CallerSymmetry
CHECK_DEADLOCK FALSE
