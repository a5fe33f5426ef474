CONSTANTS
    Hooks = {h1, h2}
    Dashboard = {d}
    NoOne = NoOne
    Slack = 1
    MaxClock = 2
    Requests <- MCRequests
    Stamps <- MCStamps
    None = None
    Main = Main
    Linked = {w}
    Sessions = {a, b}
    Ghost = Ghost
    Dashboards = {d1}
    MaxResolves = 2
SPECIFICATION MCSpec
INVARIANTS
    TypeOK
    ClaimIsExclusive
PROPERTIES
    WritesAreAtomic
    SeqNeverGoesBack
    GuardedWriteSparesStopState
    PinsSurviveOtherWrites
    SpawnedIsPinned
CHECK_DEADLOCK FALSE
