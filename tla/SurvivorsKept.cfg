CONSTANTS
    Sessions = {s1, s2}
    States = {"idle_prompt"}
    Codex = {s2}
    Branchless = {}
    InSource = {}
    Web = {}
    Tui = {t}
    NoSession = NoSession
    NoRecord = NoRecord
    NoPane = 0
    OwnPane = 99
    NoServer = 0
    MaxPane = 1
    MaxServer = 2
    MaxClock = 2
    ResumableTTL = 1
    MaxEvents = 3
    MaxPanesPerWindow = 2
SPECIFICATION Spec
PROPERTY
    SurvivorsKept
CHECK_DEADLOCK FALSE
