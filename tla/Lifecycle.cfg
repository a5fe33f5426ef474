CONSTANTS
    Sessions = {s1, s2}
    States = {"idle_prompt"}
    Codex = {s2}
    Branchless = {}
    InSource = {s2}
    Web = {w}
    Tui = {t}
    NoSession = NoSession
    NoRecord = NoRecord
    NoPane = 0
    OwnPane = 99
    NoServer = 0
    MaxPane = 3
    MaxServer = 2
    MaxClock = 2
    ResumableTTL = 0
    MaxEvents = 3
    MaxPanesPerWindow = 2
    None = None
    Agents = {"a", "b"}
    Senders = {p, q}
    OfCodex = {"b"}
    Texts <- MCTexts
    Skills = {"pr"}
    Surveys <- MCSurveys
    Cards <- MCCards
    MaxRequests = 2
    MaxIncidents = 2
SPECIFICATION MCSpec
INVARIANTS
    CleanupDropsRecordLast
    InputArrives
PROPERTIES
    ClosedAgentGoes
    PruneSparesLive
    ResumeStartsNoCopy
    OverfullOnlyByOverlap
CHECK_DEADLOCK FALSE
