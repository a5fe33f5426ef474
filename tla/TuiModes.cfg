CONSTANTS
    Agents = {a, b}
    States = {"pr", "plan", "orphan"}
    Harnesses = {"claude", "codex"}
    Models <- MCModels
    DefaultModel = ""
    NoAgent = NoAgent
    NoText = NoText
    Expiry = 2
    MaxEvents = 3
    MaxRunning = 2
SPECIFICATION Spec
INVARIANTS
    CleanupFollowsMerge
    SpawnFitsHarness
PROPERTIES
    TextGoesWhereItWasTyped
    BurstsConfirmNothing
    SpawningEnds
CHECK_DEADLOCK FALSE
