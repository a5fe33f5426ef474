CONSTANTS
    None = None
    Kinds = {"text", "plan", "slug"}
    MaxLines = 2
    MaxLoads = 2
    MaxDay = 1
    Limit = 2
    MaxLog = 5
    Window = 2
    Sessions = {"top", "sub"}
SPECIFICATION MCSpec
INVARIANTS
    PlanCardKept
    UsageCountsOnce
    StateAndCardAgree
PROPERTIES
    ViewRecovers
    LedgerSettles
    SubagentsAreShown
    ConversationFollowsResume
CHECK_DEADLOCK FALSE
