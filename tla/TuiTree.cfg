CONSTANTS
    Agents = {"a", "b"}
    Parents = {"a"}
    Placeholder = "p"
    Mortal = {"a"}
    Filters = {{}, {"b"}}
    Positions = {1, 2}
    None = "none"
    MaxEvents = 2
    MaxLoads = 3
    Heights = {6, 41}
    QuoteRows = {1}
    PetHeight = 0
    GameHeight = 4
    Trees <- MCTrees
    Looks <- MCLooks
    MaxLooks = 3
SPECIFICATION MCSpec
INVARIANT
    WheelIsNear
PROPERTY
    SelectionFollowsAgent
    MoveLandsVisible
    ViewSettles
    ReplyIsDrawn
    SelectionIsDrawn
CHECK_DEADLOCK FALSE
