CONSTANTS
    Slack = 0
    Slots = {s1, s2, s3}
    MaxEvents = 4
    MaxSubagents = 0
    Detected = {"question", "idle_prompt"}
SPECIFICATION Spec
SYMMETRY SlotSymmetry
INVARIANT QuestionIsShown
CHECK_DEADLOCK FALSE
