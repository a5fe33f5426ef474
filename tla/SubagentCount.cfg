CONSTANTS
    Slack = 0
    Slots = {s1, s2, s3}
    MaxEvents = 4
    MaxSubagents = 2
    Detected = {"question", "idle_prompt"}
SPECIFICATION Spec
SYMMETRY SlotSymmetry
INVARIANT SubagentCountAccurate
CHECK_DEADLOCK FALSE
