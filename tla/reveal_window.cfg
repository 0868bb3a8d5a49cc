\* One tab: two tasks at a time over three steps of time, and one trouble of any kind.
CONSTANTS
    Popups = {p1}
    Uses = {"act", "lock", "command"}
    Settings = {0, 1}
    Longest = 1
    Default = 1
    MaxTasks = 2
    MaxTicks = 3
    MaxTroubles = 1
    None = None
SPECIFICATION Spec
INVARIANTS WindowIsBounded ZeroAlwaysAsks
CHECK_DEADLOCK FALSE
