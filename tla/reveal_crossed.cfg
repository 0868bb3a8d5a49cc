\* A lock while the answer to a proof is under way.
CONSTANTS
    Popups = {p1}
    Uses = {"act", "lock", "command"}
    Settings = {0, 1}
    Longest = 1
    Default = 1
    MaxTasks = 2
    MaxTicks = 0
    MaxTroubles = 0
    None = None
SPECIFICATION Spec
INVARIANTS LockEndsWindow
CHECK_DEADLOCK FALSE
