\* A counterexample kept beside the code: two puts each find a reload to be made, and the
\* second one drops the key the first returned "ok" for (holders.py:265-266, 297-342).
SPECIFICATION Spec
CONSTANTS
    Processes = {p, q}
    Vaults = {v, w}
    Keys = {k}
    Durations = {1, 2}
    MaxTime = 2
    MaxCalls = 4
    Faults = {"denied", "quota", "agent", "lost", "crash", "restart", "crossed"}
    None = None
    Never = Never
SYMMETRY Symmetry
PROPERTIES ImplementsKeyHolder
CHECK_DEADLOCK FALSE
