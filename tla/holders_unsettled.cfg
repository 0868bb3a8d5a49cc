\* A counterexample kept beside the code: the setting changes beside a put, and the agent
\* keeps a key longer than its put was asked to (holders.py:255-264, 297-342).
SPECIFICATION Spec
CONSTANTS
    Processes = {p, q}
    Vaults = {v, w}
    Keys = {k}
    Durations = {1, 2}
    MaxTime = 2
    MaxCalls = 4
    Faults = {"denied", "quota", "agent", "lost", "crash", "restart"}
    None = None
    Never = Never
SYMMETRY Symmetry
INVARIANTS EndsAsPromised
CHECK_DEADLOCK FALSE
