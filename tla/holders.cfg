SPECIFICATION Spec
CONSTANTS
    Processes = {p, q}
    Vaults = {v, w}
    Keys = {k}
    Durations = {1, 2}
    MaxTime = 2
    MaxCalls = 3
    Faults = {"denied", "quota", "agent", "lost", "crash", "restart"}
    None = None
    Never = Never
SYMMETRY Symmetry
INVARIANTS HeldAsPromised MemoryIsWiped
PROPERTIES ImplementsKeyHolder
CHECK_DEADLOCK FALSE
