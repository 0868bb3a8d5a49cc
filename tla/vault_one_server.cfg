\* One server, every request, and the failures its code answers.
CONSTANTS
    Servers = {s1}
    Vaults = {v1}
    DataKeys = {k1, k2, k3}
    Passkeys = {p1}
    Phrases = {a, b}
    Names = {n}
    Requests <- AllRequests
    Faults = {"write", "hold", "clear"}
    None = None
SPECIFICATION Spec
SYMMETRY Interchangeable
INVARIANTS HeldKeyReads
CHECK_DEADLOCK FALSE
