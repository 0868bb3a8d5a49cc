\* Two servers on one file: one rotates between the other's read and its hold.
CONSTANTS
    Servers = {s1, s2}
    Vaults = {v1}
    DataKeys = {k1, k2}
    Passkeys = {p1}
    Phrases = {a}
    Names = {n}
    Requests = {"init", "unlock"}
    Faults = {}
    None = None
SPECIFICATION Spec
SYMMETRY Interchangeable
INVARIANTS HeldKeyReads
CHECK_DEADLOCK FALSE
