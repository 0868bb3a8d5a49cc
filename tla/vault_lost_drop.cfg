\* The agent does not get the drop of the old key, and refuses the hold of the new one.
CONSTANTS
    Servers = {s1}
    Vaults = {v1}
    DataKeys = {k1, k2}
    Passkeys = {p1}
    Phrases = {a}
    Names = {n}
    Requests = {"init", "unlock"}
    Faults = {"hold", "clear"}
    None = None
SPECIFICATION Spec
SYMMETRY Interchangeable
INVARIANTS AlwaysReads
CHECK_DEADLOCK FALSE
