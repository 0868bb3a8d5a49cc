\* Two servers on one file change its slots and its entries.
CONSTANTS
    Servers = {s1, s2}
    Vaults = {v1}
    DataKeys = {k1, k2}
    Passkeys = {p1}
    Phrases = {a}
    Names = {n}
    Requests = {"unlock", "add_pair", "add"}
    Faults = {"crash"}
    None = None
SPECIFICATION Spec
SYMMETRY Interchangeable
INVARIANTS SealedTogether EntriesKept
PROPERTIES WritesOneSlot
CHECK_DEADLOCK FALSE
