\* Two servers change the keys of a file that may go and come under them.
CONSTANTS
    Servers = {s1, s2}
    Vaults = {v1, v2}
    DataKeys = {k1, k2}
    Passkeys = {}
    Phrases = {a, b}
    Names = {}
    Requests = {"init", "unlock", "replace_recovery"}
    Faults = {"remove", "late"}
    None = None
SPECIFICATION Spec
SYMMETRY Interchangeable
INVARIANTS SlotsWrapRoot RecoveryOpens
PROPERTIES DataKeysAreFresh
CHECK_DEADLOCK FALSE
