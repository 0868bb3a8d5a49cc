\* One tab whose answers arrive in order, while the vault changes under it.
CONSTANTS
    Readers = {r1}
    Actions = {"unlock", "register"}
    MaxChanges = 2
    MaxFaults = 1
    Faults = {}
    None = None
SPECIFICATION FairSpec
INVARIANTS KeepsStoredPasskey
PROPERTIES NoteStaysUntilReached PanelSettles NoteGoes
CHECK_DEADLOCK FALSE
