\* Three processes unlock; they are killed, interrupted, refused or not answered.
CONSTANTS
    Processes = {p, q, r}
    Patient = {}
    Calls = {"unlock", "read"}
    Faults = {"crash", "interrupt", "trigger", "status", "answer", "timeout"}
    None = None
SPECIFICATION Spec
SYMMETRY Interchangeable
INVARIANTS OneNotification ClaimIsHeld
PROPERTIES TakesOverLost
CHECK_DEADLOCK FALSE
