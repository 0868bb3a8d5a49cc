\* Unlocks and set-ups, one process without a deadline: every call comes to an end.
CONSTANTS
    Processes = {p, q}
    Patient = {p}
    Calls = {"read", "setup"}
    Faults = {"status", "answer", "timeout", "crash", "lock", "remove"}
    None = None
SPECIFICATION FairSpec
INVARIANTS OwnLine
PROPERTIES EveryCallEnds OnePressForAll AskedAgain
CHECK_DEADLOCK FALSE
