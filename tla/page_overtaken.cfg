\* A tick is overtaken by an action and by the end of the unlock.
CONSTANTS
    Readers = {r1}
    Actions = {"unlock"}
    MaxChanges = 2
    MaxFaults = 0
    Faults = {"late"}
    None = None
SPECIFICATION FairSpec
PROPERTIES LockedIsDrawn
CHECK_DEADLOCK FALSE
