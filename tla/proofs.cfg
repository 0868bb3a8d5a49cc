\* Codes over time and assertions over two challenges, with restarts and failing writes.
CONSTANTS
    Secrets = {x}
    Challenges = {c, d}
    MaxClock = 2
    MaxWrong = 2
    MaxCount = 2
    Faults = {"write", "restart"}
    None = None
SPECIFICATION Spec
SYMMETRY Interchangeable
INVARIANTS CodeTakenOnce GuessesAreBounded
PROPERTIES ChallengeServesOnce SignCountRises
CHECK_DEADLOCK FALSE
