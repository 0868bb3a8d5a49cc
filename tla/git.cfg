SPECIFICATION Spec
CONSTANTS
    None = None
    site = site
    alice = alice
    bob = bob
    repo = repo
    secret = secret
    other = other
    Lines <- MCLines
    Accounts <- MCAccounts
    HelperValues = {"", "store", "file", "other", "ours"}
    Configs <- MCConfigs
    Stores <- MCStores
    Commands <- MCCommands
    Span = 2
    MaxCommands = 2
    MaxWrites = 1
    Faults = {"config", "remove", "unlock", "kill"}
INVARIANTS NothingLost RemovedStaysRemoved OursComesFirst WayBackIsTold AnswersAsBefore
PROPERTIES OthersAreKept
CHECK_DEADLOCK FALSE
