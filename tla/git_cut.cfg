\* A counterexample kept beside the code: an `--add` of `_set_helpers` fails after its
\* `--replace-all` took a store value out, and no way back is printed (cli.py:584-627).
SPECIFICATION Spec
CONSTANTS
    None = None
    site = site
    alice = alice
    bob = bob
    repo = repo
    secret = secret
    other = other
    Lines <- MCLines
    Accounts <- MCAccounts
    HelperValues = {"", "store", "file", "other", "ours"}
    Configs <- MCConfigs
    Stores <- MCStores
    Commands <- MCCommands
    Span = 2
    MaxCommands = 1
    MaxWrites = 0
    Faults = {"config"}
INVARIANTS WayBackIsToldOfACut
CHECK_DEADLOCK FALSE
