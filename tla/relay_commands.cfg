\* Every command, two clicks, both homes on each side, and every failure.
CONSTANTS
    Clicks = {c, d}
    Cli = Cli
    Names = {"ceremony", "passphrase", "copy", "block", "show"}
    Faults = {"relay", "end", "pipe", "ends", "trigger", "reply", "timeout", "stop", "kill",
              "restart", "stdout", "clipboard", "render", "close"}
    None = None
SPECIFICATION FairSpec
INVARIANTS CollectedOnce SaysWhatIsSo NothingIsLeft KeysHaveEnds AnswerIsSeen SecretIsKept
PROPERTIES CommandEnds
CHECK_DEADLOCK FALSE
