SPECIFICATION FairSpec
CONSTANTS
    Emails = {e1}
    Local = local
    Flags = {"termux"}
    Wsl = TRUE
    MaxKeys = 2
    MaxTrouble = 1
INVARIANTS
    KeyKept
    OneKeyPerOwner
    PinnedIsInstalled
PROPERTIES
    Settles
