CONSTANTS
    Stores = {"timeSeries"}
    MaxBlock = 2
    MaxFork = 2
    TplIds = {}
    MaxTpl = 0
    Removals = FALSE
    Failures = {"task", "reset", "quota", "commit", "error"}
    MaxFail = 1
    MaxCrash = 0
SPECIFICATION FairSpec
INVARIANTS
    SavedInStore
    DoneIsDurable
PROPERTIES
    EventuallyDone
