CONSTANTS
    Stores = {"timeSeries"}
    MaxBlock = 1
    MaxFork = 0
    TplIds = {}
    MaxTpl = 0
    Removals = FALSE
    Failures = {"save"}
    MaxFail = 1
    MaxCrash = 0
SPECIFICATION Spec
INVARIANTS
    DoneIsDurable
