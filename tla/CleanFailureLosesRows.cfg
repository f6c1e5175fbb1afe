CONSTANTS
    Stores = {"timeSeries"}
    MaxBlock = 3
    MaxFork = 1
    TplIds = {}
    MaxTpl = 0
    Removals = FALSE
    Failures = {"clean"}
    MaxFail = 1
    MaxCrash = 1
SPECIFICATION Spec
INVARIANTS
    DoneIsComplete
