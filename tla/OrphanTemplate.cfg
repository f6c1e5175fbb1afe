CONSTANTS
    Stores = {"timeSeries"}
    MaxBlock = 1
    MaxFork = 1
    TplIds = {"t"}
    MaxTpl = 1
    Removals = FALSE
    Failures = {}
    MaxFail = 0
    MaxCrash = 0
SPECIFICATION Spec
INVARIANTS
    NoOrphanTemplate
