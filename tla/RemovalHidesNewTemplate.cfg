CONSTANTS
    Stores = {"timeSeries"}
    MaxBlock = 1
    MaxFork = 0
    TplIds = {"t", "u"}
    MaxTpl = 2
    Removals = TRUE
    Failures = {}
    MaxFail = 0
    MaxCrash = 0
SPECIFICATION Spec
INVARIANTS
    TemplatesServed
