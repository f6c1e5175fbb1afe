CONSTANTS
    Stores = {"timeSeries", "entity", "webhook"}
    MaxBlock = 2
    MaxFork = 1
    TplIds = {}
    MaxTpl = 0
    Removals = FALSE
    Failures = {"reset", "quota", "commit", "save", "error"}
    MaxFail = 1
    MaxCrash = 1
SPECIFICATION Spec
INVARIANTS
    Recoverable
    NoRowLostOrDoubled
    ResentWithCause
PROPERTIES
    StoppedFreezes
