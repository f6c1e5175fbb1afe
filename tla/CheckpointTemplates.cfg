CONSTANTS
    Stores = {"timeSeries"}
    MaxBlock = 2
    MaxFork = 1
    TplIds = {"t"}
    MaxTpl = 1
    Removals = FALSE
    Failures = {"clean", "save"}
    MaxFail = 1
    MaxCrash = 1
SPECIFICATION Spec
INVARIANTS
    TypeOK
    TemplatesServed
