SPECIFICATION Spec
CONSTANTS
    Jobs <- BothJobs
    MaxUpstreams = 2
    MaxBlock = 3
    minQuerySize = 1
    maxQuerySize = 2
    targetKeepDataSize = 2
    maxReadyBlockCount = 2
    maxRetry = 1
    maxConcurrency = 2
    maxKeepDataNum = 1
INVARIANTS ExactData AheadBounded
PROPERTY RunEnds
CHECK_DEADLOCK FALSE
