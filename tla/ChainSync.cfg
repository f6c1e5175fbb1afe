SPECIFICATION Spec
CONSTANTS
    MaxNum = 3
    Branch = {1, 2}
    Saver = {1}
    MaxFail = 1
    MaxCrash = 1
    MayLoseAnswer = FALSE
    SrcFirst = 0
    FirstLen = 2
    DstTargetLen = 2
    DstLeftAlign = 1
    MaxReorg = 2
INVARIANT RangeComplete
PROPERTIES ImplementsStoredChain TargetLenKept 
CHECK_DEADLOCK FALSE
