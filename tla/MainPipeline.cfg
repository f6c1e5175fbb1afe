SPECIFICATION Spec
CONSTANTS
    First = 0
    Last = 3
    TaskCount <- Tasks
    HasData <- WithoutSecond
    Worker = {w1, w2}
    WaitingCap = 2
    NoticeCap = 2
    MayEnd = {"fetch", "reorg", "task", "make", "template", "save"}
INVARIANTS MadeInOrder SuccessMadeAll InFlightBounded
PROPERTY RunReturns
CHECK_DEADLOCK FALSE
