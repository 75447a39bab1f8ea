\* A comparison that reaches its limit and does not exceed it.
SPECIFICATION Spec
CONSTANTS
    Commands = {"compare"}
    Repeats = {1}
    Warmups = {0}
    Groups = {}
    NoValue = NoValue
    OperationsMultiple = 2
    Precision = 9
    FileLimits <- NoFile
    LimitOptions <- LimitReached
    RunResults <- RunTimes
CHECK_DEADLOCK FALSE
INVARIANTS
    RejectMeansExceeded
