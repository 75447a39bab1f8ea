\* Invocations of one or two measured runs per variant, with every failure
\* and signals in and between the runs.
SPECIFICATION Spec
CONSTANTS
    Commands = {"run", "compare"}
    Repeats = {1, 2}
    Warmups = {0, 1}
    Groups = {"target"}
    NoValue = NoValue
    OperationsMultiple = 2
    Precision = 9
    FileLimits <- MCFileLimits
    LimitOptions <- MCLimitOptions
    RunResults <- MCRunResults
CHECK_DEADLOCK FALSE
INVARIANTS
    TypeOK
    BalancedMeasurement
    PassIsSound
    RejectIsSound
    SignalCodeGenuine
