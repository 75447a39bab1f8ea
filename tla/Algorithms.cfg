\* Every input of three small domains.
SPECIFICATION Spec
CONSTANTS
    Width = 5
    Mantissa = 5
    NoValue = NoValue
    OperationsMultiple = 2
    Precision = 9
    Missing = Missing
    Null = Null
    WrongType = WrongType
    NoFile = NoFile
    Unparsable = Unparsable
    NoMetric = NoMetric
    Rejected = Rejected
    ScaleJobs <- MCScaleJobs
    ProfileJobs <- MCProfileJobs
    Documents <- MCDocuments
CHECK_DEADLOCK FALSE
INVARIANTS
    ScaledCounterAccurate
    ProfileSharesConsistent
    MetricsFollowProtocol
