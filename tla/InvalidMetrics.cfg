\* A latency of a wrong type is expected to be refused.
SPECIFICATION Spec
CONSTANTS
    Width = 5
    Mantissa = 5
    NoValue = NoValue
    OperationsMultiple = 2
    Precision = 9
    Missing = Missing
    Null = Null
    WrongType = WrongType
    NoFile = NoFile
    Unparsable = Unparsable
    NoMetric = NoMetric
    Rejected = Rejected
    ScaleJobs <- NoJobs
    ProfileJobs <- NoJobs
    Documents <- InvalidLatencyDocuments
CHECK_DEADLOCK FALSE
INVARIANTS
    InvalidLatencyFails
