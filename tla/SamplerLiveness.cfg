\* One ring over several laps: complete profiles with reported losses.
SPECIFICATION FairSamplerSpec
CONSTANTS
    r1 = r1
    r2 = r2
    Rings <- OneRing
    NoRing = NoRing
    Capacity = 2
    MaxRecords = 6
    MaxDropped = 1
    Faults = {"thread", "wake", "record"}
    SamplerFaults = {"enable", "disable"}
CHECK_DEADLOCK FALSE
INVARIANTS
    CompleteWhenAvailable
PROPERTIES
    SamplerStopReturns
    ReaderCatchesUp
