\* Two rings, written during every drain, with a failure in any step of
\* start(), stop() and the worker.
SPECIFICATION SamplerSpec
CONSTANTS
    r1 = r1
    r2 = r2
    Rings <- TwoRings
    NoRing = NoRing
    Capacity = 2
    MaxRecords = 3
    MaxDropped = 1
    Faults = {"thread", "wake", "poll", "descriptor"}
    SamplerFaults = {"enable", "disable"}
SYMMETRY RingSymmetry
CHECK_DEADLOCK FALSE
INVARIANTS
    SamplerTypeOK
    EverySampleKept
    FailureIsReported
    OnlyGenuineSamples
    NoDuplicateSample
    NoOverrun
    NoUnjoinedRead
