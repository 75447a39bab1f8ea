\* One run of a program, or of a service and its workload: safety, and the
\* contract of the callers.
SPECIFICATION Spec
CONSTANTS
    Options <- SupervisionOptions
    MaxAdvance = 2
    Privileged = {"target", "workload"}
CHECK_DEADLOCK FALSE
INVARIANTS
    TypeOK
    NoProcessLeftUnkilled
    SuccessIsGenuine
    StartBarrierHolds
    WorkloadFullyMeasured
    PoliteBeforeKill
    StalePidOnlyOnStopFailure
    ChildErrorReported
    RequirePerfHonoured
PROPERTIES
    KeepsContract
