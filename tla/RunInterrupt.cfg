\* An interrupted service run is expected not to end as a life-cycle failure.
SPECIFICATION Spec
CONSTANTS
    Options <- PlainServiceOptions
    MaxAdvance = 1
    Privileged = {}
CHECK_DEADLOCK FALSE
INVARIANTS
    InterruptReported
