\* README.md:43 expects unavailable collection to fail a run only on demand.
SPECIFICATION Spec
CONSTANTS
    Options <- LenientOptions
    MaxAdvance = 1
    Privileged = {}
CHECK_DEADLOCK FALSE
INVARIANTS
    PerfFailureDegrades
