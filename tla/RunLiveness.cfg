\* Stop requests, deadlines and a killed runner: everything ends.
SPECIFICATION FairSpec
CONSTANTS
    Options <- LivenessOptions
    MaxAdvance = 1
    Privileged = {}
CHECK_DEADLOCK FALSE
PROPERTIES
    SignalEndsRun
    TimeoutBoundsRun
    UnreleasedTargetDies
