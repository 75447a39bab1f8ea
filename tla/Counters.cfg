\* Three events, a failure at each step, every multiplexing of ten ticks.
SPECIFICATION Spec
CONSTANTS
    Width = 8
    Mantissa = 8
    Events = 3
    MaxTicks = 10
CHECK_DEADLOCK FALSE
INVARIANTS
    CountersTypeOK
    DescriptorsClosedOnce
    WindowMeasured
