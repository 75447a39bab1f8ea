\* An exec chain, a remapped library and two samples around every capture.
SPECIFICATION Spec
CONSTANTS
    a1 = a1
    a2 = a2
    Address <- MCAddress
    Location = {1}
    Unknown = "[unknown]"
    NoMapping = NoMapping
    Path <- MCPath
    Readable <- MCReadable
    Name <- MCName
    FileName <- MCFileName
    Symbol <- MCSymbol
    Mapping <- MCMapping
    RunnerMapping <- MCRunnerMapping
    MaxExecs = 2
    MaxRemaps = 1
    MaxSamples = 2
SYMMETRY AddressSymmetry
CHECK_DEADLOCK FALSE
INVARIANTS
    SymbolizerTypeOK
    SamplesConserved
    AttributionIsGenuine
    CapturedFromOneProgram
