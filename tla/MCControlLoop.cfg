CONSTANTS
    Degree = 1
    None = None
    NaN = NaN
    Unparsable = Unparsable
    Files <- SomeFiles
    Readings <- SomeReadings
    Nodes = {2, 5}
    MaxAttempts = 1
    ReuseNode = FALSE
    AmbiguousErrors = FALSE
SPECIFICATION Spec
INVARIANTS
    TypeOK
    WritesTakeEffect
    CacheCoherent
    FailsafeForcesFull
    ConfigInForce
    LiveReportsDevice
