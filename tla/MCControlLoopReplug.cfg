CONSTANTS
    Degree = 1
    None = None
    NaN = NaN
    Unparsable = Unparsable
    Files <- SomeFiles
    Readings <- SomeReadings
    Nodes = {2}
    MaxAttempts = 1
    ReuseNode = TRUE
    AmbiguousErrors = FALSE
SPECIFICATION Spec
INVARIANT WritesTakeEffect
