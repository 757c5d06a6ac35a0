CONSTANTS
    Degree = 1
    None = None
    NaN = NaN
    Unparsable = Unparsable
    Files <- NaNFiles
    Readings <- SomeReadings
    Nodes = {2}
    MaxAttempts = 1
    ReuseNode = FALSE
    AmbiguousErrors = FALSE
SPECIFICATION Spec
INVARIANT FailsafeCeilingValidated
