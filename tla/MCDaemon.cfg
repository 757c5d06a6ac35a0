CONSTANTS
    Degree = 1
    None = None
    NaN = NaN
    Unparsable = Unparsable
    Files <- Known
    Readings <- HotReadings
    Nodes = {2}
    MaxAttempts = 1
    ReuseNode = FALSE
    AmbiguousErrors = FALSE
    Clients = {c1}
    Guis = {}
    FirstTexts <- First
    SavedTexts <- Nothing
    HandTexts <- Nothing
    AskedModes = {"Performance"}
    MaxRequests = 1
    PowerFails = FALSE
SPECIFICATION FairSpec
INVARIANT ModeSetApplied
PROPERTIES ImplementsLoop ImplementsStore
    StartupEnds ReloadAttempted InterruptEnds HotEventuallyFull
