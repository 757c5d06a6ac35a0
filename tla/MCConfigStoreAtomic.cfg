CONSTANTS
    Degree = 1
    None = None
    NaN = NaN
    Unparsable = Unparsable
    Clients = {c1, c2}
    Guis = {}
    FirstTexts <- First
    SavedTexts <- Saved
    HandTexts <- Nothing
    AskedModes = {"Auto", "Silent"}
    MaxRequests = 2
    PowerFails = TRUE
SPECIFICATION FairSpec
INVARIANTS DiskAlwaysWhole
PROPERTIES AtomicSpec RequestAnswered LoadedCatchesUp
