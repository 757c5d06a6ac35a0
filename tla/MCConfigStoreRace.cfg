CONSTANTS
    Degree = 1
    None = None
    NaN = NaN
    Unparsable = Unparsable
    Clients = {c1}
    Guis = {g1}
    FirstTexts <- First
    SavedTexts <- Saved
    HandTexts <- Nothing
    AskedModes = {"Auto", "Silent"}
    MaxRequests = 2
    PowerFails = FALSE
SPECIFICATION Spec
PROPERTY SetModeKeepsRest
