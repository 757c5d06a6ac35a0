CONSTANTS
    Degree = 1
    None = None
    NaN = NaN
    Unparsable = Unparsable
    Clients = {c1, c2}
    Guis = {g1}
    FirstTexts <- First
    SavedTexts <- Saved
    HandTexts <- ByHand
    AskedModes = {"Auto", "Silent"}
    MaxRequests = 2
    PowerFails = FALSE
SPECIFICATION Spec
SYMMETRY Symmetry
INVARIANTS TypeOK FileAlwaysWhole ReloadNeverLost TmpOwned
