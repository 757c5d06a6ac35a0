CONSTANTS
    Degree = 2
    None = None
    NaN = NaN
    Unparsable = Unparsable
    FirstTexts <- First
    HandTexts <- ByHand
    AskedModes = {"Silent"}
    ModeChoices = {"Performance"}
    DutyChoices = {30}
    CeilingChoices = {45}
    SourceChoices = {"Gpu"}
    PointChoices <- OnePoint
    EditedChannels = {"fan"}
    MaxPoints = 2
    MaxEdits = 2
SPECIFICATION Spec
INVARIANTS TypeOK ViewMatchesFile SavedLoads ToldTruth HiddenHasTray SettingsAgree
PROPERTY TrayKeepsCurves
