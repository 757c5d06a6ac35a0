CONSTANTS
    Degree = 2
    None = None
    NaN = NaN
    Unparsable = Unparsable
    FirstTexts <- First
    HandTexts <- Broken
    AskedModes = {"Silent"}
    ModeChoices = {"Auto", "Performance"}
    DutyChoices = {30}
    CeilingChoices = {45}
    SourceChoices = {"Gpu"}
    PointChoices <- OnePoint
    EditedChannels = {"fan"}
    MaxPoints = 2
    MaxEdits = 2
SPECIFICATION Spec
PROPERTY FailedRevertKeepsWork
