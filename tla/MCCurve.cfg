CONSTANTS
    Degree = 1
    PointTemps = {20, 22, 25, 151}
    PointDuties = {0, 33, 100, 101}
    MaxPoints = 3
    First = 18
    Last = 28
SPECIFICATION Spec
INVARIANTS CurveMatchesReference CurveGivesPercentage
PROPERTY HotterNeverLess
CHECK_DEADLOCK FALSE
