CONSTANTS
    Degree = 1
    PointTemps = {20, 25}
    PointDuties = {30, 100}
    MaxPoints = 2
    First = 18
    Last = 28
SPECIFICATION Spec
INVARIANT NeverBelowHottestPoint
CHECK_DEADLOCK FALSE
