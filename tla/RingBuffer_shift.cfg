SPECIFICATION Spec
CONSTANTS
    Item = {x, y}
    None = None
    Garbage = Garbage
    Request <- MCRequest
    DefaultCap = 4
    Word = 16
    ItemSize = 2
    MaxCap = 8
PROPERTY UnreadSurvivesGrowth
CHECK_DEADLOCK FALSE
