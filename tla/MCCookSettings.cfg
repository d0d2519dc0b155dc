CONSTANTS
    NoCook = NoCook
    Temps = {low}
    Targets = {rare, done}
    MaxTotal = 3
    Longests = {2, 3}
    MIN_REMAINING = 2
    ISSUE_GRACE = 1
    LAG = 1
SPECIFICATION Spec
SYMMETRY SettingSymmetry
INVARIANTS TypeOK  NoFlicker TotalKept
