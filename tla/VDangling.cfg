SPECIFICATION Spec
CONSTANTS
    Wines = {w1}
    Wineries = {y1}
    Regions = {g1}
    Tastings = {t1}
    NoItem = NoItem
    Editors = {e1, e2}
    MaxCalls = 2
INVARIANT NoDangling
CHECK_DEADLOCK FALSE
