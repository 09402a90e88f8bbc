SPECIFICATION Spec
CONSTANTS
    Wines = {w1}
    Wineries = {y1}
    Regions = {g1, g2}
    Tastings = {t1}
    NoItem = NoItem
    Editors = {e1, e2}
    MaxCalls = 2
SYMMETRY Symmetry
INVARIANT TypeOK
PROPERTY CalmKeepsReferences
PROPERTY FillYields
PROPERTY FirstWriterWins
CHECK_DEADLOCK FALSE
