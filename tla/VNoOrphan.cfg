SPECIFICATION Spec
CONSTANTS
    Recordings = {r1}
    NoRec = NoRec
    Workers = {w1, w2}
    MaxReceive = 1
    MaxDeliver = 1
    MaxCrashes = 0
    MaxNodeFaults = 0
    MaxReanalyses = 0
    MaxEdits = 0
    MaxDeletes = 1
    SlowTranscribe = TRUE
    Due = {}
SYMMETRY Symmetry
INVARIANT NoOrphan
CHECK_DEADLOCK FALSE
