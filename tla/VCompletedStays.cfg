SPECIFICATION Spec
CONSTANTS
    Recordings = {r1}
    NoRec = NoRec
    Workers = {w1}
    MaxReceive = 1
    MaxDeliver = 2
    MaxCrashes = 0
    MaxNodeFaults = 0
    MaxReanalyses = 0
    MaxEdits = 0
    MaxDeletes = 0
    SlowTranscribe = TRUE
    Due = {}
PROPERTY CompletedStays
CHECK_DEADLOCK FALSE
