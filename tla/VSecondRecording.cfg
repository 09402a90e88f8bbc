SPECIFICATION Spec
CONSTANTS
    Recordings = {r1, r2}
    NoRec = NoRec
    Workers = {w1}
    MaxReceive = 1
    MaxDeliver = 1
    MaxCrashes = 0
    MaxNodeFaults = 0
    MaxReanalyses = 0
    MaxEdits = 0
    MaxDeletes = 0
    SlowTranscribe = TRUE
    Due = {}
INVARIANT UploadStarted
CHECK_DEADLOCK FALSE
