SPECIFICATION FairSpec
CONSTANTS
    Recordings = {r1}
    NoRec = NoRec
    Workers = {w1}
    MaxReceive = 1
    MaxDeliver = 1
    MaxCrashes = 0
    MaxNodeFaults = 0
    MaxReanalyses = 1
    MaxEdits = 0
    MaxDeletes = 0
    SlowTranscribe = TRUE
    Due = {}
PROPERTY QueuedRuns
CHECK_DEADLOCK FALSE
