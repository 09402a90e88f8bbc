SPECIFICATION FairSpec
CONSTANTS
    Recordings = {r1}
    NoRec = NoRec
    Workers = {w1}
    MaxReceive = 1
    MaxDeliver = 1
    MaxCrashes = 0
    MaxNodeFaults = 1
    MaxReanalyses = 0
    MaxEdits = 0
    MaxDeletes = 0
    SlowTranscribe = TRUE
    Due = {}
PROPERTY FailureRecorded
CHECK_DEADLOCK FALSE
