SPECIFICATION FairSpec
CONSTANTS
    Recordings = {r1}
    NoRec = NoRec
    Workers = {w1}
    MaxReceive = 3
    MaxDeliver = 3
    MaxCrashes = 2
    MaxNodeFaults = 0
    MaxReanalyses = 0
    MaxEdits = 1
    MaxDeletes = 0
    SlowTranscribe = TRUE
    Due = {"refresh_taste_profile", "run_discovery"}
PROPERTY EditKept
PROPERTY UploadPublished
CHECK_DEADLOCK FALSE
