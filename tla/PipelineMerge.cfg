SPECIFICATION Spec
CONSTANTS
    Recordings = {r1}
    NoRec = NoRec
    Workers = {w1, w2}
    MaxReceive = 1
    MaxDeliver = 2
    MaxCrashes = 0
    MaxNodeFaults = 0
    MaxReanalyses = 1
    MaxEdits = 0
    MaxDeletes = 1
    SlowTranscribe = FALSE
    Due = {"refresh_taste_profile", "run_discovery"}
SYMMETRY Symmetry
INVARIANT NoOrphanRecording
PROPERTY StepsKept
CHECK_DEADLOCK FALSE
