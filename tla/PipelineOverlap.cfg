SPECIFICATION Spec
CONSTANTS
    Recordings = {r1}
    NoRec = NoRec
    Workers = {w1, w2}
    MaxReceive = 2
    MaxDeliver = 2
    MaxCrashes = 1
    MaxNodeFaults = 1
    MaxReanalyses = 0
    MaxEdits = 0
    MaxDeletes = 0
    SlowTranscribe = FALSE
    Due = {}
SYMMETRY Symmetry
INVARIANT TypeOK
INVARIANT CompletedHasAnalysis
INVARIANT StepsEarned
INVARIANT BasisStored
INVARIANT CrashKeepsUpload
CHECK_DEADLOCK FALSE
