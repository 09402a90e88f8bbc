SPECIFICATION CaptureSpec
CONSTANTS
    MaxCaptures = 2
    MaxTakesHere = 2
    MaxTurns = 1
    MaxPhotoFlows = 1
    MaxSeconds = 1
INVARIANT OneCapture
CHECK_DEADLOCK FALSE
