SPECIFICATION PartsSpec
CONSTANTS
    Takes = {r1, r2, r3}
    Photos = {p1, p2}
    Callers = {c1, c2}
    MaxTakes = 1
    MaxPhotos = 2
    MaxDiaryCalls = 3
    MaxDrops = 1
    Patterns = {k1, k2}
    Runs = {s1, s2}
    MaxTastings = 2
    MaxRuns = 3
    MaxCards = 2
    ProfileEvery = 2
    DiscoveryMin = 2
    DiscoveryStep = 1
    MinSample = 1
    Ips = {x1}
    Requests = {q1, q2}
    MaxTick = 5
    MaxArrivals = 3
    MaxRetries = 1
    Window = 2
    MaxRequests = 1
    Grace = 2
    Latency = 2
    Processes = {a1}
    Day = 2
    DailyRunLimit = 1
    MaxInvocations = 2
    Editors = {e1}
    Tabs = {b1, b2}
    Pages = {g1, g2}
    Instances = {i1}
    MaxLogins = 2
    MaxWrites = 1
    MaxNow = 1
    SessionTtl = 1
    FlowTtl = 1
    MaxCaptures = 2
    MaxTakesHere = 1
    MaxTurns = 1
    MaxPhotoFlows = 2
    MaxSeconds = 1
    Loops = {l1}
    Buttons = {n1}
    BackoffMaxAttempts = 2
    MaxRegistrations = 2
    MaxReloads = 1
    MaxRetryClicks = 2
    Polls = {h1, h2}
    MaxStatusWrites = 2
    MaxReanalyses = 1
    Places = {w1, w2, w3, w4}
    MaxRecords = 2
    Bottles = {v1, v2}
    Dates = {1, 2}
    MaxEdits = 2
    ProfileMin = 2
    ReferenceBelow = 2
    MaxAttempts = 2
    LocalRuns = {o1, o2}
    MaxReplies = 2
    ListedKinds = {"TASTING"}
    Numbers = {1, 2}
    Bundled = {1}
    Marks = {1, 2}
    PageItems = 1
    MaxChanges = 2
    Viewers = {y1, y2}
    Pictures = {z1}
    PictureLimit = 1
    MaxVersions = 2
    MaxClicks = 2
    Pitches = {0, 1, 2, 4}
    SpeakerLabels = {0, 1, 2}
    MediumGap = 1
    HighGap = 3
    SilenceMin = 2
    MergeGap = 2
    WordGap = 1
    SilenceUnder = {2}
    MergeOver = {1}
    PauseOver = {1}
    MaxFrames = 3
    MaxLevels = 6
    MaxSpans = 2
    MaxWords = 3
INVARIANTS
    PartsTypeOK
    TakesBounded
    RateWindowBound
    RunsPerDay
    ReturnsWhereStarted
    NothingSilent
    DurationExact
    UploadingIsSent
    ShownIsRecent
    RegionsFound
    PagesAgree
    FilledConsistent
    LocalRunsSound
    ReadsWhole
    PagesFresh
    VoiceAsHeard
PROPERTIES
    OneTextPerVersion
    CorrectionsKept
    PhotosAsAnswered
    CalmCalls
    MetaFirstWins
    CardsFirstWin
    CardsKept
    ProfileAsRead
    RevocationTakesHold
    SavesOverSeen
CHECK_DEADLOCK FALSE
