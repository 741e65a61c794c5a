\* The engine in either mode, with a buffer of two ticks, three accepted orders
\* and two midnights; two requests to each part of the admin API; simulations
\* of four checks, a checkpoint every third event, up to six rows, four changes
\* of regime, three sessions of the feed and three saves of a local file.
SPECIFICATION SideSpec
CONSTANTS
    Modes = {"LIVE", "REPLAY"}
    Window = 2
    MaxErrors = 3
    DDLimit = 2
    Equities = {98, 99, 100}
    StartingEquity = 100
    MaxOrders = 3
    MaxDay = 3
    None = None
    Requests = {r1, r2}
    Revisions = {v1, v2}
    NoVersion = NoVersion
    MaxClock = 6
    Clients = {1, 2}
    Capacities = {1, 2}
    Rates = {1}
    DefaultCapacity = 1
    DefaultRate = 1
    MaxTime = 2
    MaxBuckets = 2
    MaxGrants = 2
    Logins = {l1, l2}
    Emails = {admin, user}
    AdminEmail = admin
    NoEmail = NoEmail
    MaxStores = 2
    MaxUsers = 3
    CheckWindow = 4
    LookBack = 2
    MinCooldown = 2
    MaxCooldown = 6
    MaxTick = 22
    LedgerEquities = {97, 99, 100}
    LedgerStart = 100
    CheckEvery = 3
    MaxEvents = 5
    MaxRuns = 2
    NoCheckpoint = NoCheckpoint
    TornCheckpoint = TornCheckpoint
    MaxSamples = 6
    FoldCounts = {2, 3, 5}
    Regimes = {quiet, crash}
    RowLookBack = 2
    MinTrain = 1
    MinTest = 1
    ErrorLimit = 3
    DrawdownLimit = 2
    MaxSessionDay = 2
    NoTrip = NoTrip
    AuthFrames = 3
    MaxBackoff = 5
    MaxSessions = 3
    MarketRegimes = {quiet, crash}
    PsiWindow = 4
    MaxShifts = 4
    MaxFalseAlarms = 2
    NoWindow = NoWindow
    Saves = {s1, s2, s3}
    LocalReaders = {reader}
    Nothing = Nothing
    Dashboards = {d1, d2}
    MaxUpdates = 3
    t1 = t1
    t2 = t2
    r = r
    p1 = p1
    p2 = p2
    pr = pr
    here = here
    there = there
    Threads = {t1, t2, r}
    Processes = {p1, pr}
    Disks = {here, there}
    ProcessOf <- OneProcessOf
    DiskOf <- OneDiskOf
    Savers = {t1, r}
    MaxVersion = 3
    Null = Null
INVARIANTS
    NoOrderBeforeWarm
    BreachTrips
    BooksAgree
    ThresholdsKept
    LatestRespectsOrder
    GrantsWithinRate
    OneBucket
    AccountsStay
    PsiComparesOneModel
    CheckpointBehind
    EachSampleOutOfSample
    WalksForward
    EvidenceIsStale
    ResumesOnlyAfterCancel
    EachShiftReportedOnce
    TornOnlyByOverlap
    RelayedWithoutGap
    ValidUnlessCrossed
    WarmIsFresh
    LockHeldInside
PROPERTIES
    NothingSentWhileTripped
    NamesLostOnlyInRace
