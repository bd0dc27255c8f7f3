SPECIFICATION AllSpec
CONSTANTS
    MaxUploads = 3
    Handlers = {q1, q2}
    Deploys = {d1}
    Collectors = {g1}
    MaxArchive = 1
    MaxInert = 1
    MaxPinned = 1
    MaxDaily = 3
    Limit = 1
    MaxFaults = 1
    NoUpload = NoUpload
    NumInstalls = 1
    Suspensions = {1}
    Apps = {a1}
    Requests = {r1}
    NoInstall = NoInstall
    InstallFaults = 1
    Limited = {"q", "r"}
    Tokens = {"k"}
    Team = "t"
    TokenOf <- MCTokenOf
    Scoped = {"q"}
    Plans = {"free", "pro"}
    Free = "free"
    Quota <- MCQuota
    IdleTTL = 1
    RetryMax = 1
    NoBucket = NoBucket
    NoKey = NoKey
    MaxClock = 3
    MaxPlanChanges = 2
    a1 = a1
    r1 = r1
    q1 = q1
    q2 = q2
    d1 = d1
    g1 = g1
INVARIANTS
    OvershootIsBounded
    PinsInTimeHold
    QuotaHolds
PROPERTIES
    UploadsAreCollected
    ClearedTeamsArePaused
    UninstallsConverge
CHECK_DEADLOCK FALSE
