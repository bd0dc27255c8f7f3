SPECIFICATION AllSpec
CONSTANTS
    NoWriter = NoWriter
    Writers = {w1, w2}
    Verifiers = {x1}
    Stamps = {1, 2, 3, 5}
    MonthLength = 4
    SecondLength = 2
    PageSize = 1
    MaxId = 3
    Recorders = {"w", "x"}
    Kind <- MCKind
    Jobs = {"j", "k"}
    LogReaders = {"r"}
    Since <- MCSince
    NoSince = NoSince
    Window = 1
    LogPage = 1
    Retention = 1
    Lookahead = 1
    FirstMonth = 1
    MaxMonth = 4
    Incidents = {1, 2, 3}
    Teams = {"t", "u"}
    Closers = {"c", "d"}
    IncidentReaders = {"r"}
    TeamOf <- MCTeamOf
    Note <- MCNote
    NoNote = NoNote
    Status <- MCStatus
    IncidentPage = 1
    Nobody = Nobody
    Never = Never
    MaxClock = 1
    MaxFaults = 1
    w1 = w1
    w2 = w2
    x1 = x1
SYMMETRY WriterSymmetry
INVARIANTS
    ChainVerifies
    ExportIsExact
    VerdictsAreRight
    RecordsAreKept
    WritesFindPartitions
    ListingsAreExact
PROPERTIES
    ClosuresStand
CHECK_DEADLOCK FALSE
