SPECIFICATION AllSpec
CONSTANTS
    p1 = p1  p2 = p2  ops = ops  b2 = b2  s1 = s1  s2 = s2
    v1 = v1  v2 = v2  v3 = v3
    People = {p1, p2}
    Slugs = {ops}
    Boots = {b2}
    Logins = {s1, s2}
    Invites = {v1, v2}
    Removals = {v3}
    BootTeam <- MCBootTeam
    BootOwner <- MCBootOwner
    LoginOf <- MCLoginOf
    Target <- MCTarget
    Rank <- MCRank
    InviteTeam = p1
    NoTeam = NoTeam
    MaxFaults = 1
    Users = {"p"}
    Creates = {"c"}
    Updates = {"u"}
    Deletes = {"x"}
    Arrivals = {"l"}
    ArrivalOf <- MCArrivalOf
    Requests = {"q"}
    Revocations = {"d"}
    NoConfig = NoConfig
    NoPerson = NoPerson
    SsoFaults = 1
    Adds = {"a"}
    Calls = {"v"}
    Extends = {"e"}
    Poller = Poller
    NoAdd = NoAdd
    NoMark = NoMark
    GraceWindow = 1
    MaxTime = 4
    HostFaults = 1
    a1 = a1  u1 = u1  u2 = u2  w1 = w1  w2 = w2
    Apps = {a1}
    Pods = {u1, u2}
    AppOf <- MCAppOf
    DayLen = 2
    Horizon = 6
    Retention = 4
    DetailDays = 3
    MaxLife = 2
    Backlog = 1
    MaxRows = 1
    Sampled = {a1}
    SampledPods = {w1, w2}
    SampledAppOf <- MCSampledAppOf
    Samplers = {"s"}
    Loads = {0, 4}
    SampleDay = 1
    SampleHorizon = 2
    SampleRetention = 1
    MaxSamples = 3
SYMMETRY PodSymmetry
INVARIANT
    DetailIsWhole
CHECK_DEADLOCK FALSE
