SPECIFICATION Spec
CONSTANTS
    NoApp = NoApp
    NoJob = NoJob
    Apps = {a1, a2}
    Previews = {p1}
    Requests = {r1, r2}
    Retries = {j1}
    Workers = {w1, w2}
    CanCancel = TRUE
    HasCloudflare = TRUE
    HasGitOps = TRUE
    HasArgoCD = TRUE
    Redeploys = TRUE
    MaxFaults = 1
    a1 = a1
    a2 = a2
    p1 = p1
    r1 = r1
    r2 = r2
    j1 = j1
    w1 = w1
    w2 = w2
SYMMETRY RequestSymmetry
INVARIANTS
    CompletedMeansGone
PROPERTIES
    AppsDieByTheirOwnJob
CHECK_DEADLOCK FALSE
