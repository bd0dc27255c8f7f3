SPECIFICATION Spec
CONSTANTS
    Slugs = {new, old}
    Legacy = {old}
    Previews = {p1, p2}
    Deliveries = {d1}
    Requests = {q1, q2}
    Runs = {r1, r2, r3}
    MaxFaults = 1
    NoRun = NoRun
    NoJob = NoJob
    NoSlug = NoSlug
    new = new
    old = old
    p1 = p1
    p2 = p2
    d1 = d1
    q1 = q1
    q2 = q2
    r1 = r1
    r2 = r2
    r3 = r3
SYMMETRY IdSymmetry
INVARIANTS
    OneRunPerDelivery
    OverlapNeedsRace
    AnswersStand
CHECK_DEADLOCK FALSE
