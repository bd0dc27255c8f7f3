SPECIFICATION MCSpec
CONSTANTS
    Subs = {s1}
    Events = {e1}
    Copies = {0, 1}
    Senders = {w1, w2}
    MaxAttempts = 2
    Threshold = 2
    MaxSubs = 1
    Batch = 2
    OutboxFaults = 1
    NoDelivery = NoDelivery
    Pods = {p1}
    DayLen = 1
    Horizon = 2
    Retention = 1
    Lookback = 2
    LedgerFaults = 0
    NoPod = NoPod
    Nobody = Nobody
    Replicas = {r1, r2}
    LeaseDuration = 4
    Patience = 3
    MaxTime = 9
    r1 = r1  r2 = r2  p1 = p1  s1 = s1  e1 = e1  w1 = w1  w2 = w2
PROPERTIES
    ChangedDaysComeBack
CHECK_DEADLOCK FALSE
