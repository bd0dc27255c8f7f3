SPECIFICATION MCSpec
CONSTANTS
    Subs = {s1}
    Events = {e1}
    Copies = {0, 1}
    Senders = {w1, w2}
    MaxAttempts = 2
    Threshold = 2
    MaxSubs = 1
    Batch = 2
    OutboxFaults = 1
    NoDelivery = NoDelivery
    Pods = {p1}
    DayLen = 1
    Horizon = 1
    Retention = 0
    Lookback = 1
    LedgerFaults = 1
    NoPod = NoPod
    Nobody = Nobody
    Replicas = {r1, r2}
    LeaseDuration = 4
    Patience = 3
    MaxTime = 9
    r1 = r1  r2 = r2  p1 = p1  s1 = s1  e1 = e1  w1 = w1  w2 = w2
INVARIANTS
    OverlapOnlyWhenLeaving
    SendsAreBounded
    OneDisableNotice
PROPERTIES
    AuthoritativeEndsStay
    LedgerCatchesUp
    
    DeliveriesSettle
CHECK_DEADLOCK FALSE
