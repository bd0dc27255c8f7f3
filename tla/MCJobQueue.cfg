SPECIFICATION Spec
CONSTANTS
    AlwaysLeader = FALSE
    NoJob = NoJob
    NoWorker = NoWorker
    Jobs = {j1, j2}
    Workers = {w1, w2}
    Registered = {j1}
    MaxAttempts = 3
    BatchSize = 2
    MaxFaults = 2
    j1 = j1
    j2 = j2
    w1 = w1
    w2 = w2
SYMMETRY ReplicaSymmetry
INVARIANTS
    ExclusiveExecution
    EachLossTakesAFault
PROPERTIES
    ImplementsLifecycle
CHECK_DEADLOCK FALSE
