SPECIFICATION AllSpec
CONSTANTS
    Nobody = Nobody
    NoJob = NoJob
    NoWorker = NoWorker
    NoApp = NoApp
PROPERTIES
    QueuedJobsSettle
    LocalRunsEnd
    SyncingIsResolved
    DeletingEnds
CHECK_DEADLOCK FALSE
