SPECIFICATION Spec
CONSTANTS
    Runs = {l, g}
    LocalRuns = {l}
    WorkflowRuns = {l, g}
    GitHubFetcher = TRUE
    MaxFaults = 1
    l = l
    g = g
INVARIANTS
    DeliveryAppliesOnce
PROPERTIES
    OnlyCallbacksReopen
CHECK_DEADLOCK FALSE
