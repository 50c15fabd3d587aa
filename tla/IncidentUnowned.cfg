\* Two days of which the sensor looks back at one.
CONSTANTS
    Days = 2
    Horizon = 1
    MaxAutoReplays = 1
    MaxRetries = 0
    MaxMishaps = 1
    Steps <- MCSteps
    Marts = {orders}
    Faults = {"missed_tick", "infra_down", "tag_error", "cancel"}
    MaxApprovalRequests = 5
    MaxBundles = 1
SPECIFICATION IncidentSpec
INVARIANTS
    DelegatedIsOwned
\* The bounds: no further day.
CHECK_DEADLOCK FALSE
