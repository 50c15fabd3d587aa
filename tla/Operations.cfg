\* Two parts that share no state: one day of incidents, and the promotion of
\* one setting by one decision.
CONSTANTS
    Days = 1
    Horizon = 2
    MaxAutoReplays = 1
    MaxRetries = 0
    MaxMishaps = 2
    Steps <- MCSteps
    Marts = {orders}
    Faults = {"missed_tick", "infra_down", "tag_error", "cancel"}
    MaxApprovalRequests = 5
    MaxBundles = 1
    Builds = {b1, b2}
    Methods = {m1, m2}
    Windows = {0, 1}
    Maxima = {1, 2}
    Efficiencies = {2, 4}
    PlateauPercent = 90
    Minimum = 2
    Ttl = 1
    MaxRuns = 2
    MaxEdits = 2
    MaxReviews = 2
    MaxDecisions = 1
    MaxClock = 2
SPECIFICATION OperationsSpec
INVARIANTS
    ReplaysWithinBudget
    GrantsAreTrue
    ProposalIsOfItsBase
    PackageIsAuthorized
SYMMETRY PartSymmetry
ACTION_CONSTRAINTS OneDecision
\* The bounds: no further day, review or edit.
CHECK_DEADLOCK FALSE
