\* Five parts that share no state.
CONSTANTS
    Days = 4
    Cells = {"x", "y"}
    Lenses <- MCLenses
    Tables <- MCTables
    Periods = 3
    WarningPercent = 50
    MemberLimit = 3
    MaxRanked = 1
    MaxWindow = 2
    MaxBack = 1
    MaxCommits = 2
    Threads = {"t1", "t2"}
    Kids = {"a", "b"}
    Lifespan = 1
    Timeout = 1
    Cooldown = 1
    MaxGeneration = 2
    Units <- MCUnits
    TurnRetries = 2
    Tenants = {"A", "B"}
    Subjects = {"u", "v"}
    SubjectRpm = 2
    TenantRpm = 3
    TenantConcurrency = 2
    GlobalConcurrency = 3
    MaxTracked = 3
    WindowSeconds = 2
    CleanupEvery = 2
    MaxLeases = 4
    Metrics = {"m1", "m2"}
    Additive = {"m1"}
    Spans = {1, 3}
    Filters <- MCFilters
    MaxTurns = 3
    MaxMetrics = 2
    MaxFilters = 2
    MaxComparisonWindow = 2
SPECIFICATION MCAgentSpec
INVARIANTS
    NoDriversOfIncompleteDays
    ContributionsAddUp
    OnlyErrorsAreRetried
    AnalysisOutcomeIsBacked
    HistoryExplainsTheQuery
    LimitsHold
    RetryAfterSuffices
    RetiredKeysLapse
    GenuineIsRefusedForCause
\* The bounds of the parts: no further write of a mart.
CHECK_DEADLOCK FALSE
