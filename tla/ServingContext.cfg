\* Four parts that share no state. Serving: two exports of two days, with
\* retries, orphaned Spark jobs and every fault. Context: two threads, two
\* repositories and two files; two models, one change of their files; two
\* steps of expansion.
CONSTANTS
    Jobs = {j1, j2}
    Days = 2
    Regions = {west}
    NoRegion = NoRegion
    Assets = {orders, refunds}
    MaxVersions = 2
    MaxRetries = 1
    Faults = {"deferred", "mf_error", "no_csv", "client_timeout", "spark_down"}
    Threads = {t1, t2}
    Instances = {loader, tools}
    Sources = 2
    Revisions = {"v1", "v2"}
    MaxSourceEdits = 2
    MaxClears = 1
    Models = {m1, m2}
    Texts = {a, b, c}
    Large = {c}
    Original = a
    AllowLocalBuild = TRUE
    MaxEdits = 1
    CodeModels = {"orders", "items"}
    Policy <- MCPolicy
    InitialTotals = {0, 3, 6}
    ExcerptSizes = {1, 3}
    InitialLimit = 5
    ExpandedLimit = 8
    MaxSteps = 2
SPECIFICATION ServingContextSpec
INVARIANTS
    PublishedIsOwnResult
    CompleteDaysOnly
    SnapshotsAreShared
    QuietCardsAreCurrent
    CodeIsEarned
SYMMETRY Alike
\* The exports are over; all is built, edited and resolved; a request ends.
CHECK_DEADLOCK FALSE
