\* Two parts that share no state: two days, two runs, perhaps at once, and three changes of one
\* order; and three behaviour events, two partitions, one failure.
CONSTANTS
    Orders = {o1}
    Contents = {a, b}
    Runs = {r1, r2}
    DayLength = 2
    Lookback = 1
    Days = 2
    MaxUpdates = 3
    Events = {"first", "second", "later"}
    TopicPartitions = {1, 2}
    EventTimes = {0, 3, 4}
    WindowSize = 2
    AllowedLateness = 1
    OutOfOrderness = 1
    EventKinds = {"view", "blank"}
    MaxRequests = 3
    MaxMishaps = 1
    Faults = {"collector_crash", "job_failure", "state_expiry"}
SYMMETRY RunSymmetry
SPECIFICATION IngestionSpec
INVARIANTS
    DoneIsCurrent
    RefundItemsAgree
    LoadsOwnExtract
    AcceptedIsRecoverable
    ViewsAddUp
    LateForAReason
PROPERTY NeverRegresses
ACTION_CONSTRAINTS ClientsFirst UsefulSteps
\* Every run is over and the last day has passed; the clients sent everything.
CHECK_DEADLOCK FALSE
