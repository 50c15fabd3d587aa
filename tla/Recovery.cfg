\* Two partitions in the horizon, two replays each at most, step retries, two mishaps of
\* every kind: the older partition must not hold up the newer one.
CONSTANTS
    Days = 2
    Horizon = 2
    MaxAutoReplays = 2
    MaxRetries = 1
    MaxMishaps = 2
    Steps <- MCSteps
    Marts = {m1, m2}
    Faults = {"missed_tick", "infra_down", "extract_error", "tag_error", "cancel"}
SPECIFICATION FairSpec
INVARIANTS
    OneReplayAtATime
    ReplayHasEvidence
PROPERTY RecoverableIsReplayed
\* The last day ends and every run is over.
CHECK_DEADLOCK FALSE
