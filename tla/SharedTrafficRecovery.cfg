\* Two requests, one slot, every fault, under fairness.
CONSTANTS
    r1 = r1
    r2 = r2
    r3 = r3
    Requests <- MCPair
    TenantOf <- MCTenant
    SubjectOf <- MCSubject
    SubjectRpm = 3
    TenantRpm = 3
    TenantConcurrency = 1
    GlobalConcurrency = 1
    Window = 0
    Ttl = 3
    Heartbeat = 1
    OpTimeout = 0
    Faults = {"admit", "renew", "release", "pod_crash"}
SPECIFICATION FairSpec
INVARIANTS
    AnswerOnlyUnderLease
PROPERTIES
    CapacityIsRecovered
    RequestsEnd
\* Every request is handled once; then nothing is left to do.
CHECK_DEADLOCK FALSE
