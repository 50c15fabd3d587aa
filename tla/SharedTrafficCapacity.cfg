\* Three requests of two tenants with one slot each, in windows of two units;
\* admissions may fail or come late, and pods crash.
CONSTANTS
    r1 = r1
    r2 = r2
    r3 = r3
    Requests <- MCRequests
    TenantOf <- MCTenant
    SubjectOf <- MCSubject
    SubjectRpm = 1
    TenantRpm = 2
    TenantConcurrency = 1
    GlobalConcurrency = 2
    Window = 2
    Ttl = 3
    Heartbeat = 1
    OpTimeout = 0
    Faults = {"admit", "pod_crash"}
SYMMETRY PairSymmetry
SPECIFICATION Spec
INVARIANTS
    WithinLimits
    TimedOutWorkerKeepsSlot
    ReleasedStaysReleased
\* Every request is handled once; then nothing is left to do.
CHECK_DEADLOCK FALSE
