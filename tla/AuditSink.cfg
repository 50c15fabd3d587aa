\* Three writers, one restart, every fault: failing appends, syncs and creations,
\* a kill or power loss anywhere; threads under fairness.
CONSTANTS
    Threads = {t1, t2, t3}
    MaxRecords = 3
    MaxRestarts = 1
    Faults = {"append_error", "append_partial", "sync_error", "parent_sync_error", "kill_in_init", "kill", "power_loss"}
SPECIFICATION FairSpec
INVARIANTS
    AckedSurvives
    BatchesPartitionGenerations
    SleepersHaveALeader
    SyncUsesOpenFd
PROPERTIES
    ImplementsLog
    CallsReturn
\* The process may end after its exit hook.
CHECK_DEADLOCK FALSE
