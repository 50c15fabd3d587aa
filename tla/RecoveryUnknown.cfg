\* A step retry leaves the class of the attempt before it on the run.
CONSTANTS
    Days = 1
    Horizon = 1
    MaxAutoReplays = 1
    MaxRetries = 1
    MaxMishaps = 2
    Steps <- MCSteps
    Marts = {m1}
    Faults = {"extract_error"}
SPECIFICATION Spec
INVARIANT ReplayWasSafe
CHECK_DEADLOCK FALSE
