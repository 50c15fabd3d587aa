\* Two days with sales, and nothing that fails.
CONSTANTS
    Jobs = {j1, j2}
    Days = 2
    Regions = {west}
    NoRegion = NoRegion
    Assets = {orders, refunds}
    MaxVersions = 2
    MaxRetries = 1
    Faults = {}
SYMMETRY JobSymmetry
SPECIFICATION Spec
INVARIANTS
    RerunIsAccepted
\* The exports are over.
CHECK_DEADLOCK FALSE
