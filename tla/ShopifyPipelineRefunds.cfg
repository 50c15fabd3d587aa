\* A refund of one day, its order changed again before that day is read.
CONSTANTS
    Orders = {o1}
    Contents = {a, b}
    Runs = {r1, r2}
    DayLength = 2
    Lookback = 1
    Days = 2
    MaxUpdates = 3
SYMMETRY RunSymmetry
SPECIFICATION Spec
INVARIANT RefundsAreCurrent
CHECK_DEADLOCK FALSE
