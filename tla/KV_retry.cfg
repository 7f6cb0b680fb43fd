SPECIFICATION Spec
CONSTANTS
    w1 = w1
    w2 = w2
    r1 = r1
    k1 = k1
    k2 = k2
    Handles <- MCHandles
    ReadOnly <- MCReadOnly
    Keys <- MCTwoKeys
    Times <- MCTimes1
    OpenTimes <- MCTimes1
    RetryFailed = TRUE
    MaxRoots = 3
    MaxWrites = 2
    MaxFaults = 1
SYMMETRY Symmetry
INVARIANT HistoryKept
PROPERTY DeletedIsSuperseded
CHECK_DEADLOCK FALSE
