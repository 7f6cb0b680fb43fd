SPECIFICATION Spec
CONSTANTS
    w1 = w1
    w2 = w2
    r1 = r1
    k1 = k1
    k2 = k2
    Handles <- MCWriters
    ReadOnly <- MCNone
    Keys <- MCTwoKeys
    Times <- MCTimes2
    OpenTimes <- MCTimes2
    RetryFailed = FALSE
    MaxRoots = 3
    MaxWrites = 2
    MaxFaults = 1
SYMMETRY Symmetry
INVARIANTS
    IInv
    DurableCommits
    PublishedReadable
    HistoryKept
    CompleteOpen
PROPERTIES
    DeletedIsSuperseded
    ImplementsDurableMap
CHECK_DEADLOCK FALSE
