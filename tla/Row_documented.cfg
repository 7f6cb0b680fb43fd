SPECIFICATION Spec
CONSTANTS
    c1 = c1
    c2 = c2
    a = a
    b = b
    Conns <- MCTwoConns
    Cols <- MCTwoCols
    Values <- MCTwoValues
    Times <- MCTimes3
    CommitsFail = FALSE
    MaxInTx = 1
INVARIANT MergesAsDocumented
CHECK_DEADLOCK FALSE
