SPECIFICATION Spec
CONSTANTS
    c1 = c1
    c2 = c2
    a = a
    b = b
    Conns <- MCTwoConns
    Cols <- MCTwoCols
    Values <- MCOneValue
    Times <- MCTimes3
    CommitsFail = TRUE
    MaxInTx = 2
SYMMETRY Symmetry
INVARIANTS
    MergeOrderIrrelevant
    NoMixedRows
    OnlyStoredTransactions
    NothingNewerMissing
    RowInv
PROPERTY UpdateTakesEffect
CHECK_DEADLOCK FALSE
