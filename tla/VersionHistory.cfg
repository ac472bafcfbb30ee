CONSTANTS
    Device = {d1, d2, d3}
    CheckedMerge = FALSE
    MaxVersion = 2
    MaxSent = 2
SPECIFICATION BoundedSpec
INVARIANTS
    TypeOK
    HistoryExact
    NewerMeansMoreHistory
    ConcurrentDetected
PROPERTY HistoryGrows
SYMMETRY Symmetry
CHECK_DEADLOCK FALSE
