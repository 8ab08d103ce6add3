CONSTANTS
    same = same
    long = long
    other = other
    third = third
    panic = panic
    frame = frame
    tagged = tagged
    A = A
    B = B
    C = C
    D = D
    E = E
    Records <- TimedRecords
    NoRecord = NoRecord
    Patterns <- AllPatterns
    NoPattern = NoPattern
    Signature <- MCSignature
    FastMatches <- MCFastMatches
    Traits <- MCTraits
    PatternLimit = 2
    DotEvery = 2
    DotBatchSize = 2
    DotFlushInterval = 2
    SummaryInterval = 3
    Interleaving = FALSE
    LiveTimer = TRUE
    Timers = {t1, t2, t3}
    NoTimer = NoTimer
    MaxRecords = 5
CHECK_DEADLOCK FALSE
SPECIFICATION FairSpec
INVARIANTS RunHasTimer DotsExact Latency AdjacentOnly
PROPERTIES EventuallyAccounted TimersEnd
