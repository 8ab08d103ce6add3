CONSTANTS
    same = same
    long = long
    other = other
    third = third
    panic = panic
    frame = frame
    tagged = tagged
    A = A
    B = B
    C = C
    D = D
    E = E
    Records <- AllRecords
    NoRecord = NoRecord
    Patterns <- AllPatterns
    NoPattern = NoPattern
    Signature <- MCSignature
    FastMatches <- MCFastMatches
    Traits <- MCTraits
    PatternLimit = 2
    DotEvery = 1
    DotBatchSize = 2
    DotFlushInterval = 1
    SummaryInterval = 2
    Interleaving = TRUE
    LiveTimer = TRUE
    Timers = {t1, t2, t3}
    NoTimer = NoTimer
    MaxRecords = 5
CHECK_DEADLOCK FALSE
SPECIFICATION Spec
SYMMETRY TimerSymmetry
INVARIANTS TypeOK Accounting EveryHiddenHasExemplar IndexInv DiagnosticsIntact
PROPERTIES ImplementsCompactView
