CONSTANTS
    Patterns = {p, q}
    NoPattern = NoPattern
    Timers = {t1, t2, t3}
    NoTimer = NoTimer
    Main = Main
    Modes <- Both
    MaxRecords = 3
    MaxInterrupts = 2
CHECK_DEADLOCK FALSE
SPECIFICATION FairSpec
INVARIANTS TypeOK CountsSurvive ExemplarPrinted ExitTold
PROPERTIES SessionEnds
