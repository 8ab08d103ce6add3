CONSTANTS
    wide = wide
    narrow = narrow
    single = single
    Invocations <- Three
    NoInvocation = NoInvocation
    Top = 3
    MaxFiles <- MCMaxFiles
    MaxSize <- MCMaxSize
    Sizes <- MCSizes
    Prompt <- OnlyWide
    MaxFaults = 1
CHECK_DEADLOCK FALSE
SPECIFICATION FairSpec
INVARIANTS TypeOK HistoryInOrder RetentionBounded FinishMatchesStart
PROPERTIES RenamesKeep AppendEnds
