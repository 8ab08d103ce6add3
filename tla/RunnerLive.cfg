CONSTANTS
    shell = shell
    helper = helper
    Members <- Two
    Leader = shell
    Daemons <- None
    PipeSize = 1
    Chunks = 1
    MaxSignals = 2
    MaxFaults = 0
CHECK_DEADLOCK FALSE
SPECIFICATION FairSpec
PROPERTIES InterruptEnds RunEnds
