CONSTANTS
    shell = shell
    helper = helper
    Members <- Two
    Leader = shell
    Daemons <- None
    PipeSize = 1
    Chunks = 2
    MaxSignals = 1
    MaxFaults = 0
CHECK_DEADLOCK FALSE
SPECIFICATION Spec
INVARIANTS ExactRawLog
